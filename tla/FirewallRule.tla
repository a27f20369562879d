---------------------------- MODULE FirewallRule ----------------------------
(***************************************************************************)
(* A firewall rule on its way from the operator to the kernel: the JSON    *)
(* rule of the user interface, the attributes the service packs it into,   *)
(* and the struct rule the kernel module parses out of them.               *)
(* A text is a string of the model, "*" the wildcard and "" the empty text *)
(* a form field starts with; texts are ASCII, without NUL.                 *)
(***************************************************************************)
EXTENDS Integers

CONSTANTS
    ProtoNumber,    \* proto_table of service/parsing/Utils.py: name -> number
    Cut             \* Cut[size][text]: what struct.pack keeps of a text in "<size>s"

\* proto_table is a dict by number, so that no number has two names.  (A Python that
\* knows of MPTCP, whose number is 262, has a name more; it is left out.)
ASSUME ProtoNumberAssumption ==
    /\ \A name \in DOMAIN ProtoNumber : ProtoNumber[name] \in 0..255
    /\ \A one, other \in DOMAIN ProtoNumber : ProtoNumber[one] = ProtoNumber[other] => one = other

NoProtocol == -1    \* what the service makes of "*" and of every unknown name

parse_protocol_name(protocol) ==
    IF protocol \in DOMAIN ProtoNumber THEN ProtoNumber[protocol] ELSE NoProtocol

NameSize == 50      \* the sizes of the texts in struct rule
AddrSize == 15

\* The service's side: every field becomes an attribute of its own.  A text is cut
\* to the size of its field, ports are packed as signed integers, and the other
\* numbers in 8 bytes, of which the kernel reads the first.
as_attribute(rule) ==
    [rule EXCEPT !.name = Cut[NameSize][@], !.srcIP = Cut[AddrSize][@], !.dstIP = Cut[AddrSize][@],
                 !.protocol = parse_protocol_name(@)]

nla_get_u8(value) == value % 256

\* The kernel's side.  The struct is a stack variable that no one clears, so
\* the padding after dst_ip holds whatever was there: dst_nul says whether its
\* first byte is a NUL, which matters when dst_ip fills its 15 bytes.
parse_nested_rule(attrs, dst_nul) ==
    [ name             |-> attrs.name,
      outgoing_packets |-> attrs.outgoingPackets,
      ingoing_packets  |-> attrs.ingoingPackets,
      black_list       |-> attrs.black,
      protocol         |-> nla_get_u8(attrs.protocol),
      src_ip           |-> attrs.srcIP,
      dst_ip           |-> attrs.dstIP,
      dst_nul          |-> dst_nul,
      dst_port         |-> attrs.dstPort,
      src_port         |-> attrs.srcPort,
      log              |-> attrs.log ]

\* The rules that an operator's rule can become once it is in the kernel.
Installed(rule) ==
    {parse_nested_rule(as_attribute(rule), dst_nul) : dst_nul \in BOOLEAN}
=============================================================================
