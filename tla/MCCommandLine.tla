--------------------------- MODULE MCCommandLine ---------------------------
(***************************************************************************)
(* Command lines for CommandLine: everything of up to three words from a   *)
(* small vocabulary, and additions, which take more, with their options   *)
(* in every order.                                                         *)
(***************************************************************************)
EXTENDS CommandLine, SequencesExt

None == "NULL"

Dashes        == [kind |-> "--", begins |-> {}, letters |-> {}, value |-> None]
APlainWord    == [Dashes EXCEPT !.kind = "word"]
Short(s)      == [Dashes EXCEPT !.kind = "short", !.letters = s]
LongWord(s)   == [Dashes EXCEPT !.kind = "long", !.begins = s]
WithValue(s, v) == [LongWord(s) EXCEPT !.value = v]

PlainWords == {"firewall", "add", "remove", "list", "dump", "load", "3", "abc", "web", "fifty", "long", "6", "10.0.0.1"}
Options    == Range(LongOptions)

MCShape ==
    [w \in PlainWords \cup Options \cup
           {"--", "-h", "-hx", "--verbose", "--out=3", "--=web", "--l=web", "--name=web", "--n=abc",
            "--name=fifty", "--name=long", "--src=10.0.0.1", "--dst=10.0.0.1", "--proto=6", "--proto=abc"}
     |-> CASE w \in PlainWords          -> APlainWord
           [] w \in Options             -> LongWord({w})
           [] w = "--"                  -> Dashes
           [] w = "-h"                  -> Short({"h"})
           [] w = "-hx"                 -> Short({"h", "x"})
           [] w = "--verbose"           -> LongWord({})
           [] w = "--out=3"             -> WithValue({"--out"}, "3")
           [] w = "--=web"              -> WithValue(Options, "web")
           [] w = "--l=web"             -> WithValue({"--log"}, "web")
           [] w = "--name=web"          -> WithValue({"--name"}, "web")
           [] w = "--n=abc"             -> WithValue({"--name"}, "abc")
           [] w = "--name=fifty"        -> WithValue({"--name"}, "fifty")
           [] w = "--name=long"         -> WithValue({"--name"}, "long")
           [] w = "--src=10.0.0.1"      -> WithValue({"--src"}, "10.0.0.1")
           [] w = "--dst=10.0.0.1"      -> WithValue({"--dst"}, "10.0.0.1")
           [] w = "--proto=6"           -> WithValue({"--proto"}, "6")
           [] w = "--proto=abc"         -> WithValue({"--proto"}, "abc")]

\* "fifty" and the address stand for texts that fill their fields, "web" for one that
\* would fill an address, and "long" for one of 160 characters.
MCNumber == [w \in DOMAIN MCShape |-> CASE w = "3" -> 3 [] w = "6" -> 6 [] w = "10.0.0.1" -> 10 [] OTHER -> 0]
MCSize   == [w \in DOMAIN MCShape |-> CASE w = "long" -> 160 [] w = "fifty" -> 50 [] w \in {"web", "10.0.0.1"} -> 15 [] OTHER -> 3]

Vocabulary ==
    {"add", "remove", "list", "dump", "load", "3", "abc", "--", "-h", "-hx", "--help", "--verbose",
     "--name", "--out", "--in", "--out=3", "--=web", "--l=web", "--name=web", "--n=abc"}

Orders == {<<1>> \o [k \in 1..5 |-> order[k] + 1] : order \in SetToSeqs(1..5)}

Additions ==
    {<<"add", p, n, m, "--src=10.0.0.1", "--dst=10.0.0.1">> :
        p \in {"--proto=6", "--proto=abc"}, n \in {"--name=web", "--name=fifty", "--name=long"},
        m \in {"--n=abc", "--black", "--verbose", "-h", "remove"}}

ShortLines == {SelectSeq(words, LAMBDA w : w # "") : words \in [1..3 -> Vocabulary \cup {""}]}

MCLines ==
    ShortLines
    \cup {[k \in 1..6 |-> words[order[k]]] : words \in Additions, order \in Orders}
    \cup {<<"add", "--name", w, "--src", "10.0.0.1", "--dst", "long", "--proto", v>> :
                    w \in {"remove", "--", "--help"}, v \in {"6", "abc"}}
=============================================================================
