---------------------------- MODULE CommandLine ----------------------------
(***************************************************************************)
(* The user mode tool (kernel_module/user_mode_tool): docopt.c turns the   *)
(* words of the command line into commands, options and an id, one word    *)
(* after the other; main.c picks one command, and sysfs_utils.c writes it  *)
(* to a file of the kernel module, if it is there.                         *)
(* A word is a value; what it looks like to strcmp, strncmp, strchr, atoi  *)
(* and strlen is told by Shape, Number and Size.                           *)
(***************************************************************************)
EXTENDS Integers, FiniteSets, SequencesExt

CONSTANTS
    Lines,      \* the command lines, without the name of the program
    Shape,      \* of each word: [kind, begins, letters, value], see below
    Number,     \* of each word: what atoi makes of it
    Size,       \* of each word: its length
    NoWord      \* NULL

\* kind    "--", "long" (--x), "short" (-x) or "word"
\* begins  the long options that begin with the word, a long one, as far as its
\*         "=", or that are the word, where it has none
\* letters the letters behind a single dash
\* value   what follows the "=", or NoWord
Words == DOMAIN Shape

\* docopt's tables.  The order is the one parse_long looks the options up in.
Commands == {"add", "dump", "list", "load", "remove"}
LongOptions == <<"--black", "--help", "--in", "--log", "--out", "--dst", "--name", "--proto", "--src">>
WithArgument == {"--dst", "--name", "--proto", "--src"}
Flags == {"--black", "--help", "--in", "--log", "--out"}

\* What strings are like.  No two options begin with the same letter, so that a
\* word begins one of them, or none, or, where nothing stands before its "=", all.
ASSUME CommandLineAssumption ==
    /\ Lines \subseteq Seq(Words) /\ {"firewall", "--help"} \subseteq Words /\ NoWord \notin Words
    /\ \A w \in Words :
        /\ Shape[w].kind \in {"--", "long", "short", "word"}
        /\ w \in Commands \cup {"firewall"} => Shape[w].kind = "word"
        /\ w \in Flags \cup WithArgument =>
            Shape[w].kind = "long" /\ Shape[w].begins = {w} /\ Shape[w].value = NoWord
        /\ Shape[w].value \in Words \cup {NoWord}
        /\ \/ Shape[w].begins = {}
           \/ Shape[w].kind = "long" /\ \E o \in Flags \cup WithArgument : Shape[w].begins = {o}
           \/ /\ Shape[w].kind = "long" /\ Shape[w].begins = Flags \cup WithArgument
              /\ Shape[w].value # NoWord
    /\ Number \in [Words -> Int] /\ Size \in [Words -> Nat]

VARIABLES
    line,       \* history: the command line
    argv,       \* the words docopt goes through: argv[0] is argv[1] here
    i,          \* the place of the current word
    given,      \* the flags whose value is true
    argument,   \* per option with an argument: the argument, or NoWord
    commands,   \* the commands whose value is true
    id,         \* the value of <id>, or NoWord
    outcome     \* how the program has ended: [what, code, rule]

parsed == <<given, argument, commands, id>>
vars   == <<line, argv, i, parsed, outcome>>

NoRule  == [name |-> NoWord]
Running == [what |-> "running", code |-> 0, rule |-> NoRule]
Ends(what, code) == [what |-> what, code |-> code, rule |-> NoRule]

\* Without any argument the tool goes on as if it had been given --help.
Init ==
    /\ line \in Lines
    /\ argv = <<"firewall">> \o (IF line = <<>> THEN <<"--help">> ELSE line)
    /\ i = 1
    /\ given = {} /\ argument = [o \in WithArgument |-> NoWord]
    /\ commands = {} /\ id = NoWord
    /\ outcome = Running

-----------------------------------------------------------------------------
(***************************************************************************)
(* parse_args.                                                             *)
(***************************************************************************)
Parsing == outcome = Running /\ i <= Len(argv)
Current  == argv[i]
Looks    == Shape[Current]
NextWord == IF i = Len(argv) THEN NoWord ELSE argv[i + 1]

Move(n) == i' = i + n /\ UNCHANGED <<line, argv, outcome>>
Fail    == outcome' = Ends("refused", 1) /\ UNCHANGED <<line, argv, i, parsed>>

\* parse_doubledash does nothing, and does not move on either.
DoubleDash == Parsing /\ Looks.kind = "--" /\ UNCHANGED vars

\* The first of the options that the word begins; a place behind them where it
\* begins none.
Found ==
    Min({Len(LongOptions) + 1} \cup {k \in DOMAIN LongOptions : LongOptions[k] \in Looks.begins})

Unknown == Parsing /\ Looks.kind = "long" /\ Found \notin DOMAIN LongOptions /\ Fail

Long(option) ==
    /\ Parsing /\ Looks.kind = "long"
    /\ Found \in DOMAIN LongOptions /\ LongOptions[Found] = option

\* Mutant: the option counts whether or not it has a value it must not have.
LongFlag_LAX(option) ==
    /\ Long(option) /\ option \in Flags
    /\ given' = given \cup {option} /\ Move(1)
    /\ UNCHANGED <<argument, commands, id>>

\* An option without an argument.
LongFlag(option) ==
    /\ Long(option) /\ option \in Flags
    /\ IF Looks.value = NoWord
       THEN given' = given \cup {option} /\ Move(1) /\ UNCHANGED <<argument, commands, id>>
       ELSE Fail

\* Mutant: the argument that is there first stays.
LongArgument_FIRST(option) ==
    /\ Long(option) /\ option \in WithArgument
    /\ LET value == IF Looks.value = NoWord THEN NextWord ELSE Looks.value
       IN  IF value = NoWord THEN Fail
           ELSE /\ argument' = [argument EXCEPT ![option] = IF @ = NoWord THEN value ELSE @]
                /\ Move(IF Looks.value = NoWord THEN 2 ELSE 1)
                /\ UNCHANGED <<given, commands, id>>

\* Mutant: nothing checks that there is a next word.
LongArgument_UNCHECKED(option) ==
    /\ Long(option) /\ option \in WithArgument
    /\ argument' = [argument EXCEPT ![option] = IF Looks.value = NoWord THEN NextWord ELSE Looks.value]
    /\ Move(IF Looks.value = NoWord THEN 2 ELSE 1)
    /\ UNCHANGED <<given, commands, id>>

\* An option with an argument: behind the "=", or else the next word, whatever
\* that looks like.
LongArgument(option) ==
    /\ Long(option) /\ option \in WithArgument
    /\ LET value == IF Looks.value = NoWord THEN NextWord ELSE Looks.value
       IN  IF value = NoWord THEN Fail
           ELSE /\ argument' = [argument EXCEPT ![option] = value]
                /\ Move(IF Looks.value = NoWord THEN 2 ELSE 1)
                /\ UNCHANGED <<given, commands, id>>

\* parse_shorts.  There is only -h, which takes no argument.
Shorts ==
    /\ Parsing /\ Looks.kind = "short"
    /\ IF Looks.letters \subseteq {"h"}
       THEN given' = given \cup {"--help"} /\ Move(1) /\ UNCHANGED <<argument, commands, id>>
       ELSE Fail

\* Mutant: the loop over the commands takes the word for a command and does not
\* move on.
Command_STAYS ==
    /\ Parsing /\ Looks.kind = "word" /\ Current \in Commands
    /\ commands' = commands \cup {Current}
    /\ UNCHANGED <<line, argv, i, given, argument, id, outcome>>

\* parse_argcmd: a command counts wherever it stands, and however many there are.
Command ==
    /\ Parsing /\ Looks.kind = "word" /\ Current \in Commands
    /\ commands' = commands \cup {Current}
    /\ Move(1)
    /\ UNCHANGED <<given, argument, id>>

\* Mutant: any word can be the id.
Word_ANYWHERE ==
    /\ Parsing /\ Looks.kind = "word" /\ Current \notin Commands
    /\ id' = IF i > 2 THEN Current ELSE id
    /\ Move(1)
    /\ UNCHANGED <<given, argument, commands>>

\* Any other word is skipped, the name of the program among them, unless it is
\* the second and the first is "remove".
Word ==
    /\ Parsing /\ Looks.kind = "word" /\ Current \notin Commands
    /\ id' = IF i = 3 /\ argv[2] = "remove" THEN Current ELSE id
    /\ Move(1)
    /\ UNCHANGED <<given, argument, commands>>

Parse ==
    \/ DoubleDash
    \/ Unknown
    \/ \E o \in Flags : LongFlag(o)
    \/ \E o \in WithArgument : LongArgument(o)
    \/ Shorts
    \/ Command \/ Word

-----------------------------------------------------------------------------
(***************************************************************************)
(* elems_to_args, main and sysfs_utils.c.                                  *)
(***************************************************************************)
End(ending) == outcome' = ending /\ UNCHANGED <<line, argv, i, parsed>>

Parsed == outcome = Running /\ i > Len(argv)

Help ==
    /\ Parsed /\ "--help" \in given
    /\ End(Ends("help", IF line = <<>> THEN 1 ELSE 0))

Chosen(command) == Parsed /\ "--help" \notin given /\ command \in commands

\* snprintf's result, for the text of a rule, and the buffer it is to fit in.
Digits(n) == Cardinality({d \in 1..9 : 10^d \in 0..n \/ -(10^d) \in n..0}) + (IF n < 0 THEN 2 ELSE 1)
TextSize(rule) ==
    89 + Size[rule.name] + Size[rule.src_ip] + Size[rule.dst_ip] + Digits(rule.protocol)
\* Mutant: half the buffer.
BufferSize_HALF == 128
BufferSize == 256

\* The file may not be there; the write may fail.  Where the text is longer than
\* the buffer, what lies behind the buffer is written as well.
AddRule ==
    /\ Chosen("add")
    /\ IF NoWord \in {argument[o] : o \in WithArgument} THEN End(Ends("missing arguments", 0))
       ELSE LET rule == [name |-> argument["--name"], src_ip |-> argument["--src"],
                         dst_ip |-> argument["--dst"], protocol |-> Number[argument["--proto"]],
                         flags |-> given]
            IN  \/ End(Ends("no file", 0))
                \/ End([what |-> IF TextSize(rule) > BufferSize THEN "overread" ELSE "added",
                        code |-> 0, rule |-> rule])

\* atoi reads through the NULL that stands for an id that was not given.
RemoveRule ==
    /\ Chosen("remove") /\ "add" \notin commands
    /\ IF id = NoWord THEN End(Ends("crash", 1))
       ELSE \/ End(Ends("no file", 0))
            \/ End([what |-> "removed", code |-> 0, rule |-> [id |-> Number[id]]])

ListRules ==
    /\ Chosen("list") /\ commands \cap {"add", "remove"} = {}
    /\ End(Ends("no file", 0)) \/ End(Ends("listed", 0))

Dump == Chosen("dump") /\ commands \cap {"add", "remove", "list"} = {} /\ End(Ends("dumping", 0))
Load == Chosen("load") /\ commands \cap {"add", "remove", "list", "dump"} = {} /\ End(Ends("loading", 0))
Idle == Parsed /\ "--help" \notin given /\ commands = {} /\ End(Ends("nothing", 0))

Main == Help \/ AddRule \/ RemoveRule \/ ListRules \/ Dump \/ Load \/ Idle

Next == Parse \/ Main

\* The program runs.
Spec == Init /\ [][Next]_vars /\ WF_vars(Next)

-----------------------------------------------------------------------------
Changes == {"added", "overread", "removed"}
Refused == {"refused", "crash"}
Whats == Changes \cup Refused \cup
    {"running", "help", "missing arguments", "no file", "listed", "dumping", "loading", "nothing"}

TypeOK ==
    /\ Len(argv) \in 2..(Len(line) + 2)
    /\ i \in 1..(Len(argv) + 1)
    /\ given \subseteq Flags /\ commands \subseteq Commands
    /\ DOMAIN argument = WithArgument /\ \A o \in WithArgument : argument[o] \in Words \cup {NoWord}
    /\ id = NoWord \/ id \in Range(argv)
    /\ outcome.what \in Whats /\ outcome.code \in {0, 1}

\* What the usage text of docopt.c calls for.
Plain(word)  == Shape[word].kind = "word" /\ word \notin Commands
Option(word) ==
    LET shape == Shape[word]
    IN  /\ Cardinality(shape.begins) = 1 /\ "--help" \notin shape.begins
        /\ shape.value # NoWord => shape.begins \subseteq WithArgument
WantsNext(word) == Option(word) /\ Shape[word].begins \subseteq WithArgument /\ Shape[word].value = NoWord
Proper(word)    == Option(word) /\ ~WantsNext(word)

Given(option) == {k \in 2..Len(line) : Shape[line[k]].begins = {option}}
LastGiven(option) == Shape[line[Max(Given(option))]].value

AddLine == line # <<>> /\ line[1] = "add" /\ \A k \in 2..Len(line) : Proper(line[k])

RuleOnLine ==
    [name |-> LastGiven("--name"), src_ip |-> LastGiven("--src"), dst_ip |-> LastGiven("--dst"),
     protocol |-> Number[LastGiven("--proto")], flags |-> {o \in Flags : Given(o) # {}}]

\* Texts that fit in name, src_ip and dst_ip of struct rule.
FitsFields(rule) == Size[rule.name] <= 50 /\ Size[rule.src_ip] <= 15 /\ Size[rule.dst_ip] <= 15

\* A command line that follows the usage text does what it says: "add" with its
\* options in any order adds just the rule they describe, where its texts fit in
\* struct rule (the last of several values for an option being the one that counts),
\* and "list", "--help" and "remove <id>" do their one thing - as long as what they
\* are given is no command's name, and with the number that atoi makes of an id.
\* "dump <file>" and "load <file>" are left out: all that the tool has for them is
\* a word that it prints, and no one ever reads a <file>.
UsageHonoured ==
    outcome # Running =>
        /\ AddLine => IF \E o \in WithArgument : Given(o) = {}
                      THEN outcome.what = "missing arguments"
                      ELSE FitsFields(RuleOnLine) =>
                            \/ outcome.what = "no file"
                            \/ outcome.what = "added" /\ outcome.rule = RuleOnLine
        /\ Len(line) = 2 /\ line[1] = "remove" /\ Plain(line[2]) =>
            \/ outcome.what = "no file"
            \/ outcome.what = "removed" /\ outcome.rule.id = Number[line[2]]
        /\ line = <<"list">> => outcome.what \in {"no file", "listed"}
        /\ line = <<"--help">> => outcome = Ends("help", 0)

\* However odd the line, the tool never removes a rule but the one whose id stands
\* right behind a leading "remove", and it reads through a missing id only on a
\* line without one.
RemovesTheIdGiven ==
    LET names == Len(line) >= 2 /\ line[1] = "remove" /\ Plain(line[2])
    IN  /\ outcome.what = "removed" => names /\ outcome.rule.id = Number[line[2]]
        /\ outcome.what = "crash" => ~names

\* A line with an option on it that the tool does not know, one with a value that it
\* must not have, or a call for help changes no rule, wherever on the line that is
\* and whatever else stands there; what another option takes for its value does not
\* count.  Of words without a dash nothing is said: the parser skips those it does
\* not know, so that "remove 3 abc" removes rule 3.
DoubtfulOptionChangesNothing ==
    outcome.what \in Changes =>
        \A k \in DOMAIN line :
            \/ Shape[line[k]].kind = "word" \/ Option(line[k])
            \/ k > 1 /\ WantsNext(line[k - 1])

\* The text of a rule that fits in struct rule fits in the buffer: the tool writes
\* it as it is, and nothing with it.
OverreadOnlyBeyondFields == outcome.what = "overread" => ~FitsFields(outcome.rule)

\* The tool comes to an end, unless it meets "--" where an option or a command may
\* stand: there it stays for ever.
ParseEnds == <>(outcome # Running \/ (Parsing /\ Looks.kind = "--"))
=============================================================================
