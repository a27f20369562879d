-------------------------- MODULE CommandLineProofs --------------------------
(***************************************************************************)
(* Proofs about CommandLine: what the user mode tool makes of a command    *)
(* line, for lines of any words and any length.                            *)
(***************************************************************************)
EXTENDS CommandLine, SequenceFacts

-----------------------------------------------------------------------------
(***************************************************************************)
(* The inductive invariant.                                                *)
(***************************************************************************)
EveryOption == Flags \cup WithArgument

Shapes ==
    /\ line \in Seq(Words) /\ argv = <<"firewall">> \o (IF line = <<>> THEN <<"--help">> ELSE line)
    /\ i \in 1..Len(argv) + 1
    /\ given \subseteq Flags /\ commands \subseteq Commands
    /\ argument \in [WithArgument -> Words \cup {NoWord}]
    /\ outcome.what \in Whats /\ outcome.code \in {0, 1}

\* The parser has passed the place of the id.
IdOK == id = IF i > 3 /\ argv[2] = "remove" /\ Plain(argv[3]) THEN argv[3] ELSE NoWord

\* Whatever the parser has passed, the usage text knows, or help was asked for.
PassedOK(to, help) ==
    \A k \in 2..Len(argv) : k < to =>
        \/ Shape[argv[k]].kind = "word" \/ Option(argv[k])
        \/ k > 2 /\ WantsNext(argv[k - 1])
        \/ help

\* A command, and behind it nothing but plain words and options with all that is
\* theirs.
Usage ==
    /\ line # <<>> /\ line[1] \in Commands
    /\ \A k \in 2..Len(line) : Plain(line[k]) \/ Proper(line[k])

\* The value of an option is that at the last place that the parser has passed.
LatestOK(o, to, value) ==
    \/ value = NoWord /\ \A k \in Given(o) : k + 1 >= to
    \/ \E k \in Given(o) :
        /\ k + 1 < to /\ value = Shape[line[k]].value
        /\ \A j \in Given(o) : j + 1 < to => j <= k

UsageOK ==
    /\ commands = (IF i > 2 THEN {line[1]} ELSE {})
    /\ given = {o \in Flags : \E k \in Given(o) : k + 1 < i}
    /\ \A o \in WithArgument : LatestOK(o, i, argument[o])

HelpOK == i > 2 => "--help" \in given

ParsedOK ==
    /\ IdOK /\ PassedOK(i, "--help" \in given)
    /\ (Usage => UsageOK) /\ (line = <<"--help">> => HelpOK)

\* What the runs check of the outcome.
ResultOK == RemovesTheIdGiven /\ DoubtfulOptionChangesNothing /\ OverreadOnlyBeyondFields /\ UsageHonoured

IInv == Shapes /\ ParsedOK /\ ResultOK

-----------------------------------------------------------------------------
(***************************************************************************)
(* Words and options.                                                      *)
(***************************************************************************)
\* Min of natural numbers is one of them and not above any.
LEMMA MinMember ==
    ASSUME NEW T \in SUBSET Nat, T # {}
    PROVE  Min(T) \in T /\ \A y \in T : Min(T) <= y
<1>1. \E x \in T : \A y \in T : x <= y
  BY LeastMember
<1> QED  BY <1>1 DEF Min

\* What is known of the shape of a word.
LEMMA WordFacts ==
    ASSUME NEW w \in Words
    PROVE  /\ Shape[w].kind \in {"--", "long", "short", "word"}
           /\ w \in Commands \cup {"firewall"} => Shape[w].kind = "word"
           /\ w \in EveryOption => Shape[w].kind = "long" /\ Shape[w].begins = {w} /\ Shape[w].value = NoWord
           /\ Shape[w].value \in Words \cup {NoWord}
           /\ \/ Shape[w].begins = {}
              \/ Shape[w].kind = "long" /\ \E o \in EveryOption : Shape[w].begins = {o}
              \/ /\ Shape[w].kind = "long" /\ Shape[w].begins = EveryOption
                 /\ Shape[w].value # NoWord
BY CommandLineAssumption DEF EveryOption

\* Which words are options of the usage text.
LEMMA OptionFacts ==
    ASSUME NEW w \in Words
    PROVE  /\ Option(w) => Shape[w].kind = "long" /\ \E o \in EveryOption :
                            /\ Shape[w].begins = {o} /\ o # "--help"
                            /\ Shape[w].value # NoWord => o \in WithArgument
           /\ \A o : /\ Shape[w].begins = {o} /\ o # "--help"
                     /\ Shape[w].value # NoWord => o \in WithArgument
                     => Option(w)
<1>1. ASSUME Option(w)
      PROVE  Shape[w].kind = "long" /\ \E o \in EveryOption :
                /\ Shape[w].begins = {o} /\ o # "--help"
                /\ Shape[w].value # NoWord => o \in WithArgument
  <2>1. /\ Cardinality(Shape[w].begins) = 1 /\ "--help" \notin Shape[w].begins
        /\ Shape[w].value # NoWord => Shape[w].begins \subseteq WithArgument
    BY <1>1 DEF Option
  <2>2. Shape[w].begins # {}
    BY <2>1, FS_EmptySet
  <2>3. Shape[w].begins # EveryOption
    BY <2>1 DEF EveryOption, Flags
  <2> QED  BY <2>1, <2>2, <2>3, WordFacts
<1>2. ASSUME NEW o, Shape[w].begins = {o}, o # "--help", Shape[w].value # NoWord => o \in WithArgument
      PROVE  Option(w)
  <2>1. Cardinality({o}) = 1
    BY FS_Singleton
  <2> QED  BY <1>2, <2>1 DEF Option
<1> QED  BY <1>1, <1>2

\* What a word needs to be there is told by the option that it is.
LEMMA WantsNextFacts ==
    ASSUME NEW w \in Words, NEW o \in WithArgument, Shape[w].begins = {o}
    PROVE  Option(w) /\ (Shape[w].value = NoWord <=> WantsNext(w))
<1>1. o # "--help"
  BY DEF WithArgument
<1>2. Option(w)
  BY <1>1, OptionFacts
<1> QED  BY <1>2 DEF WantsNext

\* The words that the parser goes through.
LEMMA LineFacts ==
    ASSUME Shapes
    PROVE  /\ line \in Seq(Words) /\ Len(line) \in Nat /\ DOMAIN line = 1..Len(line)
           /\ argv \in Seq(Words) /\ Len(argv) \in Nat /\ i \in Nat
           /\ Len(argv) = (IF line = <<>> THEN 2 ELSE Len(line) + 1)
           /\ argv[1] = "firewall"
           /\ line = <<>> => argv[2] = "--help"
           /\ line # <<>> => Len(line) > 0
           /\ \A k \in 1..Len(line) : argv[k + 1] = line[k] /\ line[k] \in Words
           /\ \A k \in 1..Len(argv) : argv[k] \in Words
<1> DEFINE rest == IF line = <<>> THEN <<"--help">> ELSE line
           s == <<"firewall">>
<1>1. "firewall" \in Words /\ "--help" \in Words
  BY CommandLineAssumption
<1>2. line \in Seq(Words) /\ Len(line) \in Nat /\ DOMAIN line = 1..Len(line) /\ (line # <<>> => Len(line) > 0)
  BY LenProperties, EmptySeq DEF Shapes
<1>3. s \in Seq(Words) /\ Len(s) = 1 /\ s[1] = "firewall"
  BY <1>1
<1>4. rest \in Seq(Words) /\ Len(rest) = (IF line = <<>> THEN 1 ELSE Len(line)) /\ (line = <<>> => rest[1] = "--help")
  BY <1>1, <1>2
<1>5. line # <<>> => rest = line
  OBVIOUS
<1>6. argv = s \o rest
  BY DEF Shapes
<1>7. line = <<>> => Len(line) = 0
  OBVIOUS
<1> HIDE DEF rest, s
<1>8. /\ argv \in Seq(Words) /\ Len(argv) = 1 + Len(rest)
      /\ \A k \in 1..1 + Len(rest) : argv[k] = IF k <= 1 THEN s[k] ELSE rest[k - 1]
  <2>1. /\ s \o rest \in Seq(Words) /\ Len(s \o rest) = Len(s) + Len(rest)
        /\ \A k \in 1..Len(s) + Len(rest) : (s \o rest)[k] = IF k <= Len(s) THEN s[k] ELSE rest[k - Len(s)]
    <3>1. s \in Seq(Words) /\ rest \in Seq(Words)
      BY <1>3, <1>4
    <3> QED  BY <3>1, ConcatProperties
  <2> QED  BY <1>3, <1>6, <2>1
<1>9. Len(rest) \in Nat /\ Len(rest) >= 1
  BY <1>2, <1>4
<1>10. Len(argv) = (IF line = <<>> THEN 2 ELSE Len(line) + 1) /\ Len(argv) \in Nat /\ i \in Nat
  BY <1>2, <1>4, <1>8 DEF Shapes
<1>11. argv[1] = "firewall" /\ argv[2] = rest[1]
  BY <1>3, <1>8, <1>9
<1>12. ASSUME NEW k \in 1..Len(line) PROVE argv[k + 1] = line[k] /\ line[k] \in Words
  <2>1. line # <<>>
    BY <1>7, <1>12
  <2>2. k + 1 \in 1..1 + Len(rest) /\ ~(k + 1 <= 1) /\ k + 1 - 1 = k
    BY <1>2, <1>4, <2>1
  <2> QED  BY <1>2, <1>5, <1>8, <2>1, <2>2
<1>13. \A k \in 1..Len(argv) : argv[k] \in Words
  BY <1>8
<1> QED  BY <1>2, <1>4, <1>8, <1>10, <1>11, <1>12, <1>13

\* A long word that is taken for an option is that option alone, or has nothing
\* before its "=" and is taken for the first one; one that is taken for none is none.
LEMMA LongFacts ==
    ASSUME Shapes, Parsing, Looks.kind = "long"
    PROVE  /\ \A o : Long(o) =>
                o \in EveryOption /\ (Looks.begins = {o} \/ (o = "--black" /\ Looks.value # NoWord))
           /\ \A o \in EveryOption : Looks.begins = {o} => Found \in DOMAIN LongOptions /\ Long(o)
<1> DEFINE Places == {Len(LongOptions) + 1} \cup {k \in DOMAIN LongOptions : LongOptions[k] \in Looks.begins}
<1>1. Len(LongOptions) = 9 /\ DOMAIN LongOptions = 1..9
  BY DEF LongOptions
<1>2. Places \in SUBSET Nat /\ 10 \in Places
  BY <1>1
<1>3. Found \in Places /\ \A y \in Places : Found <= y
  BY <1>2, MinMember DEF Found
<1>4. Current \in Words
  BY LineFacts DEF Current, Parsing, Shapes
<1>5. ASSUME NEW o, Long(o)
      PROVE  o \in EveryOption /\ (Looks.begins = {o} \/ (o = "--black" /\ Looks.value # NoWord))
  <2>1. Found \in DOMAIN LongOptions /\ LongOptions[Found] = o
    BY <1>5 DEF Long
  <2>2. o \in Looks.begins
    BY <1>1, <1>3, <2>1
  <2>3. CASE \E c \in EveryOption : Looks.begins = {c}
    BY <2>2, <2>3
  <2>4. CASE Looks.begins = EveryOption /\ Looks.value # NoWord
    <3>1. LongOptions[1] = "--black" /\ "--black" \in EveryOption
      BY DEF LongOptions, EveryOption, Flags
    <3>2. 1 \in Places
      BY <1>1, <2>4, <3>1
    <3>3. Found = 1
      <4>1. Found \in 1..9 /\ Found <= 1
        BY <1>1, <1>3, <2>1, <3>2
      <4> QED  BY <4>1
    <3> QED  BY <2>1, <2>4, <3>1, <3>3
  <2> QED  BY <1>4, <2>2, <2>3, <2>4, WordFacts DEF Looks
<1>6. ASSUME NEW o \in EveryOption, Looks.begins = {o}
      PROVE  Found \in DOMAIN LongOptions /\ Long(o)
  <2>1. \E k \in 1..9 : LongOptions[k] = o
    <3>1. /\ LongOptions[1] = "--black" /\ LongOptions[2] = "--help" /\ LongOptions[3] = "--in"
          /\ LongOptions[4] = "--log" /\ LongOptions[5] = "--out" /\ LongOptions[6] = "--dst"
          /\ LongOptions[7] = "--name" /\ LongOptions[8] = "--proto" /\ LongOptions[9] = "--src"
      BY DEF LongOptions
    <3> QED  BY <1>6, <3>1 DEF EveryOption, Flags, WithArgument
  <2>2. PICK k \in 1..9 : LongOptions[k] = o
    BY <2>1
  <2>3. k \in Places
    BY <1>1, <1>6, <2>2
  <2>4. Found <= k /\ Found \in 1..10
    BY <1>1, <1>3, <2>3
  <2>5. Found \in 1..9
    BY <2>4
  <2>6. LongOptions[Found] = o
    BY <1>1, <1>3, <1>6, <2>5
  <2> QED  BY <1>1, <2>5, <2>6 DEF Long
<1>7. \A o : Long(o) => o \in EveryOption /\ (Looks.begins = {o} \/ (o = "--black" /\ Looks.value # NoWord))
  BY <1>5
<1>8. \A o \in EveryOption : Looks.begins = {o} => Found \in DOMAIN LongOptions /\ Long(o)
  BY <1>6
<1> QED  BY <1>7, <1>8

-----------------------------------------------------------------------------
(***************************************************************************)
(* Steps and shapes.                                                       *)
(***************************************************************************)
\* The step of an option with an argument, its two ways side by side.
LEMMA ArgumentStep ==
    ASSUME Shapes, NEW o \in WithArgument, LongArgument(o)
    PROVE  \/ Fail
           \/ /\ Looks.begins = {o} /\ UNCHANGED <<line, argv, outcome, given, commands, id>>
              /\ \/ Looks.value # NoWord /\ i' = i + 1 /\ argument' = [argument EXCEPT ![o] = Looks.value]
                 \/ /\ Looks.value = NoWord /\ i' = i + 2 /\ i < Len(argv)
                    /\ argument' = [argument EXCEPT ![o] = argv[i + 1]]
<1>1. Parsing /\ Looks.kind = "long" /\ Long(o)
  BY DEF LongArgument, Long
<1>2. o # "--black"
  BY DEF WithArgument
<1>3. Looks.begins = {o}
  BY <1>1, <1>2, LongFacts
<1>4. i \in Nat /\ Len(argv) \in Nat /\ i <= Len(argv)
  BY <1>1, LineFacts DEF Parsing
<1>5. CASE Looks.value # NoWord
  BY <1>3, <1>5 DEF LongArgument, Move
<1>6. CASE Looks.value = NoWord /\ NextWord = NoWord
  BY <1>6 DEF LongArgument
<1>7. CASE Looks.value = NoWord /\ NextWord # NoWord
  <2>1. i # Len(argv) /\ NextWord = argv[i + 1]
    BY <1>7 DEF NextWord
  <2>2. /\ i' = i + 2 /\ argument' = [argument EXCEPT ![o] = argv[i + 1]]
        /\ UNCHANGED <<line, argv, outcome, given, commands, id>>
    BY <1>7, <2>1 DEF LongArgument, Move
  <2> QED  BY <1>3, <1>4, <1>7, <2>1, <2>2
<1> QED  BY <1>5, <1>6, <1>7

\* What a flag does.
LEMMA FlagStep ==
    ASSUME Shapes, NEW o \in Flags, LongFlag(o)
    PROVE  \/ Fail
           \/ /\ Looks.begins = {o} /\ Looks.value = NoWord /\ i' = i + 1 /\ given' = given \cup {o}
              /\ UNCHANGED <<line, argv, outcome, argument, commands, id>>
<1>1. Parsing /\ Looks.kind = "long" /\ Long(o)
  BY DEF LongFlag, Long
<1>2. Looks.begins = {o} \/ Looks.value # NoWord
  BY <1>1, LongFacts
<1> QED  BY <1>2 DEF LongFlag, Move

\* The parser's steps keep to words, options and commands.
LEMMA ParseShapes ==
    ASSUME Shapes, Parse
    PROVE  Shapes'
<1>1. /\ argv \in Seq(Words) /\ i \in Nat /\ Len(argv) \in Nat
      /\ \A k \in 1..Len(argv) : argv[k] \in Words
  BY LineFacts
<1>2. Parsing => Current \in Words /\ i <= Len(argv) /\ i \in 1..Len(argv) + 1
  BY <1>1 DEF Parsing, Current, Shapes
<1>3. CASE DoubleDash
  BY <1>3 DEF DoubleDash, Shapes, vars, parsed
<1>4. ASSUME Fail PROVE Shapes'
  BY <1>4 DEF Fail, Shapes, parsed, Ends, Whats, Refused
<1>5. CASE Unknown
  BY <1>4, <1>5 DEF Unknown
<1>6. ASSUME NEW o \in Flags, LongFlag(o) PROVE Shapes'
  <2>1. Parsing
    BY <1>6 DEF LongFlag, Long
  <2>2. CASE i' = i + 1 /\ given' = given \cup {o} /\ UNCHANGED <<line, argv, outcome, argument, commands, id>>
    <3>1. i' \in 1..Len(argv) + 1
      BY <1>1, <1>2, <2>1, <2>2
    <3> QED  BY <2>2, <3>1 DEF Shapes
  <2> QED  BY <1>4, <1>6, <2>2, FlagStep
<1>7. ASSUME NEW o \in WithArgument, LongArgument(o) PROVE Shapes'
  <2>1. Parsing
    BY <1>7 DEF LongArgument, Long
  <2>2. Looks.value \in Words \cup {NoWord}
    BY <1>2, <2>1, WordFacts DEF Looks
  <2>3. ASSUME NEW value \in Words \cup {NoWord}, argument' = [argument EXCEPT ![o] = value],
               i' \in 1..Len(argv) + 1, UNCHANGED <<line, argv, outcome, given, commands, id>>
        PROVE  Shapes'
    BY <2>3 DEF Shapes
  <2>4. CASE i' = i + 1 /\ argument' = [argument EXCEPT ![o] = Looks.value]
             /\ UNCHANGED <<line, argv, outcome, given, commands, id>>
    <3>1. i' \in 1..Len(argv) + 1
      BY <1>1, <1>2, <2>1, <2>4
    <3> QED  BY <2>2, <2>3, <2>4, <3>1
  <2>5. CASE i' = i + 2 /\ i < Len(argv) /\ argument' = [argument EXCEPT ![o] = argv[i + 1]]
             /\ UNCHANGED <<line, argv, outcome, given, commands, id>>
    <3>1. i' \in 1..Len(argv) + 1 /\ i + 1 \in 1..Len(argv)
      BY <1>1, <1>2, <2>1, <2>5
    <3> QED  BY <1>1, <2>3, <2>5, <3>1
  <2> QED  BY <1>4, <1>7, <2>4, <2>5, ArgumentStep
<1>8. ASSUME Parsing, Move(1), UNCHANGED argument, given' \subseteq Flags, commands' \subseteq Commands
      PROVE  Shapes'
  <2>1. i' \in 1..Len(argv) + 1
    BY <1>1, <1>2, <1>8 DEF Move
  <2> QED  BY <1>8, <2>1 DEF Shapes, Move
<1>9. given \subseteq Flags /\ commands \subseteq Commands /\ "--help" \in Flags
  BY DEF Shapes, Flags
<1>10. CASE Shorts
  BY <1>4, <1>8, <1>9, <1>10 DEF Shorts
<1>11. CASE Command
  BY <1>8, <1>9, <1>11 DEF Command
<1>12. CASE Word
  BY <1>8, <1>9, <1>12 DEF Word
<1> QED  BY <1>3, <1>5, <1>6, <1>7, <1>10, <1>11, <1>12 DEF Parse

\* The commands leave alone what was parsed and end the program.
LEMMA MainShapes ==
    ASSUME Shapes, Main
    PROVE  Shapes' /\ outcome = Running /\ UNCHANGED <<line, argv, i, parsed>>
<1>1. ASSUME NEW ending, End(ending), ending.what \in Whats, ending.code \in {0, 1}, outcome = Running
      PROVE  Shapes' /\ outcome = Running /\ UNCHANGED <<line, argv, i, parsed>>
  BY <1>1 DEF End, Shapes, parsed
<1>2. ASSUME NEW what \in Whats, NEW code \in {0, 1}
      PROVE  Ends(what, code).what \in Whats /\ Ends(what, code).code \in {0, 1}
  BY <1>2 DEF Ends
<1>3. {"help", "missing arguments", "no file", "crash", "listed", "dumping", "loading", "nothing"} \subseteq Whats
  BY DEF Whats, Refused
<1>4. CASE Help
  BY <1>1, <1>2, <1>3, <1>4 DEF Help, Parsed
<1>5. CASE AddRule
  <2>1. outcome = Running
    BY <1>5 DEF AddRule, Chosen, Parsed
  <2>2. CASE End(Ends("missing arguments", 0)) \/ End(Ends("no file", 0))
    BY <1>1, <1>2, <1>3, <2>1, <2>2
  <2>3. ASSUME NEW rule, End([what |-> IF TextSize(rule) > BufferSize THEN "overread" ELSE "added",
                              code |-> 0, rule |-> rule])
        PROVE  Shapes' /\ outcome = Running /\ UNCHANGED <<line, argv, i, parsed>>
    <3> DEFINE ending == [what |-> IF TextSize(rule) > BufferSize THEN "overread" ELSE "added",
                          code |-> 0, rule |-> rule]
    <3>1. ending.what \in Whats /\ ending.code \in {0, 1}
      BY DEF Whats, Changes
    <3> HIDE DEF ending
    <3>2. End(ending)
      BY <2>3 DEF ending
    <3> QED  BY <1>1, <2>1, <3>1, <3>2
  <2> QED  BY <1>5, <2>2, <2>3 DEF AddRule
<1>6. CASE RemoveRule
  <2>1. outcome = Running
    BY <1>6 DEF RemoveRule, Chosen, Parsed
  <2>2. CASE End(Ends("crash", 1)) \/ End(Ends("no file", 0))
    BY <1>1, <1>2, <1>3, <2>1, <2>2
  <2>3. CASE End([what |-> "removed", code |-> 0, rule |-> [id |-> Number[id]]])
    <3> DEFINE ending == [what |-> "removed", code |-> 0, rule |-> [id |-> Number[id]]]
    <3>1. ending.what \in Whats /\ ending.code \in {0, 1}
      BY DEF Whats, Changes
    <3> HIDE DEF ending
    <3>2. End(ending)
      BY <2>3 DEF ending
    <3> QED  BY <1>1, <2>1, <3>1, <3>2
  <2> QED  BY <1>6, <2>2, <2>3 DEF RemoveRule
<1>7. CASE ListRules
  BY <1>1, <1>2, <1>3, <1>7 DEF ListRules, Chosen, Parsed
<1>8. CASE Dump \/ Load \/ Idle
  BY <1>1, <1>2, <1>3, <1>8 DEF Dump, Load, Idle, Chosen, Parsed
<1> QED  BY <1>4, <1>5, <1>6, <1>7, <1>8 DEF Main

\* The types of the model.
LEMMA ShapesTypes == Shapes /\ IdOK => TypeOK
<1> SUFFICES ASSUME Shapes, IdOK PROVE TypeOK
  OBVIOUS
<1>1. /\ Len(line) \in Nat /\ Len(argv) \in Nat /\ i \in Nat /\ argv \in Seq(Words)
      /\ Len(argv) = (IF line = <<>> THEN 2 ELSE Len(line) + 1) /\ (line # <<>> => Len(line) > 0)
  BY LineFacts
<1>2. Len(argv) \in 2..(Len(line) + 2)
  BY <1>1
<1>3. id = NoWord \/ id \in Range(argv)
  <2>1. CASE i > 3 /\ id = argv[3]
    <3>1. 3 \in DOMAIN argv
      BY <1>1, <2>1, LenProperties DEF Shapes
    <3> QED  BY <2>1, <3>1 DEF Range
  <2> QED  BY <2>1 DEF IdOK
<1>4. /\ i \in 1..(Len(argv) + 1) /\ given \subseteq Flags /\ commands \subseteq Commands
      /\ DOMAIN argument = WithArgument /\ \A o \in WithArgument : argument[o] \in Words \cup {NoWord}
      /\ outcome.what \in Whats /\ outcome.code \in {0, 1}
  BY DEF Shapes
<1> QED  BY <1>2, <1>3, <1>4 DEF TypeOK

-----------------------------------------------------------------------------
(***************************************************************************)
(* What the parser has found when it has come to a place.                  *)
(***************************************************************************)
\* The id is the word behind a leading "remove", and no other.
LEMMA IdStep ==
    ASSUME Shapes, IdOK, Parse
    PROVE  IdOK'
<1>1. i \in Nat /\ \A k \in 1..Len(argv) : argv[k] \in Words
  BY LineFacts
<1>2. ASSUME UNCHANGED <<argv, i, id>> PROVE IdOK'
  BY <1>2 DEF IdOK
<1>3. ASSUME Fail PROVE IdOK'
  BY <1>2, <1>3 DEF Fail, parsed
<1>4. ASSUME ~Plain(argv[i]), i' = i + 1, UNCHANGED <<argv, id>> PROVE IdOK'
  <2>1. CASE i = 3
    <3>1. id = NoWord /\ ~Plain(argv[3])
      BY <1>4, <2>1 DEF IdOK
    <3> QED  BY <1>4, <3>1 DEF IdOK
  <2>2. CASE i # 3
    <3>1. i' > 3 <=> i > 3
      BY <1>1, <1>4, <2>2
    <3> QED  BY <1>4, <3>1 DEF IdOK
  <2> QED  BY <2>1, <2>2
<1>5. ASSUME Parsing, Looks.kind # "word" PROVE ~Plain(argv[i]) /\ argv[i] \in Words /\ argv[i] # "remove" /\ i # 1
  <2>1. argv[i] \in Words /\ Shape[argv[i]].kind # "word"
    BY <1>1, <1>5 DEF Parsing, Looks, Current, Shapes
  <2>2. argv[i] \notin Commands \cup {"firewall"}
    BY <2>1, WordFacts
  <2> QED  BY <2>1, <2>2, LineFacts DEF Plain, Commands
<1>6. CASE DoubleDash
  BY <1>2, <1>6 DEF DoubleDash, vars, parsed
<1>7. CASE Unknown
  BY <1>3, <1>7 DEF Unknown
<1>8. ASSUME NEW o \in Flags, LongFlag(o) PROVE IdOK'
  <2>1. Parsing /\ Looks.kind = "long"
    BY <1>8 DEF LongFlag, Long
  <2> QED  BY <1>3, <1>4, <1>5, <1>8, <2>1, FlagStep
<1>9. ASSUME NEW o \in WithArgument, LongArgument(o) PROVE IdOK'
  <2>1. Parsing /\ Looks.kind = "long"
    BY <1>9 DEF LongArgument, Long
  <2>2. ~Plain(argv[i]) /\ argv[i] # "remove" /\ i # 1
    BY <1>5, <2>1
  <2>3. CASE i' = i + 2 /\ UNCHANGED <<argv, id>>
    <3>1. CASE i > 3
      <4>1. i' > 3
        BY <1>1, <2>3, <3>1
      <4> QED  BY <2>3, <3>1, <4>1 DEF IdOK
    <3>2. CASE i = 2
      <4>1. id = NoWord
        BY <3>2 DEF IdOK
      <4> QED  BY <2>2, <2>3, <3>2, <4>1 DEF IdOK
    <3>3. CASE i = 3
      <4>1. id = NoWord
        BY <3>3 DEF IdOK
      <4> QED  BY <2>2, <2>3, <3>3, <4>1 DEF IdOK
    <3>4. i > 3 \/ i = 2 \/ i = 3
      BY <1>1, <2>2 DEF Shapes
    <3> QED  BY <3>1, <3>2, <3>3, <3>4
  <2> QED  BY <1>3, <1>4, <1>9, <2>2, <2>3, ArgumentStep
<1>10. CASE Shorts
  <2>1. Parsing /\ Looks.kind # "word"
    BY <1>10 DEF Shorts
  <2>2. Fail \/ (i' = i + 1 /\ UNCHANGED <<argv, id>>)
    BY <1>10 DEF Shorts, Move
  <2> QED  BY <1>3, <1>4, <1>5, <2>1, <2>2
<1>11. CASE Command
  <2>1. ~Plain(argv[i]) /\ i' = i + 1 /\ UNCHANGED <<argv, id>>
    BY <1>11 DEF Command, Plain, Current, Move
  <2> QED  BY <1>4, <2>1
<1>12. CASE Word
  <2>1. /\ Plain(argv[i]) /\ i' = i + 1 /\ argv' = argv
        /\ id' = IF i = 3 /\ argv[2] = "remove" THEN argv[i] ELSE id
    BY <1>12 DEF Word, Plain, Looks, Current, Move
  <2>2. CASE i = 3
    <3>1. id = NoWord /\ i' > 3
      BY <2>1, <2>2 DEF IdOK
    <3> QED  BY <2>1, <2>2, <3>1 DEF IdOK
  <2>3. CASE i # 3
    <3>1. i' > 3 <=> i > 3
      BY <1>1, <2>1, <2>3
    <3> QED  BY <2>1, <2>3, <3>1 DEF IdOK
  <2> QED  BY <2>2, <2>3
<1> QED  BY <1>6, <1>7, <1>8, <1>9, <1>10, <1>11, <1>12 DEF Parse

\* A word that the parser passes without refusing is one of the usage text, or
\* makes it show the help.
LEMMA PassedStep ==
    ASSUME Shapes, PassedOK(i, "--help" \in given), Parse
    PROVE  PassedOK(i, "--help" \in given)'
<1> DEFINE Known(k, help) ==
        \/ Shape[argv[k]].kind = "word" \/ Option(argv[k])
        \/ k > 2 /\ WantsNext(argv[k - 1])
        \/ help
<1>1. i \in Nat /\ Len(argv) \in Nat /\ \A k \in 1..Len(argv) : argv[k] \in Words
  BY LineFacts
<1>2. \A k \in 2..Len(argv) : k < i => Known(k, "--help" \in given)
  BY DEF PassedOK
<1>3. ASSUME UNCHANGED argv, given \subseteq given', i' \in Int,
             \A k \in 2..Len(argv) : k < i' => k < i \/ Known(k, "--help" \in given')
      PROVE  PassedOK(i, "--help" \in given)'
  <2>1. \A k \in 2..Len(argv) : k < i' => Known(k, "--help" \in given')
    BY <1>2, <1>3
  <2> QED  BY <1>3, <2>1 DEF PassedOK
<1>4. ASSUME UNCHANGED <<argv, i, given>> PROVE PassedOK(i, "--help" \in given)'
  BY <1>4 DEF PassedOK
<1>5. ASSUME Fail PROVE PassedOK(i, "--help" \in given)'
  BY <1>4, <1>5 DEF Fail, parsed
<1>6. ASSUME UNCHANGED argv, given \subseteq given', i' = i + 1, Known(i, "--help" \in given')
      PROVE  PassedOK(i, "--help" \in given)'
  <2>1. \A k \in 2..Len(argv) : k < i' => k < i \/ k = i
    BY <1>1, <1>6
  <2> HIDE DEF Known
  <2>2. \A k \in 2..Len(argv) : k < i' => k < i \/ Known(k, "--help" \in given')
    BY <1>6, <2>1
  <2> QED  BY <1>1, <1>3, <1>6, <2>2
<1>7. Parsing => argv[i] \in Words /\ Looks = Shape[argv[i]]
  BY <1>1 DEF Parsing, Looks, Current, Shapes
<1>8. CASE DoubleDash
  BY <1>4, <1>8 DEF DoubleDash, vars, parsed
<1>9. CASE Unknown
  BY <1>5, <1>9 DEF Unknown
<1>10. ASSUME NEW o \in Flags, LongFlag(o) PROVE PassedOK(i, "--help" \in given)'
  <2>1. Parsing
    BY <1>10 DEF LongFlag, Long
  <2>2. CASE Looks.begins = {o} /\ Looks.value = NoWord /\ i' = i + 1 /\ given' = given \cup {o} /\ UNCHANGED argv
    <3>1. Option(argv[i]) \/ o = "--help"
      BY <1>7, <2>1, <2>2, OptionFacts
    <3> QED  BY <1>6, <2>2, <3>1
  <2> QED  BY <1>5, <1>10, <2>2, FlagStep
<1>11. ASSUME NEW o \in WithArgument, LongArgument(o) PROVE PassedOK(i, "--help" \in given)'
  <2>1. Parsing /\ Looks.kind = "long"
    BY <1>11 DEF LongArgument, Long
  <2>2. CASE Looks.begins = {o} /\ i' = i + 1 /\ UNCHANGED <<argv, given>>
    <3>1. Option(argv[i])
      BY <1>7, <2>1, <2>2, WantsNextFacts
    <3> QED  BY <1>6, <2>2, <3>1
  <2>3. CASE Looks.begins = {o} /\ Looks.value = NoWord /\ i' = i + 2 /\ UNCHANGED <<argv, given>>
    <3>1. Option(argv[i]) /\ WantsNext(argv[i])
      BY <1>7, <2>1, <2>3, WantsNextFacts
    <3>2. i # 1
      BY <1>7, <2>1, LineFacts, WordFacts
    <3>3. Known(i, "--help" \in given')
      BY <3>1
    <3>4. i + 1 > 2 /\ argv[(i + 1) - 1] = argv[i]
      BY <1>1, <3>2 DEF Shapes
    <3>5. Known(i + 1, "--help" \in given')
      BY <3>1, <3>4
    <3>6. \A k \in 2..Len(argv) : k < i' => k < i \/ k = i \/ k = i + 1
      BY <1>1, <2>3
    <3> HIDE DEF Known
    <3>7. \A k \in 2..Len(argv) : k < i' => k < i \/ Known(k, "--help" \in given')
      BY <3>3, <3>5, <3>6
    <3> QED  BY <1>1, <1>3, <2>3, <3>7
  <2> QED  BY <1>5, <1>11, <2>2, <2>3, ArgumentStep
<1>12. CASE Shorts
  <2>1. Fail \/ (i' = i + 1 /\ UNCHANGED argv /\ given' = given \cup {"--help"})
    BY <1>12 DEF Shorts, Move
  <2> QED  BY <1>5, <1>6, <2>1
<1>13. CASE Command \/ Word
  <2>1. Parsing /\ Looks.kind = "word" /\ i' = i + 1 /\ UNCHANGED <<argv, given>>
    BY <1>13 DEF Command, Word, Move
  <2> QED  BY <1>6, <1>7, <2>1
<1> QED  BY <1>8, <1>9, <1>10, <1>11, <1>12, <1>13 DEF Parse

\* On a line of the usage text the parser moves a word at a time, refuses nothing,
\* and takes each word for what it is.
UsageMove ==
    /\ i' = i + 1 /\ UNCHANGED <<line, argv, outcome>>
    /\ \/ i = 1 /\ UNCHANGED <<given, argument, commands>>
       \/ i = 2 /\ commands' = commands \cup {line[1]} /\ UNCHANGED <<given, argument>>
       \/ i > 2 /\ Plain(line[i - 1]) /\ UNCHANGED <<given, argument, commands>>
       \/ /\ i > 2 /\ UNCHANGED <<argument, commands>>
          /\ \E o \in Flags : Shape[line[i - 1]].begins = {o} /\ given' = given \cup {o}
       \/ /\ i > 2 /\ UNCHANGED <<given, commands>>
          /\ \E o \in WithArgument :
                /\ Shape[line[i - 1]].begins = {o} /\ Shape[line[i - 1]].value # NoWord
                /\ argument' = [argument EXCEPT ![o] = Shape[line[i - 1]].value]

\* Each step of the parser on such a line is such a move.
LEMMA UsageMoves ==
    ASSUME Shapes, Usage, Parse
    PROVE  UsageMove
<1>1. /\ i \in Nat /\ Len(argv) \in Nat /\ Len(line) \in Nat /\ \A k \in 1..Len(argv) : argv[k] \in Words
      /\ Len(argv) = Len(line) + 1 /\ \A k \in 1..Len(line) : argv[k + 1] = line[k] /\ line[k] \in Words
  BY LineFacts DEF Usage
<1>2. CASE Parsing
  <2>1. i \in 1..Len(argv) /\ Current \in Words /\ Looks = Shape[Current]
    BY <1>1, <1>2 DEF Parsing, Current, Looks, Shapes
  <2>2. i # 1 => i - 1 \in 1..Len(line) /\ Current = line[i - 1]
    BY <1>1, <2>1 DEF Current
  <2>3. CASE i = 1
    <3>1. Current = "firewall" /\ Looks.kind = "word"
      BY <2>1, <2>3, LineFacts, WordFacts DEF Current
    <3>2. Word
      BY <1>1, <3>1 DEF Parse, DoubleDash, Unknown, LongFlag, LongArgument, Long, Shorts, Command, Commands
    <3> QED  BY <2>3, <3>2 DEF Word, Move, UsageMove
  <2>4. CASE i = 2
    <3>1. Current = line[1] /\ line[1] \in Commands
      BY <2>2, <2>4 DEF Usage
    <3>2. Looks.kind = "word"
      BY <2>1, <3>1, WordFacts
    <3>3. Command
      BY <3>1, <3>2 DEF Parse, DoubleDash, Unknown, LongFlag, LongArgument, Long, Shorts, Word
    <3> QED  BY <2>4, <3>1, <3>3 DEF Command, Move, UsageMove
  <2>5. CASE i > 2
    <3>1. i - 1 \in 2..Len(line) /\ Current = line[i - 1]
      BY <1>1, <2>1, <2>2, <2>5
    <3>2. Plain(Current) \/ Proper(Current)
      BY <3>1 DEF Usage
    <3>3. CASE Plain(Current)
      <4>1. Looks.kind = "word" /\ Current \notin Commands
        BY <2>1, <3>3 DEF Plain
      <4>2. Word
        BY <4>1 DEF Parse, DoubleDash, Unknown, LongFlag, LongArgument, Long, Shorts, Command
      <4> QED  BY <2>5, <3>1, <3>3, <4>2 DEF Word, Move, UsageMove
    <3>4. CASE Proper(Current)
      <4>1. Option(Current) /\ ~WantsNext(Current)
        BY <3>4 DEF Proper
      <4>2. PICK o \in EveryOption : /\ Looks.begins = {o} /\ o # "--help"
                                     /\ Looks.value # NoWord => o \in WithArgument
        BY <2>1, <4>1, OptionFacts
      <4>3. Looks.kind = "long"
        BY <2>1, <4>1, OptionFacts
      <4>4. Found \in DOMAIN LongOptions /\ LongOptions[Found] = o
        BY <1>2, <4>2, <4>3, LongFacts DEF Long
      <4>5. ~Unknown /\ ~DoubleDash /\ ~Shorts /\ ~Command /\ ~Word
        BY <4>3, <4>4 DEF DoubleDash, Unknown, Shorts, Command, Word
      <4>6. CASE \E c \in Flags : LongFlag(c)
        <5>1. LongFlag(o) /\ o \in Flags
          BY <4>4, <4>6 DEF LongFlag, Long
        <5>2. o \notin WithArgument /\ Looks.value = NoWord
          BY <4>2, <5>1 DEF Flags, WithArgument
        <5>3. /\ given' = given \cup {o} /\ i' = i + 1
              /\ UNCHANGED <<line, argv, outcome, argument, commands>>
          BY <5>1, <5>2 DEF LongFlag, Move
        <5> QED  BY <2>1, <2>5, <3>1, <4>2, <5>1, <5>3 DEF UsageMove
      <4>7. CASE \E c \in WithArgument : LongArgument(c)
        <5>1. LongArgument(o) /\ o \in WithArgument
          BY <4>4, <4>7 DEF LongArgument, Long
        <5>2. Looks.value # NoWord
          BY <2>1, <4>1, <4>2, <5>1, WantsNextFacts
        <5>3. /\ argument' = [argument EXCEPT ![o] = Looks.value] /\ i' = i + 1
              /\ UNCHANGED <<line, argv, outcome, given, commands>>
          BY <5>1, <5>2 DEF LongArgument, Move
        <5> QED  BY <2>1, <2>5, <3>1, <4>2, <5>1, <5>2, <5>3 DEF UsageMove
      <4> QED  BY <4>5, <4>6, <4>7 DEF Parse
    <3> QED  BY <3>2, <3>3, <3>4
  <2> QED  BY <2>1, <2>3, <2>4, <2>5
<1>3. Parsing
  BY DEF Parse, DoubleDash, Unknown, LongFlag, LongArgument, Long, Shorts, Command, Word
<1> QED  BY <1>2, <1>3

\* A further word that is not the option leaves its latest value what it was.
LEMMA LatestStays ==
    ASSUME Shapes, NEW o, NEW value, LatestOK(o, i, value), i - 1 \notin Given(o)
    PROVE  LatestOK(o, i + 1, value)
<1>1. i \in Nat /\ \A k \in Given(o) : k \in Nat
  BY LineFacts DEF Given
<1>2. \A k \in Given(o) : k + 1 < i + 1 <=> k + 1 < i
  <2>1. \A k \in Given(o) : k # i - 1
    OBVIOUS
  <2> QED  BY <1>1, <2>1
<1>3. \A k \in Given(o) : k + 1 >= i => k + 1 >= i + 1
  BY <1>1, <1>2
<1> QED  BY <1>2, <1>3 DEF LatestOK

\* One that is the option gives it its value.
LEMMA LatestGiven ==
    ASSUME Shapes, NEW o, i - 1 \in Given(o)
    PROVE  LatestOK(o, i + 1, Shape[line[i - 1]].value)
<1>1. i \in Nat /\ \A k \in Given(o) : k \in Nat
  BY LineFacts DEF Given
<1>2. (i - 1) + 1 < i + 1 /\ \A j \in Given(o) : j + 1 < i + 1 => j <= i - 1
  BY <1>1
<1> QED  BY <1>2 DEF LatestOK

\* Command, flags and values are those of the words passed.
LEMMA UsageStep ==
    ASSUME Shapes, Usage, UsageOK, Parse
    PROVE  Usage' /\ UsageOK' /\ UNCHANGED outcome
<1>1. i \in Nat /\ Len(line) \in Nat /\ i <= Len(line) + 1 /\ i \in 1..Len(line) + 1
  <2>1. Parsing
    BY DEF Parse, DoubleDash, Unknown, LongFlag, LongArgument, Long, Shorts, Command, Word
  <2>2. i \in Nat /\ Len(line) \in Nat /\ Len(argv) = Len(line) + 1 /\ i <= Len(argv) /\ i >= 1
    BY <2>1, LineFacts DEF Usage, Parsing, Shapes
  <2> QED  BY <2>2
<1>2. i' = i + 1 /\ UNCHANGED <<line, argv, outcome>> /\ UsageMove
  BY UsageMoves DEF UsageMove
<1>3. \A o : Given(o)' = Given(o)
  BY <1>2 DEF Given
<1>4. \A o : i - 1 \in Given(o) <=> i > 2 /\ Shape[line[i - 1]].begins = {o}
  BY <1>1 DEF Given
<1>5. commands' = IF i + 1 > 2 THEN {line[1]} ELSE {}
  <2>1. i = 1 \/ i = 2 \/ i > 2
    BY <1>1
  <2> QED  BY <1>1, <2>1, UsageMoves DEF UsageMove, UsageOK
<1>6. given' = given \cup {o \in Flags : i - 1 \in Given(o)}
  <2>1. CASE i <= 2
    <3>1. given' = given
      BY <1>2, <2>1, <1>1 DEF UsageMove
    <3> QED  BY <1>1, <1>4, <2>1, <3>1
  <2>2. CASE i > 2 /\ Plain(line[i - 1]) /\ UNCHANGED given
    <3>1. i - 1 \in 1..Len(line)
      BY <1>1, <2>2
    <3>2. line[i - 1] \in Words
      BY <3>1, LineFacts
    <3>3. \A o : Shape[line[i - 1]].begins # {o}
      BY <2>2, <3>2, WordFacts DEF Plain
    <3> QED  BY <1>4, <2>2, <3>3
  <2>3. CASE i > 2 /\ \E o \in Flags : Shape[line[i - 1]].begins = {o} /\ given' = given \cup {o}
    BY <1>4, <2>3
  <2>4. CASE i > 2 /\ UNCHANGED given /\ \E o \in WithArgument : Shape[line[i - 1]].begins = {o}
    <3>1. \A o \in Flags : Shape[line[i - 1]].begins # {o}
      BY <2>4 DEF Flags, WithArgument
    <3> QED  BY <1>4, <2>4, <3>1
  <2>5. i <= 2 \/ i > 2
    BY <1>1
  <2> QED  BY <1>2, <2>1, <2>2, <2>3, <2>4, <2>5 DEF UsageMove
<1>7. {o \in Flags : \E k \in Given(o) : k + 1 < i + 1}
        = {o \in Flags : \E k \in Given(o) : k + 1 < i} \cup {o \in Flags : i - 1 \in Given(o)}
  <2>1. ASSUME NEW o PROVE (\E k \in Given(o) : k + 1 < i + 1) <=> (\E k \in Given(o) : k + 1 < i) \/ i - 1 \in Given(o)
    <3>1. \A k \in Given(o) : k \in Nat
      BY <1>1 DEF Given
    <3>2. \A k \in Given(o) : k + 1 < i + 1 <=> k + 1 < i \/ k = i - 1
      BY <1>1, <3>1
    <3> QED  BY <3>2
  <2> QED  BY <2>1
<1>8. given' = {o \in Flags : \E k \in Given(o) : k + 1 < i + 1}
  BY <1>6, <1>7 DEF UsageOK
<1>9. ASSUME NEW o \in WithArgument PROVE LatestOK(o, i + 1, argument'[o])
  <2>0. LatestOK(o, i, argument[o])
    BY DEF UsageOK
  <2>1. CASE i - 1 \notin Given(o) /\ argument'[o] = argument[o]
    BY <2>0, <2>1, LatestStays
  <2>2. CASE i - 1 \in Given(o) /\ argument'[o] = Shape[line[i - 1]].value
    BY <2>2, LatestGiven
  <2>3. CASE i <= 2
    <3>1. argument' = argument
      BY <1>1, <1>2, <2>3 DEF UsageMove
    <3>2. i - 1 \notin Given(o)
      BY <1>1, <1>4, <2>3
    <3> QED  BY <2>1, <3>1, <3>2
  <2>4. CASE i > 2 /\ Plain(line[i - 1]) /\ UNCHANGED argument
    <3>1. i - 1 \in 1..Len(line)
      BY <1>1, <2>4
    <3>2. line[i - 1] \in Words
      BY <3>1, LineFacts
    <3>3. Shape[line[i - 1]].begins # {o}
      BY <2>4, <3>2, WordFacts DEF Plain
    <3> QED  BY <1>4, <2>1, <2>4, <3>3
  <2>5. CASE i > 2 /\ UNCHANGED argument /\ \E f \in Flags : Shape[line[i - 1]].begins = {f}
    <3>1. Shape[line[i - 1]].begins # {o}
      BY <2>5 DEF Flags, WithArgument
    <3> QED  BY <1>4, <2>1, <2>5, <3>1
  <2>6. CASE i > 2 /\ \E c \in WithArgument :
                /\ Shape[line[i - 1]].begins = {c}
                /\ argument' = [argument EXCEPT ![c] = Shape[line[i - 1]].value]
    <3>1. PICK c \in WithArgument : /\ Shape[line[i - 1]].begins = {c}
                                    /\ argument' = [argument EXCEPT ![c] = Shape[line[i - 1]].value]
      BY <2>6
    <3>2. argument \in [WithArgument -> Words \cup {NoWord}]
      BY DEF Shapes
    <3>3. CASE c = o
      BY <1>4, <2>2, <2>6, <3>1, <3>2, <3>3
    <3>4. CASE c # o
      BY <1>4, <2>1, <2>6, <3>1, <3>2, <3>4
    <3> QED  BY <3>3, <3>4
  <2>7. i <= 2 \/ i > 2
    BY <1>1
  <2> QED  BY <1>2, <2>3, <2>4, <2>5, <2>6, <2>7 DEF UsageMove
<1>10. \A o \in WithArgument : LatestOK(o, i, argument[o])'
  BY <1>2, <1>3, <1>9 DEF LatestOK
<1>11. Usage'
  BY <1>2 DEF Usage
<1> QED  BY <1>2, <1>3, <1>5, <1>8, <1>10, <1>11 DEF UsageOK

\* A lone "--help" is not refused, and asks for help.
LEMMA HelpStep ==
    ASSUME Shapes, line = <<"--help">>, HelpOK, Parse
    PROVE  HelpOK' /\ UNCHANGED <<line, outcome>>
<1>1. argv[1] = "firewall" /\ argv[2] = "--help" /\ Len(argv) = 2 /\ \A k \in 1..2 : argv[k] \in Words
  <2>1. line # <<>> /\ Len(line) = 1 /\ line[1] = "--help" /\ 1 \in 1..Len(line)
    OBVIOUS
  <2>2. Len(argv) = 1 + 1 /\ argv[1 + 1] = "--help" /\ argv[1] = "firewall"
    BY <2>1, LineFacts
  <2> QED  BY <2>2, LineFacts
<1>2. Parsing
  BY DEF Parse, DoubleDash, Unknown, LongFlag, LongArgument, Long, Shorts, Command, Word
<1>3. i = 1 \/ i = 2
  BY <1>1, <1>2 DEF Parsing, Shapes
<1>4. CASE i = 1
  <2>1. Current = "firewall" /\ Current \in Words /\ Looks = Shape[Current]
    BY <1>1, <1>4 DEF Current, Looks
  <2>2. Looks.kind = "word" /\ Current \notin Commands
    BY <2>1, WordFacts DEF Commands
  <2>3. Word
    BY <2>2 DEF Parse, DoubleDash, Unknown, LongFlag, LongArgument, Long, Shorts, Command
  <2> QED  BY <1>4, <2>3 DEF Word, Move, HelpOK
<1>5. CASE i = 2
  <2>1. Current = "--help" /\ Current \in Words /\ Looks = Shape[Current]
    BY <1>1, <1>5 DEF Current, Looks
  <2>2. "--help" \in EveryOption /\ "--help" \notin WithArgument
    BY DEF EveryOption, Flags, WithArgument
  <2>3. Looks.kind = "long" /\ Looks.begins = {"--help"} /\ Looks.value = NoWord
    BY <2>1, <2>2, WordFacts
  <2>4. Found \in DOMAIN LongOptions /\ LongOptions[Found] = "--help"
    BY <1>2, <2>2, <2>3, LongFacts DEF Long
  <2>5. LongFlag("--help")
    BY <2>2, <2>3, <2>4 DEF Parse, DoubleDash, Unknown, LongFlag, LongArgument, Long, Shorts, Command, Word
  <2>6. given' = given \cup {"--help"} /\ UNCHANGED <<line, outcome>>
    BY <2>3, <2>5 DEF LongFlag, Move
  <2> QED  BY <2>6 DEF HelpOK
<1> QED  BY <1>3, <1>4, <1>5

-----------------------------------------------------------------------------
(***************************************************************************)
(* What the program ends with.                                             *)
(***************************************************************************)
\* The number of digits and a sign that snprintf makes of an int.
LEMMA DigitsAreFew ==
    ASSUME NEW n \in Int
    PROVE  Digits(n) \in 1..11
<1> DEFINE powers == {d \in 1..9 : 10^d \in 0..n \/ -(10^d) \in n..0}
<1>1. IsFiniteSet(1..9) /\ Cardinality(1..9) = 9
  <2>1. IsFiniteSet(1..9) /\ Cardinality(1..9) = IF 1 > 9 THEN 0 ELSE 9 - 1 + 1
    <3>1. 1 \in Int /\ 9 \in Int
      OBVIOUS
    <3> QED  BY <3>1, FS_Interval, Zenon
  <2> QED  BY <2>1
<1>2. powers \subseteq 1..9
  OBVIOUS
<1> HIDE DEF powers
<1>3. IsFiniteSet(powers) /\ Cardinality(powers) <= 9
  BY <1>1, <1>2, FS_Subset
<1>4. Cardinality(powers) \in Nat
  BY <1>3, FS_CardinalityType
<1>5. Digits(n) = Cardinality(powers) + (IF n < 0 THEN 2 ELSE 1)
  BY DEF Digits, powers
<1> QED  BY <1>3, <1>4, <1>5

\* Max of natural numbers is the one that is not below any.
LEMMA MaxIs ==
    ASSUME NEW T \in SUBSET Nat, NEW m \in T, \A y \in T : y <= m
    PROVE  Max(T) = m
<1>1. \A x \in T : (\A y \in T : x >= y) => x = m
  OBVIOUS
<1>2. \A y \in T : m >= y
  OBVIOUS
<1> QED  BY <1>1, <1>2 DEF Max

\* Texts that fit in the fields of struct rule fit in the buffer.
LEMMA ShortRulesFit ==
    ASSUME NEW rule, Size[rule.name] \in Nat, Size[rule.src_ip] \in Nat, Size[rule.dst_ip] \in Nat,
           rule.protocol \in Int, FitsFields(rule)
    PROVE  ~(TextSize(rule) > BufferSize)
<1> DEFINE a == Size[rule.name]
           b == Size[rule.src_ip]
           c == Size[rule.dst_ip]
           d == Digits(rule.protocol)
<1>1. a \in 0..50 /\ b \in 0..15 /\ c \in 0..15 /\ d \in 1..11
  BY DigitsAreFew DEF FitsFields
<1>2. TextSize(rule) = 89 + a + b + c + d
  BY DEF TextSize
<1> HIDE DEF a, b, c, d
<1> QED  BY <1>1, <1>2 DEF BufferSize

\* The parser's steps end nothing but in a refusal.
LEMMA ParseEnding ==
    ASSUME Parse
    PROVE  outcome = Running /\ (outcome' = Running \/ outcome' = Ends("refused", 1))
<1>1. Parsing
  BY DEF Parse, DoubleDash, Unknown, LongFlag, LongArgument, Long, Shorts, Command, Word
<1>2. UNCHANGED outcome \/ Fail
  <2>1. CASE DoubleDash \/ Unknown \/ Shorts \/ Command \/ Word
    BY <2>1 DEF DoubleDash, Unknown, Shorts, Command, Word, Move, vars
  <2>2. ASSUME NEW o \in Flags, LongFlag(o) PROVE UNCHANGED outcome \/ Fail
    BY <2>2 DEF LongFlag, Move
  <2>3. ASSUME NEW o \in WithArgument, LongArgument(o) PROVE UNCHANGED outcome \/ Fail
    <3> DEFINE value == IF Looks.value = NoWord THEN NextWord ELSE Looks.value
    <3>1. CASE value = NoWord
      BY <2>3, <3>1 DEF LongArgument
    <3>2. CASE value # NoWord
      BY <2>3, <3>2 DEF LongArgument, Move
    <3> QED  BY <3>1, <3>2
  <2> QED  BY <2>1, <2>2, <2>3 DEF Parse
<1> QED  BY <1>1, <1>2 DEF Parsing, Fail

\* The lines that UsageHonoured speaks of are lines of the usage text.
LEMMA UsageLines ==
    ASSUME Shapes
    PROVE  /\ AddLine => Usage
           /\ Len(line) = 2 /\ Plain(line[2]) /\ line[1] = "remove" => Usage
           /\ line = <<"list">> => Usage
           /\ line = <<"list">> \/ line = <<"--help">> => Len(line) = 1
<1>1. AddLine => Usage
  BY DEF AddLine, Usage, Commands
<1>2. ASSUME Len(line) = 2, Plain(line[2]), line[1] = "remove" PROVE Usage
  <2>1. line # <<>> /\ \A k \in 2..Len(line) : k = 2
    BY <1>2
  <2> QED  BY <1>2, <2>1 DEF Usage, Commands
<1>3. ASSUME line = <<"list">> PROVE Usage
  <2>1. line # <<>> /\ line[1] = "list" /\ \A k \in 2..Len(line) : FALSE
    BY <1>3
  <2> QED  BY <2>1 DEF Usage, Commands
<1>4. line = <<"list">> \/ line = <<"--help">> => Len(line) = 1
  OBVIOUS
<1> QED  BY <1>1, <1>2, <1>3, <1>4

\* Nothing is refused on those.
LEMMA ParseResult ==
    ASSUME Shapes, ParsedOK, Parse
    PROVE  ResultOK'
<1>1. outcome = Running /\ (outcome' = Running \/ outcome' = Ends("refused", 1))
  BY ParseEnding
<1>2. outcome'.what = "running" \/ outcome'.what = "refused"
  BY <1>1 DEF Running, Ends
<1>3. RemovesTheIdGiven' /\ DoubtfulOptionChangesNothing' /\ OverreadOnlyBeyondFields'
  BY <1>2 DEF RemovesTheIdGiven, DoubtfulOptionChangesNothing, OverreadOnlyBeyondFields, Changes
<1>4. (Usage \/ line = <<"--help">>) => outcome' = Running
  BY <1>1, UsageStep, HelpStep DEF ParsedOK
<1>5. line' = line
  <2>1. UNCHANGED line \/ Fail
    <3>1. CASE DoubleDash \/ Unknown \/ Shorts \/ Command \/ Word
      BY <3>1 DEF DoubleDash, Unknown, Shorts, Command, Word, Move, vars
    <3>2. ASSUME NEW o \in Flags, LongFlag(o) PROVE UNCHANGED line \/ Fail
      BY <3>2, FlagStep
    <3>3. ASSUME NEW o \in WithArgument, LongArgument(o) PROVE UNCHANGED line \/ Fail
      BY <3>3, ArgumentStep
    <3> QED  BY <3>1, <3>2, <3>3 DEF Parse
  <2> QED  BY <2>1 DEF Fail
<1>6. UsageHonoured'
  <2>1. CASE outcome' = Running
    BY <2>1 DEF UsageHonoured, Running
  <2>2. CASE outcome' # Running
    <3>1. ~Usage /\ line # <<"--help">>
      BY <1>4, <2>2
    <3>2. /\ ~AddLine /\ line # <<"list">> /\ line # <<"--help">>
          /\ ~(Len(line) = 2 /\ line[1] = "remove" /\ Plain(line[2]))
      BY <3>1, UsageLines
    <3>3. /\ ~AddLine' /\ line' # <<"list">> /\ line' # <<"--help">>
          /\ ~(Len(line') = 2 /\ line'[1] = "remove" /\ Plain(line'[2]))
      BY <1>5, <3>2 DEF AddLine
    <3> QED  BY <3>3 DEF UsageHonoured
  <2> QED  BY <2>1, <2>2
<1> QED  BY <1>3, <1>6 DEF ResultOK

\* What the actions of main come to.
LEMMA MainEnding ==
    ASSUME Main
    PROVE  /\ Parsed
           /\ outcome'.what = "removed" => /\ RemoveRule /\ id # NoWord /\ outcome'.rule = [id |-> Number[id]]
                                           /\ "--help" \notin given
           /\ outcome'.what = "crash" => id = NoWord
           /\ outcome'.what \in {"added", "overread"} => "--help" \notin given
           /\ outcome'.what = "overread" =>
                /\ TextSize(outcome'.rule) > BufferSize
                /\ \A o \in WithArgument : argument[o] # NoWord
                /\ outcome'.rule = [name |-> argument["--name"], src_ip |-> argument["--src"],
                                    dst_ip |-> argument["--dst"], protocol |-> Number[argument["--proto"]],
                                    flags |-> given]
<1> DEFINE rule == [name |-> argument["--name"], src_ip |-> argument["--src"],
                    dst_ip |-> argument["--dst"], protocol |-> Number[argument["--proto"]],
                    flags |-> given]
<1>1. ASSUME NEW what, NEW code, End(Ends(what, code)) PROVE outcome'.what = what
  BY <1>1 DEF End, Ends
<1>2. CASE Help
  BY <1>1, <1>2 DEF Help
<1>3. CASE AddRule
  <2>1. Parsed /\ "--help" \notin given
    BY <1>3 DEF AddRule, Chosen
  <2>2. CASE End(Ends("missing arguments", 0)) \/ End(Ends("no file", 0))
    <3>1. outcome'.what \in {"missing arguments", "no file"}
      BY <1>1, <2>2
    <3> QED  BY <2>1, <3>1
  <2>3. CASE /\ End([what |-> IF TextSize(rule) > BufferSize THEN "overread" ELSE "added",
                     code |-> 0, rule |-> rule])
             /\ NoWord \notin {argument[o] : o \in WithArgument}
    <3> HIDE DEF rule
    <3>1. /\ outcome'.rule = rule /\ outcome'.what = (IF TextSize(rule) > BufferSize THEN "overread" ELSE "added")
      BY <2>3 DEF End
    <3>2. \A o \in WithArgument : argument[o] # NoWord
      BY <2>3
    <3>3. outcome'.what = "overread" => TextSize(outcome'.rule) > BufferSize
      BY <3>1
    <3>4. outcome'.what \in {"added", "overread"}
      BY <3>1
    <3> QED  BY <2>1, <3>1, <3>2, <3>3, <3>4 DEF rule
  <2> QED  BY <1>3, <2>2, <2>3 DEF AddRule
<1>4. CASE RemoveRule
  <2>1. Parsed /\ "--help" \notin given
    BY <1>4 DEF RemoveRule, Chosen
  <2>2. CASE id = NoWord /\ End(Ends("crash", 1))
    BY <1>1, <2>1, <2>2
  <2>3. CASE End(Ends("no file", 0))
    BY <1>1, <2>1, <2>3
  <2>4. CASE id # NoWord /\ End([what |-> "removed", code |-> 0, rule |-> [id |-> Number[id]]])
    BY <1>4, <2>1, <2>4 DEF End
  <2> QED  BY <1>4, <2>2, <2>3, <2>4 DEF RemoveRule
<1>5. CASE ListRules \/ Dump \/ Load \/ Idle
  <2>1. Parsed /\ outcome'.what \in {"no file", "listed", "dumping", "loading", "nothing"}
    BY <1>1, <1>5 DEF ListRules, Dump, Load, Idle, Chosen
  <2> QED  BY <2>1
<1> QED  BY <1>2, <1>3, <1>4, <1>5 DEF Main

\* Where all words have been passed, the id, if there is one, is that of the line.
LEMMA RemovesResult ==
    ASSUME Shapes, ParsedOK, Main
    PROVE  RemovesTheIdGiven'
<1> DEFINE names == Len(line) >= 2 /\ line[1] = "remove" /\ Plain(line[2])
<1>1. /\ Len(line) \in Nat /\ Len(argv) \in Nat /\ i \in Nat
      /\ Len(argv) = (IF line = <<>> THEN 2 ELSE Len(line) + 1) /\ (line = <<>> => argv[2] = "--help")
      /\ \A k \in 1..Len(line) : argv[k + 1] = line[k] /\ line[k] \in Words
  BY LineFacts
<1>2. i > Len(argv) /\ i <= Len(argv) + 1
  BY <1>1, MainEnding DEF Parsed, Shapes
<1>3. id = IF i > 3 /\ argv[2] = "remove" /\ Plain(argv[3]) THEN argv[3] ELSE NoWord
  BY DEF ParsedOK, IdOK
<1>4. line' = line
  BY MainShapes
<1>5. ASSUME outcome'.what = "removed" PROVE names /\ outcome'.rule.id = Number[line[2]]
  <2>1. id # NoWord /\ outcome'.rule = [id |-> Number[id]]
    BY <1>5, MainEnding
  <2>2. i > 3 /\ argv[2] = "remove" /\ Plain(argv[3]) /\ id = argv[3]
    BY <1>3, <2>1
  <2>3. line # <<>> /\ Len(line) >= 2 /\ 1 \in 1..Len(line) /\ 2 \in 1..Len(line)
    BY <1>1, <1>2, <2>2
  <2>4. argv[2] = line[1] /\ argv[3] = line[2]
    <3>1. argv[1 + 1] = line[1] /\ argv[2 + 1] = line[2]
      BY <1>1, <2>3
    <3> QED  BY <3>1
  <2> QED  BY <2>1, <2>2, <2>3, <2>4
<1>6. ASSUME names PROVE id # NoWord
  <2>1. line # <<>> /\ 1 \in 1..Len(line) /\ 2 \in 1..Len(line)
    BY <1>1, <1>6
  <2>2. argv[2] = line[1] /\ argv[3] = line[2] /\ line[2] \in Words
    <3>1. argv[1 + 1] = line[1] /\ argv[2 + 1] = line[2] /\ line[2] \in Words
      BY <1>1, <2>1
    <3> QED  BY <3>1
  <2>3. i > 3
    BY <1>1, <1>2, <1>6, <2>1
  <2>4. id = line[2]
    BY <1>3, <1>6, <2>2, <2>3
  <2> QED  BY <2>2, <2>4, CommandLineAssumption
<1>7. outcome'.what = "crash" => ~names
  BY <1>6, MainEnding
<1> QED  BY <1>4, <1>5, <1>7 DEF RemovesTheIdGiven

\* An option that nobody knows, or a call for help, is among what the parser passed.
LEMMA DoubtResult ==
    ASSUME Shapes, ParsedOK, Main
    PROVE  DoubtfulOptionChangesNothing'
<1>1. line' = line /\ Parsed
  BY MainShapes, MainEnding
<1>2. SUFFICES ASSUME outcome'.what \in Changes, NEW k \in DOMAIN line
               PROVE  \/ Shape[line[k]].kind = "word" \/ Option(line[k])
                      \/ k > 1 /\ WantsNext(line[k - 1])
  BY <1>1 DEF DoubtfulOptionChangesNothing
<1>3. "--help" \notin given
  BY <1>2, MainEnding DEF Changes
<1>4. /\ k \in 1..Len(line) /\ Len(line) \in Nat /\ i \in Nat /\ line # <<>>
      /\ Len(argv) = Len(line) + 1 /\ argv[k + 1] = line[k] /\ i > Len(argv)
      /\ \A j \in 1..Len(line) : argv[j + 1] = line[j]
  <2>1. k \in 1..Len(line) /\ line # <<>>
    BY LineFacts
  <2> QED  BY <1>1, <2>1, LineFacts DEF Parsed
<1>5. k + 1 \in 2..Len(argv) /\ k + 1 < i
  BY <1>4
<1>6. \/ Shape[argv[k + 1]].kind = "word" \/ Option(argv[k + 1])
      \/ k + 1 > 2 /\ WantsNext(argv[(k + 1) - 1])
  BY <1>3, <1>5 DEF ParsedOK, PassedOK
<1>7. ASSUME k + 1 > 2, WantsNext(argv[(k + 1) - 1]) PROVE k > 1 /\ WantsNext(line[k - 1])
  <2>1. k - 1 \in 1..Len(line) /\ (k - 1) + 1 = k /\ (k + 1) - 1 = k /\ k > 1
    BY <1>4, <1>7
  <2>2. argv[k] = line[k - 1]
    BY <1>4, <2>1
  <2> QED  BY <1>7, <2>1, <2>2
<1> QED  BY <1>4, <1>6, <1>7

\* A rule that is too long for the buffer is too long for struct rule.
LEMMA OverreadResult ==
    ASSUME Shapes, Main
    PROVE  OverreadOnlyBeyondFields'
<1> DEFINE rule == outcome'.rule
<1>1. SUFFICES ASSUME outcome'.what = "overread"
               PROVE  ~FitsFields(rule)
  BY DEF OverreadOnlyBeyondFields
<1>2. TextSize(rule) > BufferSize
  BY <1>1, MainEnding
<1>3. \A o \in WithArgument : argument[o] \in Words
  <2>1. \A o \in WithArgument : argument[o] # NoWord
    BY <1>1, MainEnding
  <2> QED  BY <2>1 DEF Shapes
<1>4. {"--name", "--src", "--dst", "--proto"} \subseteq WithArgument
  BY DEF WithArgument
<1>5. /\ rule.name = argument["--name"] /\ rule.src_ip = argument["--src"] /\ rule.dst_ip = argument["--dst"]
      /\ rule.protocol = Number[argument["--proto"]]
  BY <1>1, MainEnding
<1>6. rule.name \in Words /\ rule.src_ip \in Words /\ rule.dst_ip \in Words /\ argument["--proto"] \in Words
  BY <1>3, <1>4, <1>5
<1>7. /\ Size[rule.name] \in Nat /\ Size[rule.src_ip] \in Nat /\ Size[rule.dst_ip] \in Nat
      /\ rule.protocol \in Int
  BY <1>5, <1>6, CommandLineAssumption
<1> HIDE DEF rule
<1> QED  BY <1>2, <1>7, ShortRulesFit

\* At the end, the options given are those of the line, and the arguments their
\* last values.
LEMMA AllGiven ==
    ASSUME Shapes, Usage, UsageOK, Parsed
    PROVE  /\ commands = {line[1]}
           /\ given = {o \in Flags : Given(o) # {}}
           /\ \A o \in WithArgument :
                \/ argument[o] = NoWord /\ Given(o) = {}
                \/ Given(o) # {} /\ argument[o] = LastGiven(o)
<1>1. Len(line) \in Nat /\ Len(line) > 0 /\ i \in Nat /\ i > Len(line) + 1
  BY LineFacts DEF Usage, Parsed
<1>2. \A o : \A k \in Given(o) : k \in Nat /\ k + 1 < i
  BY <1>1 DEF Given
<1>3. commands = {line[1]}
  BY <1>1 DEF UsageOK
<1>4. given = {o \in Flags : Given(o) # {}}
  <2>1. given = {o \in Flags : \E k \in Given(o) : k + 1 < i}
    BY DEF UsageOK
  <2>2. \A o : (\E k \in Given(o) : k + 1 < i) <=> Given(o) # {}
    BY <1>2
  <2> QED  BY <2>1, <2>2
<1>5. ASSUME NEW o \in WithArgument
      PROVE  \/ argument[o] = NoWord /\ Given(o) = {}
             \/ Given(o) # {} /\ argument[o] = LastGiven(o)
  <2>1. LatestOK(o, i, argument[o])
    BY DEF UsageOK
  <2>2. CASE argument[o] = NoWord /\ \A k \in Given(o) : k + 1 >= i
    <3>1. \A k \in Given(o) : FALSE
      <4>1. \A k \in Given(o) : k \in Nat /\ k + 1 < i /\ k + 1 >= i
        BY <1>2, <2>2
      <4> QED  BY <1>1, <4>1
    <3> QED  BY <2>2, <3>1
  <2>3. CASE \E k \in Given(o) : /\ k + 1 < i /\ argument[o] = Shape[line[k]].value
                                 /\ \A j \in Given(o) : j + 1 < i => j <= k
    <3>1. PICK k \in Given(o) : argument[o] = Shape[line[k]].value /\ \A j \in Given(o) : j + 1 < i => j <= k
      BY <2>3
    <3>2. \A j \in Given(o) : j <= k
      BY <1>2, <3>1
    <3>3. Given(o) \in SUBSET Nat
      BY <1>2
    <3>4. Max(Given(o)) = k
      BY <3>2, <3>3, MaxIs
    <3> QED  BY <3>1, <3>4 DEF LastGiven
  <2> QED  BY <2>1, <2>2, <2>3 DEF LatestOK
<1> QED  BY <1>3, <1>4, <1>5

\* Where the line is one of the usage text, nobody asks for help, and the command
\* is the one on it.
LEMMA UsageEnding ==
    ASSUME Shapes, Usage, UsageOK, Main
    PROVE  /\ "--help" \notin given
           /\ line[1] = "add" => AddRule
           /\ line[1] = "remove" => RemoveRule
           /\ line[1] = "list" => ListRules
           /\ line[1] = "dump" => Dump
           /\ line[1] = "load" => Load
<1>1. /\ commands = {line[1]} /\ given = {o \in Flags : Given(o) # {}}
  BY AllGiven, MainEnding
<1>2. ASSUME NEW k \in Given("--help") PROVE FALSE
  <2>1. k \in 2..Len(line) /\ Shape[line[k]].begins = {"--help"}
    BY <1>2 DEF Given
  <2>2. Len(line) \in Nat /\ k \in 1..Len(line) /\ line[k] \in Words
    BY <2>1, LineFacts
  <2>3. ~Option(line[k]) /\ Shape[line[k]].kind # "word"
    BY <2>1, <2>2, OptionFacts, WordFacts
  <2> QED  BY <2>1, <2>3 DEF Usage, Plain, Proper
<1>3. "--help" \notin given
  BY <1>1, <1>2
<1>4. ~Help /\ ~Idle
  BY <1>1, <1>3 DEF Help, Idle
<1> QED  BY <1>1, <1>3, <1>4 DEF Main, AddRule, RemoveRule, ListRules, Dump, Load, Chosen

\* How the program has ended.
LEMMA EndingIs ==
    ASSUME NEW what, NEW code, End(Ends(what, code))
    PROVE  outcome'.what = what
BY DEF End, Ends

\* An "add" of the usage text adds the rule it describes, if all of it is there and
\* fits in struct rule.
LEMMA AddResult ==
    ASSUME Shapes, Usage => UsageOK, Main, AddLine
    PROVE  IF \E o \in WithArgument : Given(o) = {}
           THEN outcome'.what = "missing arguments"
           ELSE FitsFields(RuleOnLine) =>
                    \/ outcome'.what = "no file"
                    \/ outcome'.what = "added" /\ outcome'.rule = RuleOnLine
<1>1. Usage /\ UsageOK /\ Parsed /\ line[1] = "add"
  BY UsageLines, MainEnding DEF AddLine
<1>2. AddRule
  BY <1>1, UsageEnding
<1>3. \A o \in WithArgument : \/ argument[o] = NoWord /\ Given(o) = {}
                              \/ Given(o) # {} /\ argument[o] = LastGiven(o)
  BY <1>1, AllGiven
<1>4. ASSUME NEW o \in WithArgument, Given(o) # {} PROVE argument[o] # NoWord
  <2>1. UsageOK => LatestOK(o, i, argument[o])
    BY DEF UsageOK
  <2>2. PICK k \in Given(o) : k + 1 >= i \/ argument[o] = Shape[line[k]].value
    BY <1>1, <1>4, <2>1 DEF LatestOK
  <2>3. k \in 2..Len(line) /\ Len(line) \in Nat /\ i > Len(line) + 1 /\ i \in Nat /\ line[k] \in Words
    <3>1. k \in 2..Len(line) /\ Len(line) \in Nat /\ i > Len(line) + 1 /\ i \in Nat
      BY <1>1, LineFacts DEF Given, Usage, Parsed
    <3>2. k \in 1..Len(line)
      BY <3>1
    <3> QED  BY <3>1, <3>2, LineFacts
  <2>4. argument[o] = Shape[line[k]].value
    BY <2>2, <2>3
  <2>5. ~WantsNext(line[k]) /\ Shape[line[k]].begins = {o}
    BY <2>3 DEF AddLine, Proper, Given
  <2> QED  BY <2>3, <2>4, <2>5, WantsNextFacts
<1>5. NoWord \in {argument[o] : o \in WithArgument} <=> \E o \in WithArgument : Given(o) = {}
  BY <1>3, <1>4
<1>6. CASE \E o \in WithArgument : Given(o) = {}
  <2>1. End(Ends("missing arguments", 0))
    BY <1>2, <1>5, <1>6 DEF AddRule
  <2>2. outcome'.what = "missing arguments"
    BY <2>1 DEF End, Ends
  <2> QED  BY <1>6, <2>2
<1>7. CASE ~\E o \in WithArgument : Given(o) = {}
  <2> DEFINE rule == [name |-> argument["--name"], src_ip |-> argument["--src"],
                      dst_ip |-> argument["--dst"], protocol |-> Number[argument["--proto"]],
                      flags |-> given]
  <2>1. \/ End(Ends("no file", 0))
        \/ End([what |-> IF TextSize(rule) > BufferSize THEN "overread" ELSE "added",
                code |-> 0, rule |-> rule])
    BY <1>2, <1>5, <1>7 DEF AddRule
  <2>2. rule = RuleOnLine
    <3>1. {"--name", "--src", "--dst", "--proto"} \subseteq WithArgument
      BY DEF WithArgument
    <3>2. \A o \in WithArgument : argument[o] = LastGiven(o)
      BY <1>3, <1>7
    <3>3. given = {o \in Flags : Given(o) # {}}
      BY <1>1, AllGiven
    <3> QED  BY <3>1, <3>2, <3>3 DEF RuleOnLine
  <2>3. FitsFields(rule) => ~(TextSize(rule) > BufferSize)
    <3>1. {"--name", "--src", "--dst", "--proto"} \subseteq WithArgument
      BY DEF WithArgument
    <3>2. \A o \in WithArgument : argument[o] \in Words
      BY <1>3, <1>4, <1>7 DEF Shapes
    <3>3. /\ Size[rule.name] \in Nat /\ Size[rule.src_ip] \in Nat /\ Size[rule.dst_ip] \in Nat
          /\ rule.protocol \in Int
      BY <3>1, <3>2, CommandLineAssumption
    <3> HIDE DEF rule
    <3> QED  BY <3>3, ShortRulesFit
  <2> HIDE DEF rule
  <2>4. FitsFields(rule) => outcome'.what = "no file" \/ (outcome'.what = "added" /\ outcome'.rule = rule)
    <3>1. CASE End(Ends("no file", 0))
      BY <3>1, EndingIs
    <3>2. CASE End([what |-> IF TextSize(rule) > BufferSize THEN "overread" ELSE "added",
                    code |-> 0, rule |-> rule])
      <4>1. /\ outcome'.what = (IF TextSize(rule) > BufferSize THEN "overread" ELSE "added")
            /\ outcome'.rule = rule
        BY <3>2 DEF End
      <4> QED  BY <2>3, <4>1
    <3> QED  BY <2>1, <3>1, <3>2
  <2> QED  BY <1>7, <2>2, <2>4
<1> QED  BY <1>6, <1>7

\* "remove" with one plain word behind it removes the rule of that number.
LEMMA PlainResult ==
    ASSUME Shapes, ParsedOK, Main, Len(line) = 2, line[1] = "remove", Plain(line[2])
    PROVE  \/ outcome'.what = "no file"
           \/ outcome'.what = "removed" /\ outcome'.rule.id = Number[line[2]]
<1>1. Usage /\ UsageOK
  BY UsageLines DEF ParsedOK
<1>2. RemoveRule /\ RemovesTheIdGiven'
  BY <1>1, UsageEnding, RemovesResult
<1>3. line' = line /\ outcome'.what # "crash"
  BY <1>2, MainShapes DEF RemovesTheIdGiven
<1>4. outcome'.what \in {"no file", "removed", "crash"}
  <2>1. \/ End(Ends("crash", 1)) \/ End(Ends("no file", 0))
        \/ End([what |-> "removed", code |-> 0, rule |-> [id |-> Number[id]]])
    BY <1>2 DEF RemoveRule
  <2>2. CASE End([what |-> "removed", code |-> 0, rule |-> [id |-> Number[id]]])
    BY <2>2 DEF End
  <2>3. CASE End(Ends("crash", 1)) \/ End(Ends("no file", 0))
    BY <2>3, EndingIs
  <2> QED  BY <2>1, <2>2, <2>3
<1> QED  BY <1>2, <1>3, <1>4 DEF RemovesTheIdGiven

\* What the usage text calls for is what comes of it.
LEMMA UsageResult ==
    ASSUME Shapes, ParsedOK, Main
    PROVE  UsageHonoured'
<1>1. line' = line /\ Parsed
  BY MainShapes, MainEnding
<1>2. ASSUME AddLine'
      PROVE  (IF \E o \in WithArgument : Given(o) = {}
              THEN outcome.what = "missing arguments"
              ELSE FitsFields(RuleOnLine) =>
                    \/ outcome.what = "no file"
                    \/ outcome.what = "added" /\ outcome.rule = RuleOnLine)'
  <2>1. AddLine
    BY <1>1, <1>2 DEF AddLine
  <2>2. RuleOnLine' = RuleOnLine /\ \A o : Given(o)' = Given(o)
    BY <1>1 DEF RuleOnLine, LastGiven, Given
  <2>3. FitsFields(RuleOnLine)' = FitsFields(RuleOnLine)
    BY <2>2 DEF FitsFields
  <2> QED  BY <2>1, <2>2, <2>3, AddResult DEF ParsedOK
<1>3. ASSUME line = <<"list">> PROVE outcome'.what \in {"no file", "listed"}
  <2>1. Usage /\ UsageOK /\ line[1] = "list"
    BY <1>3, UsageLines DEF ParsedOK
  <2>2. ListRules
    BY <2>1, UsageEnding
  <2>3. End(Ends("no file", 0)) \/ End(Ends("listed", 0))
    BY <2>2 DEF ListRules
  <2> QED  BY <2>3, EndingIs
<1>4. ASSUME line = <<"--help">> PROVE outcome' = Ends("help", 0)
  <2>1. i > Len(argv) /\ Len(argv) = 2 /\ i \in Nat /\ line # <<>>
    <3>1. Len(line) = 1 /\ line # <<>>
      BY <1>4
    <3> QED  BY <1>1, <3>1, LineFacts DEF Parsed
  <2>2. "--help" \in given
    BY <1>4, <2>1 DEF ParsedOK, HelpOK
  <2>3. Help
    BY <2>2 DEF Main, AddRule, RemoveRule, ListRules, Dump, Load, Idle, Chosen
  <2> QED  BY <2>1, <2>3 DEF Help, End
<1>5. Len(line) = 2 /\ line[1] = "remove" /\ Plain(line[2]) =>
        \/ outcome'.what = "no file"
        \/ outcome'.what = "removed" /\ outcome'.rule.id = Number[line[2]]
  BY PlainResult
<1> QED  BY <1>1, <1>2, <1>3, <1>4, <1>5 DEF UsageHonoured

-----------------------------------------------------------------------------
(***************************************************************************)
(* The theorems.                                                           *)
(***************************************************************************)
\* At first, only the name of the program is there to be parsed.
LEMMA InitIInv == Init => IInv
<1> SUFFICES ASSUME Init PROVE IInv
  OBVIOUS
<1>1. Shapes
  <2>1. line \in Seq(Words)
    BY CommandLineAssumption DEF Init
  <2>2. argv \in Seq(Words)
    <3>1. <<"firewall">> \in Seq(Words) /\ <<"--help">> \in Seq(Words)
      BY CommandLineAssumption
    <3> QED  BY <2>1, <3>1, ConcatProperties DEF Init
  <2>3. Len(argv) \in Nat
    BY <2>2, LenProperties
  <2>4. outcome.what \in Whats /\ outcome.code \in {0, 1}
    BY DEF Init, Running, Whats
  <2>5. i \in 1..Len(argv) + 1
    BY <2>3 DEF Init
  <2> QED  BY <2>1, <2>4, <2>5 DEF Init, Shapes
<1>2. IdOK /\ PassedOK(i, "--help" \in given) /\ HelpOK
  BY DEF Init, IdOK, PassedOK, HelpOK
<1>3. UsageOK
  <2>1. \A o : \A k \in Given(o) : k \in Nat /\ k + 1 >= i /\ ~(k + 1 < i)
    BY <1>1, LineFacts DEF Given, Init
  <2>2. \A o \in WithArgument : LatestOK(o, i, argument[o])
    BY <2>1 DEF Init, LatestOK
  <2> QED  BY <2>1, <2>2 DEF Init, UsageOK
<1>4. ResultOK
  <2>1. outcome = Running /\ outcome.what = "running"
    BY DEF Init, Running
  <2> QED  BY <2>1 DEF ResultOK, RemovesTheIdGiven, DoubtfulOptionChangesNothing, OverreadOnlyBeyondFields,
                      UsageHonoured, Changes
<1> QED  BY <1>1, <1>2, <1>3, <1>4 DEF IInv, ParsedOK

\* Every step keeps the invariant.
LEMMA NextIInv == IInv /\ [Next]_vars => IInv'
<1> SUFFICES ASSUME IInv, [Next]_vars PROVE IInv'
  OBVIOUS
<1>1. Shapes /\ ParsedOK /\ ResultOK
  BY DEF IInv
<1>2. CASE UNCHANGED vars
  <2>1. Shapes' /\ ParsedOK'
    BY <1>1, <1>2 DEF vars, parsed, Shapes, ParsedOK, IdOK, PassedOK, Usage, UsageOK, LatestOK, Given, HelpOK
  <2>2. RemovesTheIdGiven' /\ DoubtfulOptionChangesNothing' /\ OverreadOnlyBeyondFields'
    BY <1>1, <1>2 DEF vars, ResultOK, RemovesTheIdGiven, DoubtfulOptionChangesNothing, OverreadOnlyBeyondFields
  <2>3. UsageHonoured'
    <3>1. line' = line /\ outcome' = outcome
      BY <1>2 DEF vars
    <3>2. AddLine' = AddLine /\ RuleOnLine' = RuleOnLine /\ \A o : Given(o)' = Given(o)
      BY <3>1 DEF AddLine, RuleOnLine, LastGiven, Given
    <3>3. FitsFields(RuleOnLine)' = FitsFields(RuleOnLine)
      BY <3>2 DEF FitsFields
    <3> QED  BY <1>1, <3>1, <3>2, <3>3 DEF ResultOK, UsageHonoured
  <2> QED  BY <2>1, <2>2, <2>3 DEF IInv, ResultOK
<1>3. CASE Parse
  <2>1. Shapes' /\ IdOK' /\ PassedOK(i, "--help" \in given)' /\ ResultOK'
    BY <1>1, <1>3, ParseShapes, IdStep, PassedStep, ParseResult DEF ParsedOK
  <2>2. line' = line
    <3>1. CASE DoubleDash \/ Unknown \/ Shorts \/ Command \/ Word
      BY <3>1 DEF DoubleDash, Unknown, Shorts, Command, Word, Move, Fail, vars
    <3>2. ASSUME NEW o \in Flags, LongFlag(o) PROVE UNCHANGED line
      BY <1>1, <3>2, FlagStep DEF Fail
    <3>3. ASSUME NEW o \in WithArgument, LongArgument(o) PROVE UNCHANGED line
      BY <1>1, <3>3, ArgumentStep DEF Fail
    <3> QED  BY <1>3, <3>1, <3>2, <3>3 DEF Parse
  <2>3. Usage' => UsageOK'
    <3>1. Usage' => Usage
      BY <2>2 DEF Usage
    <3> QED  BY <1>1, <1>3, <3>1, UsageStep DEF ParsedOK
  <2>4. line' = <<"--help">> => HelpOK'
    BY <1>1, <1>3, <2>2, HelpStep DEF ParsedOK
  <2> QED  BY <2>1, <2>3, <2>4 DEF IInv, ParsedOK
<1>4. CASE Main
  <2>1. Shapes' /\ UNCHANGED <<line, argv, i, parsed>>
    BY <1>1, <1>4, MainShapes
  <2>2. ParsedOK'
    BY <1>1, <2>1 DEF parsed, ParsedOK, IdOK, PassedOK, Usage, UsageOK, LatestOK, Given, HelpOK
  <2>3. ResultOK'
    BY <1>1, <1>4, RemovesResult, DoubtResult, OverreadResult, UsageResult DEF ResultOK
  <2> QED  BY <2>1, <2>2, <2>3 DEF IInv
<1> QED  BY <1>2, <1>3, <1>4 DEF Next

\* The invariant holds of every command line.
THEOREM SpecIInv == Spec => []IInv
BY InitIInv, NextIInv, PTL DEF Spec

\* docopt's state is of its types: it keeps to the words there are, and its id is
\* one of them.
THEOREM SpecTypeOK == Spec => []TypeOK
<1>1. IInv => TypeOK
  BY ShapesTypes DEF IInv, ParsedOK
<1> QED  BY <1>1, SpecIInv, PTL

\* Every command line that follows the usage text, however long, does what it says,
\* but for "dump" and "load", which do nothing, and for texts that do not fit in
\* struct rule.
THEOREM SpecUsageHonoured == Spec => []UsageHonoured
<1>1. IInv => UsageHonoured
  BY DEF IInv, ResultOK
<1> QED  BY <1>1, SpecIInv, PTL

\* No command line, however odd, removes another rule than the one it names, and
\* only one that names none makes remove_rule read through NULL.
THEOREM SpecRemovesTheIdGiven == Spec => []RemovesTheIdGiven
<1>1. IInv => RemovesTheIdGiven
  BY DEF IInv, ResultOK
<1> QED  BY <1>1, SpecIInv, PTL

\* An unknown option, a value where an option has none, or a call for help, anywhere
\* on a line of any length, keeps it from changing a rule; words without a dash that
\* nobody knows do not.
THEOREM SpecDoubtfulOptionChangesNothing == Spec => []DoubtfulOptionChangesNothing
<1>1. IInv => DoubtfulOptionChangesNothing
  BY DEF IInv, ResultOK
<1> QED  BY <1>1, SpecIInv, PTL

\* Whatever the numbers and the lengths, snprintf's text fits in the buffer where
\* the rule fits in struct rule, its name in 50 characters and its addresses in 15.
THEOREM SpecOverreadOnlyBeyondFields == Spec => []OverreadOnlyBeyondFields
<1>1. IInv => OverreadOnlyBeyondFields
  BY DEF IInv, ResultOK
<1> QED  BY <1>1, SpecIInv, PTL

=============================================================================
