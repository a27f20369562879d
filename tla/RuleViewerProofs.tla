--------------------------- MODULE RuleViewerProofs ---------------------------
(***************************************************************************)
(* Proofs about RuleViewer: what the rows of the window say and stand for, *)
(* for all rules that are typed in, and tables, calls and losses in any    *)
(* number.                                                                 *)
(***************************************************************************)
EXTENDS RuleViewer, SequenceFacts

-----------------------------------------------------------------------------
(***************************************************************************)
(* The inductive invariant.                                                *)
(***************************************************************************)
Structs == {Stored(typed) : typed \in Typed}
RowSet  == {from_raw_data(id, struct) : id \in 0..MaxRules, struct \in Structs}
CallSet == [kind : Kinds, id : -1..MaxRules, next : Typed \cup {NoRule},
            meant : RowSet \cup {NoRule}, stamp : Nat]
Answers == [to : CallSet, rules : Seq(RowSet), stamp : Nat]
Taken   == [row : RowSet \cup {NoRule}, stamp : Nat]

Shapes ==
    /\ table \in Seq(Structs) /\ Len(table) <= MaxRules /\ removals \in Nat /\ others \in 0..MaxOthers
    /\ wire \in Seq(CallSet) /\ queue \in Seq(CallSet) /\ answers \in Seq(Answers) /\ losses \in 0..MaxLosses
    /\ rules \in Seq(RowSet) /\ stamp \in Nat
    /\ opened \in BOOLEAN /\ acts \in 0..MaxActs
    /\ current \in Taken

\* A row that is of the table as it is, in its place.
InTable(row, all) == row.id + 1 \in DOMAIN all /\ row = from_raw_data(row.id, all[row.id + 1])

\* As long as nothing has been removed since, the rows of a listing are the table's.
ListingOK(rows, at, all, gone) ==
    /\ at <= gone
    /\ \A k \in DOMAIN rows : rows[k].id = k - 1 /\ (at = gone => InTable(rows[k], all))

\* So are the row in the dialog and those that are to be deleted.
TakenOK(taken, all, gone) == taken.row # NoRule /\ taken.stamp = gone => InTable(taken.row, all)
CallOK(call, all, gone) ==
    /\ call.stamp <= gone
    /\ call.kind = "list" => call.next = NoRule
    /\ call.kind = "add" => call.next \in Typed
    /\ call.kind = "delete" => call.id = call.meant.id /\ (call.stamp = gone => InTable(call.meant, all))

\* Nothing follows a listing.
Alone(call) == call.kind = "list" => call.next = NoRule

CallsOK ==
    /\ \A k \in DOMAIN wire : CallOK(wire[k], table, removals)
    /\ \A k \in DOMAIN queue : Alone(queue[k])
    /\ \A k \in DOMAIN answers : Alone(answers[k].to)

RowsOK ==
    /\ ListingOK(rules, stamp, table, removals) /\ TakenOK(current, table, removals)
    /\ \A k \in DOMAIN answers : ListingOK(answers[k].rules, answers[k].stamp, table, removals)

\* Listings come back in the order they were made in.
Ordered ==
    /\ current.stamp <= stamp
    /\ \A k \in DOMAIN answers : stamp <= answers[k].stamp
    /\ \A j, k \in DOMAIN answers : j <= k => answers[j].stamp <= answers[k].stamp

IInv == Shapes /\ CallsOK /\ RowsOK /\ Ordered

-----------------------------------------------------------------------------
(***************************************************************************)
(* Rows and calls.                                                         *)
(***************************************************************************)
\* A row has a place in the table, so it is not the dialog's blank one.
LEMMA RowFacts ==
    ASSUME NEW row \in RowSet
    PROVE  row.id \in 0..MaxRules /\ MaxRules \in Nat /\ row # NoRule
<1>1. PICK id \in 0..MaxRules, struct \in Structs : row = from_raw_data(id, struct)
  BY DEF RowSet
<1>2. row.id = id
  BY <1>1 DEF from_raw_data
<1>3. MaxRules \in Nat
  BY RuleViewerAssumption
<1> QED  BY <1>1, <1>2, <1>3 DEF NoRule

\* What the service makes of the table: its rows, one for each rule, in order.
LEMMA ListingFacts ==
    ASSUME Shapes
    PROVE  Listing(table) \in Seq(RowSet) /\ ListingOK(Listing(table), removals, table, removals)
<1>1. /\ Len(table) \in Nat /\ DOMAIN table = 1..Len(table) /\ Len(table) <= MaxRules /\ MaxRules \in Nat
      /\ removals \in Nat
      /\ \A k \in DOMAIN table : table[k] \in Structs
  BY RuleViewerAssumption, LenProperties, ElementOfSeq DEF Shapes
<1>2. CASE Len(table) > DumpCapacity
  <2>1. Listing(table) = <<>>
    BY <1>2 DEF Listing
  <2>2. DOMAIN <<>> = {}
    OBVIOUS
  <2>3. \A k \in DOMAIN Listing(table) : FALSE
    BY <2>1, <2>2
  <2>4. Listing(table) \in Seq(RowSet)
    BY <2>1, EmptySeq
  <2> QED  BY <1>1, <2>3, <2>4 DEF ListingOK
<1>3. CASE ~(Len(table) > DumpCapacity)
  <2> DEFINE rows == [k \in 1..Len(table) |-> from_raw_data(k - 1, table[k])]
  <2>1. Listing(table) = rows
    BY <1>1, <1>3 DEF Listing
  <2>2. \A k \in 1..Len(table) : k - 1 \in 0..MaxRules /\ (k - 1) + 1 = k
    BY <1>1
  <2>3. \A k \in 1..Len(table) : from_raw_data(k - 1, table[k]) \in RowSet
    BY <1>1, <2>2 DEF RowSet
  <2>4. rows \in Seq(RowSet)
    <3>1. rows \in [1..Len(table) -> RowSet]
      BY <2>3
    <3> HIDE DEF rows
    <3> QED  BY <1>1, <3>1, SeqOfFunction
  <2>5. \A k \in 1..Len(table) : rows[k] = from_raw_data(k - 1, table[k]) /\ rows[k].id = k - 1
    BY DEF from_raw_data
  <2>6. DOMAIN rows = 1..Len(table)
    OBVIOUS
  <2> HIDE DEF rows
  <2>7. \A k \in DOMAIN rows : rows[k].id = k - 1 /\ InTable(rows[k], table)
    BY <1>1, <2>2, <2>5, <2>6 DEF InTable
  <2> QED  BY <1>1, <2>1, <2>4, <2>7 DEF ListingOK
<1> QED  BY <1>2, <1>3

\* What of the table may change: rules come to its end, or one goes and is counted.
Moves ==
    \/ removals' = removals /\ \A k \in DOMAIN table : k \in DOMAIN table' /\ table'[k] = table[k]
    \/ removals' = removals + 1

\* A rule stays where it was until one is removed.
LEMMA RowStays ==
    ASSUME NEW row, InTable(row, table), Moves, removals' = removals, removals \in Nat
    PROVE  InTable(row, table')
BY DEF InTable, Moves

\* Rows that were the table's, and are of a time before, are so still or of one.
LEMMA ListingStays ==
    ASSUME NEW rows, NEW at \in Nat, ListingOK(rows, at, table, removals), Moves, removals \in Nat
    PROVE  ListingOK(rows, at, table', removals')
<1>1. CASE removals' = removals
  BY <1>1, RowStays DEF ListingOK
<1>2. CASE removals' = removals + 1
  BY <1>2 DEF ListingOK
<1> QED  BY <1>1, <1>2 DEF Moves

\* So are the rows of calls on their way,
LEMMA CallStays ==
    ASSUME NEW call \in CallSet, CallOK(call, table, removals), Moves, removals \in Nat
    PROVE  CallOK(call, table', removals')
<1>1. call.stamp \in Nat
  BY DEF CallSet
<1>2. CASE removals' = removals
  BY <1>1, <1>2, RowStays DEF CallOK
<1>3. CASE removals' = removals + 1
  BY <1>1, <1>3 DEF CallOK
<1> QED  BY <1>2, <1>3 DEF Moves

\* and the one in the dialog.
LEMMA TakenStays ==
    ASSUME NEW taken \in Taken, TakenOK(taken, table, removals), taken.stamp <= removals, Moves, removals \in Nat
    PROVE  TakenOK(taken, table', removals')
<1>1. taken.stamp \in Nat
  BY DEF Taken
<1>2. CASE removals' = removals
  BY <1>1, <1>2, RowStays DEF TakenOK
<1>3. CASE removals' = removals + 1
  BY <1>1, <1>3 DEF TakenOK
<1> QED  BY <1>2, <1>3 DEF Moves

\* Adding a rule, by whom ever.
LEMMA WithFacts ==
    ASSUME Shapes, NEW rule \in Typed
    PROVE  /\ With(rule) \in Seq(Structs) /\ Len(With(rule)) <= MaxRules /\ ~(Len(With(rule)) < Len(table))
           /\ table' = With(rule) /\ removals' = removals => Moves
<1>1. /\ table \in Seq(Structs) /\ Len(table) \in Nat /\ Len(table) <= MaxRules /\ MaxRules \in Nat
      /\ Stored(rule) \in Structs
  BY RuleViewerAssumption, LenProperties DEF Shapes, Structs
<1>2. CASE Len(table) < MaxRules
  <2>1. With(rule) = Append(table, Stored(rule))
    BY <1>2 DEF With
  <2>2. /\ With(rule) \in Seq(Structs) /\ Len(With(rule)) = Len(table) + 1
        /\ \A k \in DOMAIN table : k \in DOMAIN With(rule) /\ With(rule)[k] = table[k]
    BY <1>1, <2>1, AppendElements
  <2> QED  BY <1>1, <1>2, <2>2 DEF Moves
<1>3. CASE ~(Len(table) < MaxRules)
  BY <1>1, <1>3 DEF With, Moves
<1> QED  BY <1>2, <1>3

\* Removing one.
LEMMA WithoutFacts ==
    ASSUME Shapes, NEW id \in Int
    PROVE  /\ Without(id) \in Seq(Structs) /\ Len(Without(id)) <= MaxRules
           /\ id + 1 \in DOMAIN table => Without(id) = RemoveAt(table, id + 1) /\ Len(Without(id)) < Len(table)
           /\ id + 1 \notin DOMAIN table => Without(id) = table
<1>1. /\ table \in Seq(Structs) /\ Len(table) \in Nat /\ Len(table) <= MaxRules /\ MaxRules \in Nat
      /\ DOMAIN table = 1..Len(table)
  BY RuleViewerAssumption, LenProperties DEF Shapes
<1>2. CASE id + 1 \in DOMAIN table
  <2>1. Without(id) = RemoveAt(table, id + 1)
    BY <1>2 DEF Without
  <2>2. RemoveAt(table, id + 1) \in Seq(Structs) /\ Len(RemoveAt(table, id + 1)) = Len(table) - 1
    BY <1>1, <1>2, RemoveAtProperties
  <2> QED  BY <1>1, <1>2, <2>1, <2>2
<1>3. CASE id + 1 \notin DOMAIN table
  BY <1>1, <1>3 DEF Without
<1> QED  BY <1>2, <1>3

-----------------------------------------------------------------------------
(***************************************************************************)
(* The window.                                                             *)
(***************************************************************************)
GoodCalls(all, rows, gone) == all \in Seq(CallSet) /\ \A k \in DOMAIN all : CallOK(all[k], rows, gone)

\* A good call more on the wire.
LEMMA GoodAppend ==
    ASSUME NEW all, NEW rows, NEW gone, NEW call \in CallSet, GoodCalls(all, rows, gone), CallOK(call, rows, gone)
    PROVE  GoodCalls(Append(all, call), rows, gone)
<1>1. all \in Seq(CallSet) /\ \A k \in DOMAIN all : CallOK(all[k], rows, gone)
  BY DEF GoodCalls
<1>2. /\ Append(all, call) \in Seq(CallSet)
      /\ \A k \in DOMAIN Append(all, call) :
            (k \in DOMAIN all /\ Append(all, call)[k] = all[k]) \/ Append(all, call)[k] = call
  BY <1>1, AppendElements
<1> QED  BY <1>1, <1>2 DEF GoodCalls

\* One less.
LEMMA GoodTail ==
    ASSUME NEW all, NEW rows, NEW gone, GoodCalls(all, rows, gone), all # <<>>
    PROVE  GoodCalls(Tail(all), rows, gone) /\ Head(all) \in CallSet /\ CallOK(Head(all), rows, gone)
<1>1. all \in Seq(CallSet) /\ \A k \in DOMAIN all : CallOK(all[k], rows, gone)
  BY DEF GoodCalls
<1>2. /\ Tail(all) \in Seq(CallSet) /\ 1 \in DOMAIN all /\ Head(all) = all[1] /\ Head(all) \in CallSet
      /\ \A k \in DOMAIN Tail(all) : k + 1 \in DOMAIN all /\ Tail(all)[k] = all[k+1]
  BY <1>1, TailElements
<1> QED  BY <1>1, <1>2 DEF GoodCalls

\* The calls of the window are good ones: a listing,
LEMMA ListCallGood ==
    ASSUME NEW rows, NEW gone \in Nat
    PROVE  ListCall \in CallSet /\ CallOK(ListCall, rows, gone)
<1>1. MaxRules \in Nat
  BY RuleViewerAssumption
<1>2. ListCall = [kind |-> "list", id |-> -1, next |-> NoRule, meant |-> NoRule, stamp |-> 0]
  BY DEF ListCall, Call
<1>3. ListCall \in CallSet
  BY <1>1, <1>2 DEF CallSet, Kinds
<1> QED  BY <1>2, <1>3 DEF CallOK

\* an addition of what was typed,
LEMMA AddCallGood ==
    ASSUME NEW rows, NEW gone \in Nat, NEW typed \in Typed
    PROVE  AddCall(typed) \in CallSet /\ CallOK(AddCall(typed), rows, gone)
<1>1. MaxRules \in Nat
  BY RuleViewerAssumption
<1>2. AddCall(typed) = [kind |-> "add", id |-> -1, next |-> typed, meant |-> NoRule, stamp |-> 0]
  BY DEF AddCall, Call
<1>3. AddCall(typed) \in CallSet
  BY <1>1, <1>2 DEF CallSet, Kinds
<1> QED  BY <1>2, <1>3 DEF CallOK

\* and a deletion of a row, for as long as that row is the table's.
LEMMA DeletionGood ==
    ASSUME NEW rows, NEW gone \in Nat, NEW row \in RowSet, NEW at \in Nat, at <= gone,
           at = gone => InTable(row, rows), NEW next \in Typed \cup {NoRule}
    PROVE  Deletion(row, at, next) \in CallSet /\ CallOK(Deletion(row, at, next), rows, gone)
<1>1. row.id \in -1..MaxRules
  BY RowFacts
<1>2. Deletion(row, at, next) = [kind |-> "delete", id |-> row.id, next |-> next, meant |-> row, stamp |-> at]
  BY DEF Deletion
<1>3. Deletion(row, at, next) \in CallSet
  BY <1>1, <1>2 DEF CallSet, Kinds
<1> QED  BY <1>2, <1>3 DEF CallOK

\* What the operator does: good calls go out, and the dialog takes over good rows.
LEMMA WindowStep ==
    ASSUME IInv, UNCHANGED <<kernel, queue, answers, losses, rules, stamp>>,
           GoodCalls(wire', table, removals),
           opened' \in BOOLEAN, acts' \in 0..MaxActs,
           current' \in Taken, TakenOK(current', table, removals), current'.stamp <= stamp
    PROVE  IInv'
<1>1. UNCHANGED <<table, removals, others, queue, answers, losses, rules, stamp>>
  BY DEF kernel
<1>2. Shapes'
  BY <1>1 DEF IInv, Shapes, GoodCalls
<1>3. CallsOK'
  BY <1>1 DEF IInv, CallsOK, GoodCalls
<1>4. RowsOK' /\ Ordered'
  BY <1>1 DEF IInv, RowsOK, Ordered
<1> QED  BY <1>2, <1>3, <1>4 DEF IInv

\* Every row that is shown has its place and is good while the listing is.
LEMMA ShownRows ==
    ASSUME IInv
    PROVE  /\ GoodCalls(wire, table, removals) /\ removals \in Nat /\ stamp \in Nat /\ stamp <= removals
           /\ current \in Taken /\ current.stamp <= stamp /\ TakenOK(current, table, removals)
           /\ \A filter : \A k \in Rows(filter) :
                rules[k] \in RowSet /\ (stamp = removals => InTable(rules[k], table))
<1>1. /\ rules \in Seq(RowSet) /\ removals \in Nat /\ stamp \in Nat
      /\ wire \in Seq(CallSet) /\ current \in Taken
  BY DEF IInv, Shapes
<1>2. \A k \in DOMAIN rules : rules[k] \in RowSet
  BY <1>1, LenProperties, ElementOfSeq
<1>3. ListingOK(rules, stamp, table, removals) /\ TakenOK(current, table, removals) /\ current.stamp <= stamp
  BY DEF IInv, RowsOK, Ordered
<1>4. GoodCalls(wire, table, removals)
  BY <1>1 DEF IInv, CallsOK, GoodCalls
<1>5. \A filter : \A k \in Rows(filter) : k \in DOMAIN rules
  BY DEF Rows
<1> QED  BY <1>1, <1>2, <1>3, <1>4, <1>5 DEF ListingOK

\* The two entries of a row's menu, the button and the dialog.
LEMMA OperatorSteps ==
    ASSUME IInv, DeleteRow \/ EditRow \/ NewRule \/ Submit \/ Cancel \/ Refresh
    PROVE  IInv'
<1>1. /\ GoodCalls(wire, table, removals) /\ removals \in Nat /\ stamp \in Nat /\ stamp <= removals
      /\ current \in Taken /\ current.stamp <= stamp /\ TakenOK(current, table, removals)
      /\ \A filter : \A k \in Rows(filter) :
           rules[k] \in RowSet /\ (stamp = removals => InTable(rules[k], table))
  BY ShownRows
<1>2. opened \in BOOLEAN /\ acts \in 0..MaxActs /\ MaxActs \in Nat
  BY RuleViewerAssumption DEF IInv, Shapes
<1>3. Act => acts' \in 0..MaxActs
  <2>1. Act => acts < MaxActs /\ acts' = acts + 1
    BY DEF Act
  <2> QED  BY <1>2, <2>1
<1>4. ListCall \in CallSet /\ CallOK(ListCall, table, removals)
  BY <1>1, ListCallGood
<1>5. GoodCalls(Append(wire, ListCall), table, removals)
  BY <1>1, <1>4, GoodAppend
<1>6. CASE DeleteRow
  <2>1. PICK filter \in Filters : \E k \in Rows(filter) : wire' = Append(wire, Deletion(rules[k], stamp, NoRule))
    BY <1>6 DEF DeleteRow
  <2>2. PICK k \in Rows(filter) : wire' = Append(wire, Deletion(rules[k], stamp, NoRule))
    BY <2>1
  <2>3. rules[k] \in RowSet /\ (stamp = removals => InTable(rules[k], table))
    BY <1>1
  <2>4. /\ Deletion(rules[k], stamp, NoRule) \in CallSet
        /\ CallOK(Deletion(rules[k], stamp, NoRule), table, removals)
    BY <1>1, <2>3, DeletionGood
  <2>5. GoodCalls(wire', table, removals)
    BY <1>1, <2>2, <2>4, GoodAppend
  <2>6. UNCHANGED <<kernel, queue, answers, losses, rules, stamp, opened, current>> /\ Act
    BY <1>6 DEF DeleteRow
  <2> QED  BY <1>1, <1>2, <1>3, <2>5, <2>6, WindowStep
<1>7. CASE EditRow
  <2>1. PICK filter \in Filters : \E k \in Rows(filter) : current' = [row |-> rules[k], stamp |-> stamp]
    BY <1>7 DEF EditRow
  <2>2. PICK k \in Rows(filter) : current' = [row |-> rules[k], stamp |-> stamp]
    BY <2>1
  <2>3. rules[k] \in RowSet /\ (stamp = removals => InTable(rules[k], table))
    BY <1>1
  <2>4. current' \in Taken /\ TakenOK(current', table, removals) /\ current'.stamp <= stamp
    BY <1>1, <2>2, <2>3 DEF Taken, TakenOK
  <2>5. /\ UNCHANGED <<kernel, queue, answers, losses, rules, stamp>> /\ Act
        /\ opened' = TRUE /\ wire' = Append(wire, ListCall)
    BY <1>7 DEF EditRow
  <2> QED  BY <1>3, <1>5, <2>4, <2>5, WindowStep
<1>8. CASE NewRule
  <2>1. /\ UNCHANGED <<kernel, queue, answers, losses, rules, stamp, current>> /\ Act
        /\ opened' = TRUE /\ wire' = Append(wire, ListCall)
    BY <1>8 DEF NewRule
  <2> QED  BY <1>1, <1>2, <1>3, <1>5, <2>1, WindowStep
<1>9. CASE Submit
  <2>1. PICK typed \in Typed :
            wire' = wire \o <<IF current.row = NoRule THEN AddCall(typed)
                              ELSE Deletion(current.row, current.stamp, typed), ListCall>>
    BY <1>9 DEF Submit
  <2> DEFINE call == IF current.row = NoRule THEN AddCall(typed) ELSE Deletion(current.row, current.stamp, typed)
  <2>2. call \in CallSet /\ CallOK(call, table, removals)
    <3>1. CASE current.row = NoRule
      BY <1>1, <3>1, AddCallGood
    <3>2. CASE current.row # NoRule
      <4>1. /\ current.row \in RowSet /\ current.stamp \in Nat /\ current.stamp <= removals
            /\ current.stamp = removals => InTable(current.row, table)
        BY <1>1, <3>2 DEF Taken, TakenOK
      <4>2. /\ Deletion(current.row, current.stamp, typed) \in CallSet
            /\ CallOK(Deletion(current.row, current.stamp, typed), table, removals)
        BY <1>1, <4>1, DeletionGood
      <4> QED  BY <3>2, <4>2
    <3> QED  BY <3>1, <3>2
  <2>3. wire' = wire \o <<call, ListCall>>
    BY <2>1
  <2> HIDE DEF call
  <2>4. wire' = Append(Append(wire, call), ListCall)
    <3>1. wire \in Seq(CallSet)
      BY <1>1 DEF GoodCalls
    <3> QED  BY <1>4, <2>2, <2>3, <3>1, AppendTwo
  <2>5. GoodCalls(Append(wire, call), table, removals)
    BY <1>1, <2>2, GoodAppend
  <2>6. GoodCalls(wire', table, removals)
    BY <1>4, <2>4, <2>5, GoodAppend
  <2>7. /\ UNCHANGED <<kernel, queue, answers, losses, rules, stamp, current, acts>>
        /\ opened' = FALSE
    BY <1>9 DEF Submit
  <2> QED  BY <1>1, <1>2, <2>6, <2>7, WindowStep
<1>10. CASE Cancel
  <2>1. /\ UNCHANGED <<kernel, queue, answers, losses, rules, stamp, current, acts>>
        /\ opened' = FALSE /\ wire' = Append(wire, ListCall)
    BY <1>10 DEF Cancel
  <2> QED  BY <1>1, <1>2, <1>5, <2>1, WindowStep
<1>11. CASE Refresh
  <2>1. /\ UNCHANGED <<kernel, queue, answers, losses, rules, stamp, opened, current, acts>>
        /\ wire = <<>> /\ wire' = Append(wire, ListCall)
    BY <1>11 DEF Refresh, window
  <2> QED  BY <1>1, <1>2, <1>5, <2>1, WindowStep
<1> QED  BY <1>6, <1>7, <1>8, <1>9, <1>10, <1>11

-----------------------------------------------------------------------------
(***************************************************************************)
(* The table, the service, and what is lost.                               *)
(***************************************************************************)
\* However the table moves: what was good is still so, or of another time.
LEMMA MovesKeep ==
    ASSUME IInv, Moves, removals' \in Nat
    PROVE  /\ GoodCalls(wire, table', removals')
           /\ ListingOK(rules, stamp, table', removals') /\ TakenOK(current, table', removals')
           /\ \A k \in DOMAIN answers : ListingOK(answers[k].rules, answers[k].stamp, table', removals')
<1>1. /\ removals \in Nat /\ stamp \in Nat /\ wire \in Seq(CallSet) /\ answers \in Seq(Answers)
      /\ current \in Taken
  BY DEF IInv, Shapes
<1>2. /\ \A k \in DOMAIN wire : wire[k] \in CallSet
      /\ \A k \in DOMAIN answers : answers[k].stamp \in Nat
  <2>1. \A k \in DOMAIN wire : wire[k] \in CallSet
    BY <1>1, LenProperties, ElementOfSeq
  <2>2. \A k \in DOMAIN answers : answers[k] \in Answers
    BY <1>1, LenProperties, ElementOfSeq
  <2> QED  BY <2>1, <2>2 DEF Answers
<1>3. GoodCalls(wire, table', removals')
  <2>1. \A k \in DOMAIN wire : CallOK(wire[k], table', removals')
    BY <1>1, <1>2, CallStays DEF IInv, CallsOK
  <2> QED  BY <1>1, <2>1 DEF GoodCalls
<1>4. ListingOK(rules, stamp, table', removals')
  BY <1>1, ListingStays DEF IInv, RowsOK
<1>5. TakenOK(current, table', removals')
  <2>1. current.stamp <= removals
    <3>1. current.stamp <= stamp /\ stamp <= removals /\ current.stamp \in Nat
      BY <1>1 DEF IInv, Ordered, RowsOK, ListingOK, Taken
    <3> QED  BY <1>1, <3>1
  <2> QED  BY <1>1, <2>1, TakenStays DEF IInv, RowsOK
<1>6. \A k \in DOMAIN answers : ListingOK(answers[k].rules, answers[k].stamp, table', removals')
  BY <1>1, <1>2, ListingStays DEF IInv, RowsOK
<1> QED  BY <1>3, <1>4, <1>5, <1>6

\* A removal counts, an addition goes to the end.
LEMMA OtherClientStep ==
    ASSUME IInv, OtherClient
    PROVE  IInv'
<1>0. Shapes /\ removals \in Nat /\ others \in 0..MaxOthers /\ MaxOthers \in Nat
  BY RuleViewerAssumption DEF IInv, Shapes
<1>1. /\ others < MaxOthers /\ others' = others + 1
      /\ UNCHANGED <<wire, queue, answers, losses, rules, stamp, opened, current, acts>>
  BY DEF OtherClient, calls, window
<1>2. table' \in Seq(Structs) /\ Len(table') <= MaxRules /\ removals' \in Nat /\ Moves
  <2>1. CASE \E rule \in Typed : table' = With(rule) /\ UNCHANGED removals
    BY <1>0, <2>1, WithFacts
  <2>2. CASE \E k \in DOMAIN table : table' = Without(k - 1) /\ removals' = removals + 1
    <3>1. \A k \in DOMAIN table : k - 1 \in Int
      BY LenProperties DEF IInv, Shapes
    <3> QED  BY <1>0, <2>2, <3>1, WithoutFacts DEF Moves
  <2> QED  BY <2>1, <2>2 DEF OtherClient
<1>3. others' \in 0..MaxOthers
  <2>1. others < MaxOthers /\ others' = others + 1
    BY <1>1
  <2> QED  BY <1>0, <2>1
<1>4. Shapes'
  BY <1>1, <1>2, <1>3 DEF IInv, Shapes
<1>5. CallsOK' /\ RowsOK'
  BY <1>1, <1>2, MovesKeep DEF IInv, CallsOK, RowsOK, GoodCalls
<1>6. Ordered'
  BY <1>1 DEF IInv, Ordered
<1> QED  BY <1>4, <1>5, <1>6 DEF IInv

\* The first answer, and those behind it.
LEMMA AnswersTail ==
    ASSUME IInv, answers # <<>>
    PROVE  /\ Head(answers) = answers[1] /\ 1 \in DOMAIN answers /\ Head(answers) \in Answers
           /\ Tail(answers) \in Seq(Answers)
           /\ \A k \in DOMAIN Tail(answers) : k + 1 \in DOMAIN answers /\ Tail(answers)[k] = answers[k+1]
           /\ \A j, k \in DOMAIN Tail(answers) : j <= k => Tail(answers)[j].stamp <= Tail(answers)[k].stamp
           /\ \A k \in DOMAIN Tail(answers) : Head(answers).stamp <= Tail(answers)[k].stamp
<1>1. answers \in Seq(Answers)
  BY DEF IInv, Shapes
<1>2. /\ Head(answers) = answers[1] /\ 1 \in DOMAIN answers /\ Head(answers) \in Answers
      /\ Tail(answers) \in Seq(Answers)
      /\ \A k \in DOMAIN Tail(answers) : k + 1 \in DOMAIN answers /\ Tail(answers)[k] = answers[k+1]
      /\ DOMAIN Tail(answers) = 1..Len(answers) - 1 /\ Len(answers) \in Nat
  BY <1>1, TailElements, LenProperties
<1>3. \A j, k \in DOMAIN answers : j <= k => answers[j].stamp <= answers[k].stamp
  BY DEF IInv, Ordered
<1>4. \A j, k \in DOMAIN Tail(answers) : j <= k => Tail(answers)[j].stamp <= Tail(answers)[k].stamp
  <2>1. \A j, k \in DOMAIN Tail(answers) : j <= k => j + 1 <= k + 1
    BY <1>2
  <2> QED  BY <1>2, <1>3, <2>1
<1>5. \A k \in DOMAIN Tail(answers) : Head(answers).stamp <= Tail(answers)[k].stamp
  <2>1. \A k \in DOMAIN Tail(answers) : 1 <= k + 1
    BY <1>2
  <2> QED  BY <1>2, <1>3, <2>1
<1> QED  BY <1>2, <1>4, <1>5

\* What is lost is missing at the front.
LEMMA LoseStep ==
    ASSUME IInv, Lose
    PROVE  IInv'
<1>1. /\ losses < MaxLosses /\ losses' = losses + 1 /\ (LoseCall \/ LoseAnswer)
      /\ UNCHANGED <<table, removals, others, queue, rules, stamp, opened, current, acts>>
  BY DEF Lose, kernel, window
<1>2. losses' \in 0..MaxLosses
  <2>1. losses \in 0..MaxLosses /\ MaxLosses \in Nat
    BY RuleViewerAssumption DEF IInv, Shapes
  <2>2. losses < MaxLosses /\ losses' = losses + 1
    BY <1>1
  <2> QED  BY <2>1, <2>2
<1>3. GoodCalls(wire, table, removals)
  BY ShownRows
<1>4. CASE LoseCall
  <2>1. wire # <<>> /\ wire' = Tail(wire) /\ answers' = answers
    BY <1>4 DEF LoseCall
  <2>2. GoodCalls(wire', table, removals)
    BY <1>3, <2>1, GoodTail
  <2>3. Shapes'
    BY <1>1, <1>2, <2>1, <2>2 DEF IInv, Shapes, GoodCalls
  <2>4. CallsOK' /\ RowsOK'
    BY <1>1, <2>1, <2>2 DEF IInv, CallsOK, RowsOK, GoodCalls
  <2>5. Ordered'
    BY <1>1, <2>1 DEF IInv, Ordered
  <2> QED  BY <2>3, <2>4, <2>5 DEF IInv
<1>5. CASE LoseAnswer
  <2>1. answers # <<>> /\ answers' = Tail(answers) /\ wire' = wire
    BY <1>5 DEF LoseAnswer
  <2>2. /\ answers' \in Seq(Answers)
        /\ \A k \in DOMAIN answers' : k + 1 \in DOMAIN answers /\ answers'[k] = answers[k+1]
        /\ \A j, k \in DOMAIN answers' : j <= k => answers'[j].stamp <= answers'[k].stamp
    BY <2>1, AnswersTail
  <2>3. Shapes'
    BY <1>1, <1>2, <2>1, <2>2 DEF IInv, Shapes
  <2>4. CallsOK' /\ RowsOK'
    BY <1>1, <2>1, <2>2 DEF IInv, CallsOK, RowsOK
  <2>5. Ordered'
    BY <1>1, <2>2 DEF IInv, Ordered
  <2> QED  BY <2>3, <2>4, <2>5 DEF IInv
<1> QED  BY <1>1, <1>4, <1>5

\* Nothing is done when a call has resolved, since none resolves to true, and
\* nothing follows a listing.
LEMMA NothingFollows ==
    ASSUME NEW call \in CallSet, Alone(call)
    PROVE  FollowUps(call) = <<>>
<1>1. ResolvesTo(call.kind) # "true"
  BY DEF ResolvesTo, CallSet, Kinds
<1> QED  BY <1>1 DEF FollowUps, Alone

\* A listing that arrives is no older than the one before.
LEMMA DeliverStep ==
    ASSUME IInv, Deliver
    PROVE  IInv'
<1> DEFINE answer == Head(answers)
<1>1. /\ answers # <<>> /\ answers' = Tail(answers) /\ wire' = wire \o FollowUps(answer.to)
      /\ \/ rules' = answer.rules /\ stamp' = answer.stamp
         \/ UNCHANGED <<rules, stamp>>
      /\ UNCHANGED <<table, removals, others, queue, losses, opened, current, acts>>
  BY DEF Deliver, kernel
<1>2. /\ answer = answers[1] /\ 1 \in DOMAIN answers /\ answer \in Answers
      /\ answers' \in Seq(Answers)
      /\ \A k \in DOMAIN answers' : k + 1 \in DOMAIN answers /\ answers'[k] = answers[k+1]
      /\ \A j, k \in DOMAIN answers' : j <= k => answers'[j].stamp <= answers'[k].stamp
      /\ \A k \in DOMAIN answers' : answer.stamp <= answers'[k].stamp
  BY <1>1, AnswersTail
<1> HIDE DEF answer
<1>3. /\ answer.to \in CallSet /\ answer.rules \in Seq(RowSet) /\ answer.stamp \in Nat
      /\ stamp <= answer.stamp /\ ListingOK(answer.rules, answer.stamp, table, removals) /\ Alone(answer.to)
  BY <1>2 DEF IInv, Answers, Ordered, RowsOK, CallsOK
<1>4. wire' = wire
  <2>1. FollowUps(answer.to) = <<>>
    BY <1>3, NothingFollows
  <2>2. wire \in Seq(CallSet)
    BY DEF IInv, Shapes
  <2> QED  BY <1>1, <2>1, <2>2, ConcatEmptySeq
<1>5. Shapes'
  BY <1>1, <1>2, <1>3, <1>4 DEF IInv, Shapes
<1>6. CallsOK' /\ RowsOK'
  BY <1>1, <1>2, <1>3, <1>4 DEF IInv, CallsOK, RowsOK
<1>7. Ordered'
  <2>1. current.stamp \in Nat /\ stamp \in Nat /\ current.stamp <= stamp
    BY DEF IInv, Shapes, Taken, Ordered
  <2>2. current'.stamp <= stamp'
    BY <1>1, <1>3, <2>1
  <2>3. \A k \in DOMAIN answers' : stamp' <= answers'[k].stamp
    BY <1>1, <1>2 DEF IInv, Ordered
  <2> QED  BY <1>1, <1>2, <2>2, <2>3 DEF IInv, Ordered
<1> QED  BY <1>5, <1>6, <1>7 DEF IInv

\* What carrying a call out does to the table.
LEMMA ServedTable ==
    ASSUME IInv, Serve
    PROVE  /\ table' \in Seq(Structs) /\ Len(table') <= MaxRules /\ removals' \in Nat /\ Moves
           /\ Head(wire).kind = "list" => table' = table /\ removals' = removals
<1> DEFINE call == Head(wire)
<1>1. /\ wire # <<>>
      /\ table' = CASE call.kind = "add"    -> With(call.next)
                    [] call.kind = "delete" -> Without(call.id)
                    [] OTHER                -> table
      /\ removals' = IF Len(table') < Len(table) THEN removals + 1 ELSE removals
  BY DEF Serve
<1>2. call \in CallSet /\ CallOK(call, table, removals)
  BY <1>1, ShownRows, GoodTail
<1>3. Shapes /\ removals \in Nat /\ table \in Seq(Structs) /\ Len(table) \in Nat /\ Len(table) <= MaxRules
  BY LenProperties DEF IInv, Shapes
<1> HIDE DEF call
<1>4. CASE call.kind = "add"
  <2>1. call.next \in Typed /\ table' = With(call.next)
    BY <1>1, <1>2, <1>4 DEF CallOK
  <2>2. removals' = removals
    BY <1>1, <1>3, <2>1, WithFacts
  <2> QED  BY <1>3, <1>4, <2>1, <2>2, WithFacts DEF call
<1>5. CASE call.kind = "delete"
  <2>1. call.id \in Int /\ table' = Without(call.id)
    <3>1. call.id \in -1..MaxRules
      BY <1>2 DEF CallSet
    <3> QED  BY <1>1, <1>5, <3>1
  <2>2. CASE call.id + 1 \in DOMAIN table
    <3>1. Len(table') < Len(table) /\ table' \in Seq(Structs) /\ Len(table') <= MaxRules
      BY <1>3, <2>1, <2>2, WithoutFacts
    <3>2. removals' = removals + 1
      BY <1>1, <3>1
    <3> QED  BY <1>3, <1>5, <3>1, <3>2 DEF Moves, call
  <2>3. CASE call.id + 1 \notin DOMAIN table
    <3>1. table' = table
      BY <1>3, <2>1, <2>3, WithoutFacts
    <3>2. removals' = removals
      BY <1>1, <1>3, <3>1
    <3> QED  BY <1>3, <1>5, <3>1, <3>2 DEF Moves, call
  <2> QED  BY <2>2, <2>3
<1>6. CASE call.kind \notin {"add", "delete"}
  <2>1. table' = table
    BY <1>1, <1>6
  <2>2. removals' = removals
    BY <1>1, <1>3, <2>1
  <2> QED  BY <1>3, <2>1, <2>2 DEF Moves
<1> QED  BY <1>4, <1>5, <1>6

\* A listing tells the table as it is when it is made, whoever gets it.
LEMMA ServeStep ==
    ASSUME IInv, Serve
    PROVE  IInv'
<1> DEFINE call   == Head(wire)
           all    == Append(queue, call)
           answer == [to |-> Head(all), rules |-> Listing(table), stamp |-> removals]
<1>1. /\ wire # <<>> /\ wire' = Tail(wire)
      /\ \/ call.kind = "list" /\ queue' = Tail(all) /\ answers' = Append(answers, answer)
         \/ call.kind # "list" /\ queue' = all /\ answers' = answers
      /\ UNCHANGED <<others, losses, rules, stamp, opened, current, acts>>
  BY DEF Serve, Unanswered, window
<1>2. /\ table' \in Seq(Structs) /\ Len(table') <= MaxRules /\ removals' \in Nat /\ Moves
      /\ call.kind = "list" => table' = table /\ removals' = removals
  BY ServedTable
<1>3. /\ GoodCalls(wire, table', removals')
      /\ ListingOK(rules, stamp, table', removals') /\ TakenOK(current, table', removals')
      /\ \A k \in DOMAIN answers : ListingOK(answers[k].rules, answers[k].stamp, table', removals')
  BY <1>2, MovesKeep
<1>4. GoodCalls(wire', table', removals')
  BY <1>1, <1>3, GoodTail
<1>5. call \in CallSet /\ Alone(call)
  BY <1>1, ShownRows, GoodTail DEF CallOK, Alone
<1> HIDE DEF call
<1>6. /\ queue \in Seq(CallSet) /\ answers \in Seq(Answers) /\ removals \in Nat /\ stamp \in Nat
      /\ \A k \in DOMAIN queue : Alone(queue[k])
  BY DEF IInv, Shapes, CallsOK
<1>7. all \in Seq(CallSet) /\ all # <<>> /\ \A k \in DOMAIN all : Alone(all[k])
  <2>1. /\ all \in Seq(CallSet)
        /\ \A k \in DOMAIN all : (k \in DOMAIN queue /\ all[k] = queue[k]) \/ all[k] = call
    BY <1>5, <1>6, AppendElements
  <2>2. all # <<>>
    BY <1>5, <1>6, AppendProperties
  <2> QED  BY <1>5, <1>6, <2>1, <2>2
<1> HIDE DEF all
<1>8. /\ Tail(all) \in Seq(CallSet) /\ Head(all) \in CallSet /\ Alone(Head(all))
      /\ \A k \in DOMAIN Tail(all) : Alone(Tail(all)[k])
  BY <1>7, TailElements
<1>9. queue' \in Seq(CallSet) /\ \A k \in DOMAIN queue' : Alone(queue'[k])
  BY <1>1, <1>7, <1>8
<1>10. /\ answer \in Answers /\ Alone(answer.to) /\ ListingOK(answer.rules, answer.stamp, table, removals)
  BY <1>6, <1>8, ListingFacts DEF IInv, Answers
<1>11. /\ \A k \in DOMAIN answers : stamp <= answers[k].stamp /\ answers[k].stamp <= removals
       /\ \A j, k \in DOMAIN answers : j <= k => answers[j].stamp <= answers[k].stamp
       /\ \A k \in DOMAIN answers : Alone(answers[k].to)
       /\ stamp <= removals /\ DOMAIN answers = 1..Len(answers) /\ Len(answers) \in Nat
  BY <1>6, LenProperties DEF IInv, Ordered, RowsOK, ListingOK, CallsOK
<1>12. answer.stamp = removals
  OBVIOUS
<1> HIDE DEF answer
<1>13. /\ answers' \in Seq(Answers)
       /\ \A k \in DOMAIN answers' : Alone(answers'[k].to) /\ stamp <= answers'[k].stamp
       /\ \A k \in DOMAIN answers' : ListingOK(answers'[k].rules, answers'[k].stamp, table', removals')
       /\ \A j, k \in DOMAIN answers' : j <= k => answers'[j].stamp <= answers'[k].stamp
  <2>1. CASE call.kind # "list"
    <3>1. answers' = answers
      BY <1>1, <2>1
    <3> QED  BY <1>3, <1>6, <1>11, <3>1
  <2>2. CASE call.kind = "list"
    <3>1. answers' = Append(answers, answer) /\ table' = table /\ removals' = removals
      BY <1>1, <1>2, <2>2
    <3>2. /\ answers' \in Seq(Answers)
          /\ \A k \in DOMAIN answers' :
                (k \in DOMAIN answers /\ answers'[k] = answers[k]) \/ (k = Len(answers) + 1 /\ answers'[k] = answer)
      BY <1>6, <1>10, <3>1, AppendElements
    <3>3. \A k \in DOMAIN answers' : Alone(answers'[k].to) /\ stamp <= answers'[k].stamp
      BY <1>10, <1>11, <1>12, <3>2
    <3>4. \A k \in DOMAIN answers' : ListingOK(answers'[k].rules, answers'[k].stamp, table', removals')
      BY <1>3, <1>10, <3>1, <3>2
    <3>5. \A j, k \in DOMAIN answers' : j <= k => answers'[j].stamp <= answers'[k].stamp
      <4>1. removals <= removals
        BY <1>6
      <4>2. ASSUME NEW j \in DOMAIN answers', NEW k \in DOMAIN answers', j <= k
            PROVE  answers'[j].stamp <= answers'[k].stamp
        <5>1. CASE k \in DOMAIN answers /\ answers'[k] = answers[k]
          <6>1. j # Len(answers) + 1
            BY <1>11, <4>2, <5>1
          <6>2. j \in DOMAIN answers /\ answers'[j] = answers[j]
            BY <3>2, <6>1
          <6> QED  BY <1>11, <4>2, <5>1, <6>2
        <5>2. CASE answers'[k] = answer
          BY <1>11, <1>12, <3>2, <4>1, <5>2
        <5> QED  BY <3>2, <5>1, <5>2
      <4> QED  BY <4>2
    <3> QED  BY <3>2, <3>3, <3>4, <3>5
  <2> QED  BY <2>1, <2>2
<1>14. Shapes'
  BY <1>1, <1>2, <1>4, <1>9, <1>13 DEF IInv, Shapes, GoodCalls
<1>15. CallsOK' /\ RowsOK'
  BY <1>1, <1>3, <1>4, <1>9, <1>13 DEF CallsOK, RowsOK, GoodCalls
<1>16. Ordered'
  BY <1>1, <1>13 DEF IInv, Ordered
<1> QED  BY <1>14, <1>15, <1>16 DEF IInv

-----------------------------------------------------------------------------
(***************************************************************************)
(* The theorems.                                                           *)
(***************************************************************************)
\* At first there are no rules, and the window asks for them.
LEMMA InitIInv == Init => IInv
<1> SUFFICES ASSUME Init PROVE IInv
  OBVIOUS
<1>1. /\ table = <<>> /\ removals = 0 /\ others = 0 /\ wire = <<ListCall>> /\ queue = <<>> /\ answers = <<>>
      /\ losses = 0 /\ rules = <<>> /\ stamp = 0 /\ opened = FALSE
      /\ current = [row |-> NoRule, stamp |-> 0] /\ acts = 0
  BY DEF Init
<1>2. {MaxRules, MaxActs, MaxOthers, MaxLosses} \subseteq Nat
  BY RuleViewerAssumption
<1>3. DOMAIN <<>> = {} /\ Len(<<>>) = 0
  OBVIOUS
<1>4. ListCall \in CallSet /\ CallOK(ListCall, table, removals)
  BY <1>1, ListCallGood
<1>5. wire \in Seq(CallSet) /\ \A k \in DOMAIN wire : wire[k] = ListCall
  BY <1>1, <1>4
<1>6. Shapes
  <2>1. current \in Taken
    BY <1>1 DEF Taken
  <2>2. \A S : <<>> \in Seq(S)
    OBVIOUS
  <2>3. others \in 0..MaxOthers /\ losses \in 0..MaxLosses /\ acts \in 0..MaxActs /\ Len(table) <= MaxRules
    BY <1>1, <1>2, <1>3
  <2>4. opened \in BOOLEAN
    BY <1>1
  <2> QED  BY <1>1, <1>5, <2>1, <2>2, <2>3, <2>4 DEF Shapes
<1>7. CallsOK
  BY <1>1, <1>3, <1>4, <1>5 DEF CallsOK
<1>8. RowsOK
  BY <1>1, <1>3 DEF RowsOK, ListingOK, TakenOK
<1>9. Ordered
  BY <1>1, <1>3 DEF Ordered
<1> QED  BY <1>6, <1>7, <1>8, <1>9 DEF IInv

\* Every step of the window, the service or another client keeps the invariant.
LEMMA NextIInv == IInv /\ [Next]_vars => IInv'
<1> SUFFICES ASSUME IInv, [Next]_vars PROVE IInv'
  OBVIOUS
<1>1. CASE UNCHANGED vars
  <2>1. UNCHANGED <<table, removals, others, wire, queue, answers, losses, rules, stamp, opened, current,
                    acts>>
    BY <1>1 DEF vars, kernel, calls, window
  <2>2. Shapes'
    BY <2>1 DEF IInv, Shapes
  <2>3. CallsOK' /\ RowsOK' /\ Ordered'
    BY <2>1 DEF IInv, CallsOK, RowsOK, Ordered
  <2> QED  BY <2>2, <2>3 DEF IInv
<1>2. CASE Serve
  BY <1>2, ServeStep
<1>3. CASE Lose
  BY <1>3, LoseStep
<1>4. CASE OtherClient
  BY <1>4, OtherClientStep
<1>5. CASE Deliver
  BY <1>5, DeliverStep
<1>6. CASE DeleteRow \/ EditRow \/ NewRule \/ Submit \/ Cancel \/ Refresh
  BY <1>6, OperatorSteps
<1> QED  BY <1>1, <1>2, <1>3, <1>4, <1>5, <1>6 DEF Next

\* The inductive invariant holds in every state of every run.
THEOREM SpecIInv == Spec => []IInv
<1> QED  BY InitIInv, NextIInv, PTL DEF Spec

\* The state of the window, the service's queue and the table are what the type
\* invariant says: among others, listings never come back out of order, and a row's
\* id is its place.
THEOREM SpecTypeOK == Spec => []TypeOK
<1>1. ASSUME IInv PROVE TypeOK
  <2>1. \A k \in DOMAIN table : \E typed \in Typed : table[k] = Stored(typed)
    <3>1. \A k \in DOMAIN table : table[k] \in Structs
      BY <1>1, LenProperties, ElementOfSeq DEF IInv, Shapes
    <3> QED  BY <3>1 DEF Structs
  <2>2. \A k \in DOMAIN wire : wire[k].kind \in Kinds /\ wire[k].stamp \in 0..removals
    <3>1. \A k \in DOMAIN wire : wire[k] \in CallSet /\ wire[k].stamp <= removals
      BY <1>1, LenProperties, ElementOfSeq DEF IInv, Shapes, CallsOK, CallOK
    <3>2. \A k \in DOMAIN wire : wire[k].kind \in Kinds /\ wire[k].stamp \in Nat
      BY <3>1 DEF CallSet
    <3>3. removals \in Nat
      BY <1>1 DEF IInv, Shapes
    <3> QED  BY <3>1, <3>2, <3>3
  <2>3. \A k \in DOMAIN queue : queue[k].kind \in Kinds
    <3>1. \A k \in DOMAIN queue : queue[k] \in CallSet
      BY <1>1, LenProperties, ElementOfSeq DEF IInv, Shapes
    <3> QED  BY <3>1 DEF CallSet
  <2>4. \A k \in DOMAIN answers : answers[k].stamp \in stamp..removals
    <3>1. \A k \in DOMAIN answers : answers[k] \in Answers
      BY <1>1, LenProperties, ElementOfSeq DEF IInv, Shapes
    <3>2. \A k \in DOMAIN answers : answers[k].stamp \in Nat
      BY <3>1 DEF Answers
    <3>3. \A k \in DOMAIN answers : stamp <= answers[k].stamp /\ answers[k].stamp <= removals
      BY <1>1 DEF IInv, Ordered, RowsOK, ListingOK
    <3>4. stamp \in Nat /\ removals \in Nat
      BY <1>1 DEF IInv, Shapes
    <3> QED  BY <3>2, <3>3, <3>4
  <2>5. \A k \in DOMAIN rules : rules[k].id = k - 1
    BY <1>1 DEF IInv, RowsOK, ListingOK
  <2>6. stamp \in 0..removals /\ current.stamp \in 0..stamp
    <3>1. stamp \in Nat /\ removals \in Nat /\ current.stamp \in Nat /\ stamp <= removals /\ current.stamp <= stamp
      BY <1>1 DEF IInv, Shapes, Taken, Ordered, RowsOK, ListingOK
    <3> QED  BY <3>1
  <2> QED  BY <1>1, <2>1, <2>2, <2>3, <2>4, <2>5, <2>6 DEF IInv, Shapes, TypeOK
<1> QED  BY <1>1, SpecIInv, PTL

\* What the kernel keeps of a typed rule: texts as far as they fit, the protocol as
\* a byte, and every other field as it is.
LEMMA StoredFields ==
    ASSUME NEW typed \in Typed
    PROVE  /\ Stored(typed).outgoing_packets = typed.outgoingPackets
           /\ Stored(typed).ingoing_packets = typed.ingoingPackets
           /\ Stored(typed).black_list = typed.black /\ Stored(typed).log = typed.log
           /\ Stored(typed).name = Cut[NameSize][typed.name]
           /\ Stored(typed).src_ip = Cut[AddrSize][typed.srcIP]
           /\ Stored(typed).dst_ip = Cut[AddrSize][typed.dstIP]
           /\ Stored(typed).src_port = typed.srcPort /\ Stored(typed).dst_port = typed.dstPort
           /\ Stored(typed).protocol =
                IF typed.protocol \in DOMAIN ProtoNumber THEN ProtoNumber[typed.protocol] ELSE 255
<1> DEFINE attrs == as_attribute(typed)
<1>1. {"name", "outgoingPackets", "ingoingPackets", "black", "protocol", "srcIP", "dstIP", "srcPort", "dstPort",
       "log"} \subseteq DOMAIN typed
  BY RuleViewerAssumption
<1>2. attrs = [typed EXCEPT !.name = Cut[NameSize][@], !.srcIP = Cut[AddrSize][@], !.dstIP = Cut[AddrSize][@],
                            !.protocol = parse_protocol_name(@)]
  BY DEF as_attribute
<1>3. /\ attrs.outgoingPackets = typed.outgoingPackets /\ attrs.ingoingPackets = typed.ingoingPackets
      /\ attrs.black = typed.black /\ attrs.log = typed.log
      /\ attrs.name = Cut[NameSize][typed.name]
      /\ attrs.srcIP = Cut[AddrSize][typed.srcIP] /\ attrs.dstIP = Cut[AddrSize][typed.dstIP]
      /\ attrs.srcPort = typed.srcPort /\ attrs.dstPort = typed.dstPort
      /\ attrs.protocol = parse_protocol_name(typed.protocol)
  BY <1>1, <1>2
<1> HIDE DEF attrs
<1>4. nla_get_u8(parse_protocol_name(typed.protocol)) =
        IF typed.protocol \in DOMAIN ProtoNumber THEN ProtoNumber[typed.protocol] ELSE 255
  <2>1. /\ parse_protocol_name(typed.protocol) \in -1..255
        /\ parse_protocol_name(typed.protocol) =
             IF typed.protocol \in DOMAIN ProtoNumber THEN ProtoNumber[typed.protocol] ELSE -1
        /\ typed.protocol \in DOMAIN ProtoNumber => ProtoNumber[typed.protocol] # -1
    BY ProtoNumberAssumption DEF parse_protocol_name, NoProtocol
  <2>2. \A n \in -1..255 : n % 256 = IF n = -1 THEN 255 ELSE n
    OBVIOUS
  <2>3. nla_get_u8(parse_protocol_name(typed.protocol)) =
          IF parse_protocol_name(typed.protocol) = -1 THEN 255 ELSE parse_protocol_name(typed.protocol)
    BY <2>1, <2>2 DEF nla_get_u8
  <2> QED  BY <2>1, <2>3
<1>5. Stored(typed) = parse_nested_rule(attrs, TRUE)
  BY DEF Stored, attrs
<1> QED  BY <1>3, <1>4, <1>5 DEF parse_nested_rule

\* The name that a protocol's number is given is the one it was typed by, because no
\* number has two.
LEMMA ProtocolRead ==
    ASSUME NEW name \in DOMAIN ProtoNumber
    PROVE  parse_protocol(ProtoNumber[name]) = name
<1>1. \A other \in DOMAIN ProtoNumber : ProtoNumber[other] = ProtoNumber[name] => other = name
  BY ProtoNumberAssumption
<1>2. (CHOOSE other \in DOMAIN ProtoNumber : ProtoNumber[other] = ProtoNumber[name]) = name
  BY <1>1
<1> QED  BY <1>2 DEF parse_protocol

\* The port of a rule comes back as it was, if it is no negative number.
LEMMA PortRead ==
    ASSUME NEW typed \in Typed, NEW port \in {typed.srcPort, typed.dstPort}, port \in Nat
    PROVE  unsigned(port) = port
<1>1. UIntMod \in Nat \ {0} /\ 2 * port < UIntMod
  BY RuleViewerAssumption
<1>2. port < UIntMod
  BY <1>1
<1> QED  BY <1>1, <1>2 DEF unsigned

\* A row of a listing tells of a rule that was typed, wherever it stands.
LEMMA RowTells ==
    ASSUME NEW row \in RowSet
    PROVE  \E typed \in Typed : TellsOf(row, typed)
<1>1. PICK id \in 0..MaxRules, struct \in Structs : row = from_raw_data(id, struct)
  BY DEF RowSet
<1>2. PICK typed \in Typed : struct = Stored(typed)
  BY DEF Structs
<1>3. /\ row.outgoingPackets = typed.outgoingPackets /\ row.ingoingPackets = typed.ingoingPackets
      /\ row.black = typed.black /\ row.log = typed.log
      /\ row.name = Cut[NameSize][typed.name]
      /\ row.srcIP = Cut[AddrSize][typed.srcIP] /\ row.dstIP = Cut[AddrSize][typed.dstIP]
      /\ row.srcPort = unsigned(typed.dstPort) /\ row.dstPort = unsigned(typed.srcPort)
      /\ row.protocol = parse_protocol(Stored(typed).protocol)
  BY <1>1, <1>2, StoredFields DEF from_raw_data
<1>4. typed.protocol \in DOMAIN ProtoNumber => row.protocol = typed.protocol
  BY <1>3, StoredFields, ProtocolRead
<1>5. \A flag \in {"outgoingPackets", "ingoingPackets", "black", "log"} : row[flag] = typed[flag]
  BY <1>3
<1>6. /\ Cut[NameSize][typed.name] = typed.name => row.name = typed.name
      /\ \A addr \in {"srcIP", "dstIP"} :
            Cut[AddrSize][typed[addr]] = typed[addr] => row[addr] = typed[addr]
  BY <1>3
<1>7. {typed.srcPort, typed.dstPort} \subseteq Nat =>
        {row.srcPort, row.dstPort} = {typed.srcPort, typed.dstPort}
  <2> SUFFICES ASSUME {typed.srcPort, typed.dstPort} \subseteq Nat
               PROVE  {row.srcPort, row.dstPort} = {typed.srcPort, typed.dstPort}
    OBVIOUS
  <2>1. unsigned(typed.srcPort) = typed.srcPort /\ unsigned(typed.dstPort) = typed.dstPort
    BY PortRead
  <2> QED  BY <1>3, <2>1
<1> QED  BY <1>4, <1>5, <1>6, <1>7 DEF TellsOf

\* Every row in the window tells of a rule that was typed: its flags, texts that fit
\* in their fields, a protocol known by name, and both ports if neither is negative,
\* though not which port is which.
THEOREM SpecRowsTellOfTyped == Spec => []RowsTellOfTyped
<1>1. ASSUME IInv PROVE RowsTellOfTyped
  <2>1. \A k \in DOMAIN rules : rules[k] \in RowSet
    BY <1>1, LenProperties, ElementOfSeq DEF IInv, Shapes
  <2> QED  BY <2>1, RowTells DEF RowsTellOfTyped
<1> QED  BY <1>1, SpecIInv, PTL

\* Only the service carries calls out: what else moves leaves its queue as it is.
LEMMA OnlyServeQueues ==
    ASSUME IInv, [Next]_vars, NEW call \in CallSet, queue' = Append(queue, call)
    PROVE  Serve
<1>1. queue' # queue
  <2>1. queue \in Seq(CallSet)
    BY DEF IInv, Shapes
  <2>2. Len(Append(queue, call)) = Len(queue) + 1 /\ Len(queue) \in Nat
    BY <2>1, AppendElements, LenProperties
  <2>3. Len(queue) # Len(queue) + 1
    BY <2>2
  <2> QED  BY <2>2, <2>3
<1> QED  BY <1>1 DEF Next, vars, calls, Lose, OtherClient, Deliver, DeleteRow, EditRow, NewRule, Submit,
                     Cancel, Refresh

\* A deletion that is carried out before any removal since its listing removes the
\* rule of the row that was chosen.
THEOREM SpecRemovesTheRowMeant == Spec => RemovesTheRowMeant
<1> DEFINE Removed ==
        wire # <<>> /\ Deletes(Head(wire)) /\ queue' = Append(queue, Head(wire)) =>
            \E k \in DOMAIN table :
                /\ table' = RemoveAt(table, k)
                /\ from_raw_data(Head(wire).meant.id, table[k]) = Head(wire).meant
<1>1. ASSUME IInv, [Next]_vars PROVE Removed
  <2> SUFFICES ASSUME wire # <<>>, Deletes(Head(wire)), queue' = Append(queue, Head(wire))
               PROVE  \E k \in DOMAIN table :
                          /\ table' = RemoveAt(table, k)
                          /\ from_raw_data(Head(wire).meant.id, table[k]) = Head(wire).meant
    OBVIOUS
  <2> DEFINE call == Head(wire)
  <2>1. call \in CallSet /\ CallOK(call, table, removals) /\ call.kind = "delete" /\ call.stamp = removals
    BY <1>1, ShownRows, GoodTail DEF Deletes
  <2>2. Serve
    BY <1>1, <2>1, OnlyServeQueues
  <2>3. table' = Without(call.id)
    BY <2>1, <2>2 DEF Serve
  <2> HIDE DEF call
  <2>4. call.id = call.meant.id /\ InTable(call.meant, table)
    BY <2>1 DEF CallOK
  <2>5. call.id + 1 \in DOMAIN table /\ call.meant = from_raw_data(call.meant.id, table[call.id + 1])
    BY <2>4 DEF InTable
  <2>6. table' = RemoveAt(table, call.id + 1)
    BY <2>3, <2>5 DEF Without
  <2> QED  BY <2>5, <2>6 DEF call
<1>2. IInv /\ [Next]_vars => [Removed]_vars
  BY <1>1
<1> QED  BY <1>2, SpecIInv, PTL DEF Spec, RemovesTheRowMeant
=============================================================================
