---------------------------- MODULE IntakeProofs ----------------------------
(***************************************************************************)
(* The intake routes implement IdempotentStore, for any requests, keys,    *)
(* contents and batches.                                                   *)
(*                                                                         *)
(* A key belongs to one row among the committed rows and those a request   *)
(* has inserted (OwnKey), and no two requests have inserted the same key   *)
(* (KeysApart): that is what ON CONFLICT DO NOTHING and its wait give.     *)
(* What a request will answer is true of the rows it sees (CodesTrue), and *)
(* stays true when the current item is rolled back, because no earlier     *)
(* item relied on that item's row (OpenAlone).                             *)
(***************************************************************************)
EXTENDS Intake, SequenceTheorems, TLAPS

OwnKey == \A i \in Requests : \A r, s \in Visible(i) : r.key = s.key => r = s

KeysApart ==
    \A i, j \in Requests : \A r \in req[i].mine, s \in req[j].mine : i # j => r.key # s.key

\* What a code says of an item, in rows S.
TrueOf(i, item, code, S) ==
    /\ code = "accepted" => RowOf(i, item) \in S
    /\ code = "conflict" => \E r \in S : r.key = item.key /\ r.hash # Hash(i, item.content)

CodesTrue ==
    \A i \in Requests :
        /\ Len(req[i].codes) =< Len(req[i].items)
        /\ \A n \in 1 .. Len(req[i].codes) :
               TrueOf(i, req[i].items[n], req[i].codes[n], Visible(i))

OpenAlone ==
    \A i \in Requests : req[i].open =>
        /\ More(i)
        /\ RowOf(i, Current(i)) \in req[i].mine \ stored
        /\ \A n \in 1 .. Len(req[i].codes) :
               req[i].items[n].key = Current(i).key => req[i].codes[n] = "error"

IdleEmpty == \A i \in Requests : Handling(i) \/ req[i].codes = <<>>

Inv == IntakeTypeOK /\ OwnKey /\ KeysApart /\ CodesTrue /\ OpenAlone /\ IdleEmpty

ReqType == [pc : {"none", "busy", "done", "gone"}, items : Batches \cup {<<>>},
            codes : Seq(Codes), mine : SUBSET Rows, open : BOOLEAN]

-----------------------------------------------------------------------------
(* Types. *)

\* The hash of a request is a hash.
LEMMA HashType ==
    ASSUME NEW i \in Requests, NEW c \in Contents
    PROVE  Hash(i, c) \in Hashes
BY DEF Hash, Hashes

\* The row an item would have.
LEMMA RowType ==
    ASSUME NEW i \in Requests, NEW item \in Item
    PROVE  /\ RowOf(i, item) \in Rows
           /\ RowOf(i, item).key = item.key
           /\ RowOf(i, item).hash = Hash(i, item.content)
           /\ \A r \in Rows : r.key = item.key /\ r.hash = Hash(i, item.content)
                              => r = RowOf(i, item)
BY HashType DEF RowOf, Rows, Item

\* The items of a request and their codes.
LEMMA SeqTypes ==
    ASSUME IntakeTypeOK, NEW i \in Requests
    PROVE  req[i].items \in Seq(Item) /\ req[i].codes \in Seq(Codes)
<1>1. req[i].items \in Batches \cup {<<>>} /\ req[i].codes \in Seq(Codes)
  BY DEF IntakeTypeOK
<1>2. <<>> \in Seq(Item)
  OBVIOUS
<1>3. Batches \subseteq Seq(Item)
  BY BatchesAssumption
<1> QED
  BY <1>1, <1>2, <1>3

\* The item being handled.
LEMMA CurrentType ==
    ASSUME IntakeTypeOK, NEW i \in Requests, More(i)
    PROVE  /\ Len(req[i].codes) + 1 \in 1 .. Len(req[i].items)
           /\ Current(i) \in Item
           /\ Current(i) = req[i].items[Len(req[i].codes) + 1]
<1>1. Len(req[i].codes) + 1 \in 1 .. Len(req[i].items)
  BY SeqTypes DEF More
<1> QED
  BY <1>1, SeqTypes, ElementOfSeq DEF Current

-----------------------------------------------------------------------------
(* What the shapes of a step do to req. *)

\* An item is finished with a code.
LEMMA CodeEffect ==
    ASSUME IntakeTypeOK, NEW i \in Requests, NEW code \in Codes, NEW mine \in SUBSET Rows,
           Code(i, code, mine)
    PROVE  /\ req' \in [Requests -> ReqType]
           /\ req'[i].codes = Append(req[i].codes, code)
           /\ req'[i].mine = mine
           /\ ~req'[i].open
           /\ req'[i].items = req[i].items
           /\ req'[i].pc = req[i].pc
           /\ \A j \in Requests \ {i} : req'[j] = req[j]
<1>1. req \in [Requests -> ReqType] /\ req[i] \in ReqType
  BY DEF IntakeTypeOK, ReqType
<1>2. req' = [req EXCEPT ![i] = [req[i] EXCEPT !.codes = Append(req[i].codes, code),
                                               !.mine = mine, !.open = FALSE]]
  BY <1>1 DEF Code, ReqType
<1>3. Append(req[i].codes, code) \in Seq(Codes)
  BY <1>1 DEF ReqType
<1> QED
  BY <1>1, <1>2, <1>3 DEF ReqType

\* A row is inserted.
LEMMA InsertEffect ==
    ASSUME IntakeTypeOK, NEW i \in Requests, InsertRow(i)
    PROVE  /\ req' \in [Requests -> ReqType]
           /\ req'[i].codes = req[i].codes
           /\ req'[i].mine = req[i].mine \cup {RowOf(i, Current(i))}
           /\ req'[i].open
           /\ req'[i].items = req[i].items
           /\ req'[i].pc = req[i].pc
           /\ \A j \in Requests \ {i} : req'[j] = req[j]
<1>1. req \in [Requests -> ReqType] /\ req[i] \in ReqType
  BY DEF IntakeTypeOK, ReqType
<1>2. RowOf(i, Current(i)) \in Rows
  BY CurrentType, RowType DEF InsertRow
<1>3. req' = [req EXCEPT ![i] = [req[i] EXCEPT !.mine = req[i].mine \cup {RowOf(i, Current(i))},
                                               !.open = TRUE]]
  BY <1>1 DEF InsertRow, ReqType
<1> QED
  BY <1>1, <1>2, <1>3 DEF ReqType

\* A request ends.
LEMMA EndsEffect ==
    ASSUME IntakeTypeOK, NEW i \in Requests, NEW pc \in {"done", "gone"}, Ends(i, pc)
    PROVE  /\ req' \in [Requests -> ReqType]
           /\ req'[i].codes = <<>> /\ req'[i].mine = {} /\ ~req'[i].open
           /\ req'[i].items = <<>>
           /\ req'[i].pc = pc
           /\ \A j \in Requests \ {i} : req'[j] = req[j]
<1>1. req \in [Requests -> ReqType] /\ req[i] \in ReqType
  BY DEF IntakeTypeOK, ReqType
<1>2. <<>> \in Seq(Codes)
  OBVIOUS
<1> QED
  BY <1>1, <1>2 DEF Ends, ReqType

-----------------------------------------------------------------------------
(* The invariant. *)

\* An item is finished: the rows of the request may shrink, as long as the codes given so
\* far and the new one are true of what is left.
LEMMA CodeStep ==
    ASSUME Inv, NEW i \in Requests, NEW code \in Codes, NEW mine \in SUBSET req[i].mine,
           More(i), Code(i, code, mine), UNCHANGED <<stored, answers>>,
           \A n \in 1 .. Len(req[i].codes) :
               TrueOf(i, req[i].items[n], req[i].codes[n], stored \cup mine),
           TrueOf(i, Current(i), code, stored \cup mine)
    PROVE  Inv'
<1>1. mine \in SUBSET Rows
  BY DEF Inv, IntakeTypeOK
<1> DEFINE cs == Append(req[i].codes, code)
<1>2. /\ req' \in [Requests -> ReqType]
      /\ req'[i].codes = cs /\ req'[i].mine = mine /\ ~req'[i].open
      /\ req'[i].items = req[i].items /\ req'[i].pc = req[i].pc
      /\ \A j \in Requests \ {i} : req'[j] = req[j]
  BY <1>1, CodeEffect DEF Inv
<1>3. /\ Len(cs) = Len(req[i].codes) + 1
      /\ \A n \in 1 .. Len(req[i].codes) : cs[n] = req[i].codes[n]
      /\ cs[Len(req[i].codes) + 1] = code
      /\ Len(req[i].codes) \in Nat
  <2>1. req[i].codes \in Seq(Codes)
    BY DEF Inv, IntakeTypeOK
  <2> QED
    BY <2>1, AppendProperties
<1>4. IntakeTypeOK'
  BY <1>2 DEF Inv, IntakeTypeOK, ReqType
<1>5. Visible(i)' = stored \cup mine /\ \A j \in Requests \ {i} : Visible(j)' = Visible(j)
  BY <1>2 DEF Visible
<1>6. OwnKey'
  BY <1>5 DEF Inv, OwnKey, Visible
<1>7. KeysApart'
  BY <1>2 DEF Inv, KeysApart
<1>8. CodesTrue'
  <2>1. Len(cs) =< Len(req[i].items)
    BY <1>3, CurrentType DEF Inv
  <2>2. ASSUME NEW n \in 1 .. Len(cs)
        PROVE  TrueOf(i, req[i].items[n], cs[n], stored \cup mine)
    <3>1. CASE n \in 1 .. Len(req[i].codes)
      BY <3>1, <1>3
    <3>2. CASE n = Len(req[i].codes) + 1
      BY <3>2, <1>3, CurrentType DEF Inv
    <3> QED
      BY <3>1, <3>2, <1>3
  <2>3. ASSUME NEW j \in Requests \ {i}
        PROVE  /\ Len(req'[j].codes) =< Len(req'[j].items)
               /\ \A n \in 1 .. Len(req'[j].codes) :
                      TrueOf(j, req'[j].items[n], req'[j].codes[n], Visible(j)')
    BY <1>2, <1>5 DEF Inv, CodesTrue
  <2>4. ASSUME NEW j \in Requests
        PROVE  /\ Len(req'[j].codes) =< Len(req'[j].items)
               /\ \A n \in 1 .. Len(req'[j].codes) :
                      TrueOf(j, req'[j].items[n], req'[j].codes[n], Visible(j)')
    BY <2>1, <2>2, <2>3, <1>2, <1>5
  <2> QED
    BY <2>4 DEF CodesTrue, TrueOf, RowOf, Hash
<1>9. OpenAlone'
  <2>1. ASSUME NEW j \in Requests, req'[j].open
        PROVE  /\ More(j)'
               /\ RowOf(j, Current(j)') \in req'[j].mine \ stored'
               /\ \A n \in 1 .. Len(req'[j].codes) :
                      req'[j].items[n].key = Current(j)'.key => req'[j].codes[n] = "error"
    <3>1. j # i /\ req'[j] = req[j]
      BY <1>2, <2>1
    <3> QED
      BY <3>1, <2>1 DEF Inv, OpenAlone, More, Handling, Current
  <2> QED
    BY <2>1 DEF OpenAlone, RowOf, Hash
<1>10. IdleEmpty'
  BY <1>2 DEF Inv, IdleEmpty, More, Handling
<1> QED
  BY <1>4, <1>6, <1>7, <1>8, <1>9, <1>10 DEF Inv

\* A row is inserted under a key that no visible and no waiting row has.
LEMMA InsertStep ==
    ASSUME Inv, NEW i \in Requests, InsertRow(i)
    PROVE  Inv'
<1> DEFINE new == RowOf(i, Current(i))
<1>1. /\ req' \in [Requests -> ReqType]
      /\ req'[i].codes = req[i].codes /\ req'[i].mine = req[i].mine \cup {new}
      /\ req'[i].open
      /\ req'[i].items = req[i].items /\ req'[i].pc = req[i].pc
      /\ \A j \in Requests \ {i} : req'[j] = req[j]
  BY InsertEffect DEF Inv
<1>2. /\ More(i) /\ ~req[i].open /\ stored' = stored /\ answers' = answers
      /\ \A r \in Visible(i) : r.key # Current(i).key
      /\ \A j \in Requests \ {i} : \A r \in req[j].mine : r.key # Current(i).key
  BY DEF InsertRow, KeyIsNew, Waits, WaitsFor, Holding
<1>3. /\ new \in Rows /\ new.key = Current(i).key
      /\ Current(i) \in Item
  BY <1>2, CurrentType, RowType DEF Inv
<1>4. IntakeTypeOK'
  BY <1>1, <1>2 DEF Inv, IntakeTypeOK, ReqType
<1>5. Visible(i)' = Visible(i) \cup {new} /\ \A j \in Requests \ {i} : Visible(j)' = Visible(j)
  BY <1>1, <1>2 DEF Visible
<1>6. OwnKey'
  BY <1>5, <1>2, <1>3 DEF Inv, OwnKey
<1>7. KeysApart'
  BY <1>1, <1>2, <1>3 DEF Inv, KeysApart
<1>8. CodesTrue'
  <2>1. ASSUME NEW j \in Requests
        PROVE  /\ req'[j].codes = req[j].codes /\ req'[j].items = req[j].items
               /\ Visible(j) \subseteq Visible(j)'
    BY <1>1, <1>5
  <2>2. ASSUME NEW j \in Requests
        PROVE  /\ Len(req'[j].codes) =< Len(req'[j].items)
               /\ \A n \in 1 .. Len(req'[j].codes) :
                      TrueOf(j, req'[j].items[n], req'[j].codes[n], Visible(j)')
    BY <2>1, ZenonT(60) DEF Inv, CodesTrue, TrueOf
  <2> QED
    BY <2>2 DEF CodesTrue, TrueOf, RowOf, Hash
<1>9. OpenAlone'
  <2>1. ASSUME NEW j \in Requests \ {i}, req'[j].open
        PROVE  /\ More(j)'
               /\ RowOf(j, Current(j)') \in req'[j].mine \ stored'
               /\ \A n \in 1 .. Len(req'[j].codes) :
                      req'[j].items[n].key = Current(j)'.key => req'[j].codes[n] = "error"
    BY <1>1, <1>2, <2>1, SMTT(40) DEF Inv, OpenAlone, More, Handling, Current
  <2>2. More(i)' /\ Current(i)' = Current(i)
    BY <1>1, <1>2 DEF More, Handling, Current
  <2>3. new \in req'[i].mine \ stored'
    BY <1>1, <1>2, <1>3 DEF Visible
  <2>4. ASSUME NEW n \in 1 .. Len(req[i].codes), req[i].items[n].key = Current(i).key
        PROVE  req[i].codes[n] = "error"
    <3>1. req[i].codes[n] \in Codes
      BY ElementOfSeq DEF Inv, IntakeTypeOK
    <3>2. TrueOf(i, req[i].items[n], req[i].codes[n], Visible(i))
      BY DEF Inv, CodesTrue
    <3>3. req[i].items[n] \in Item
      <4>1. req[i].codes \in Seq(Codes) /\ req[i].items \in Seq(Item)
        BY SeqTypes DEF Inv
      <4>2. Len(req[i].codes) =< Len(req[i].items)
        BY DEF Inv, CodesTrue
      <4>3. n \in 1 .. Len(req[i].items)
        BY <4>1, <4>2
      <4> QED
        BY <4>1, <4>3, ElementOfSeq
    <3>4. RowOf(i, req[i].items[n]).key = req[i].items[n].key
      BY <3>3, RowType
    <3> QED
      BY <3>1, <3>2, <3>4, <1>2, <2>4 DEF TrueOf, Codes
  <2>5. /\ More(i)'
        /\ RowOf(i, Current(i)') \in req'[i].mine \ stored'
        /\ \A n \in 1 .. Len(req'[i].codes) :
               req'[i].items[n].key = Current(i)'.key => req'[i].codes[n] = "error"
    BY <2>2, <2>3, <2>4, <1>1
  <2> QED
    BY <2>1, <2>5 DEF OpenAlone, RowOf, Hash
<1>10. IdleEmpty'
  BY <1>1 DEF Inv, IdleEmpty, Handling
<1> QED
  BY <1>4, <1>6, <1>7, <1>8, <1>9, <1>10 DEF Inv

\* A request ends, and the rows it has inserted are committed or dropped.
LEMMA EndStep ==
    ASSUME Inv, NEW i \in Requests, NEW pc \in {"done", "gone"}, Ends(i, pc),
           Handling(i), stored' = stored \/ (~More(i) /\ stored' = stored \cup req[i].mine),
           answers' \subseteq Answers
    PROVE  Inv'
<1>1. /\ req' \in [Requests -> ReqType]
      /\ req'[i].codes = <<>> /\ req'[i].mine = {} /\ ~req'[i].open /\ req'[i].items = <<>>
      /\ \A j \in Requests \ {i} : req'[j] = req[j]
  BY EndsEffect DEF Inv
<1>2. IntakeTypeOK'
  <2>1. stored' \subseteq Rows
    BY DEF Inv, IntakeTypeOK
  <2> QED
    BY <2>1, <1>1 DEF IntakeTypeOK, ReqType
<1>3. stored \subseteq stored' /\ stored' \subseteq stored \cup req[i].mine
  OBVIOUS
<1>4. OwnKey'
  <2>1. ASSUME NEW j \in Requests, NEW r \in Visible(j)', NEW s \in Visible(j)', r.key = s.key
        PROVE  r = s
    <3>1. CASE j = i
      BY <3>1, <2>1, <1>1, <1>3 DEF Inv, OwnKey, Visible
    <3>2. CASE j # i
      <4>1. r \in Visible(i) \cup req[j].mine /\ s \in Visible(i) \cup req[j].mine
        BY <3>2, <1>1, <1>3 DEF Visible
      <4> QED
        BY <4>1, <3>2, <2>1 DEF Inv, OwnKey, KeysApart, Visible
    <3> QED
      BY <3>1, <3>2
  <2> QED
    BY <2>1 DEF OwnKey
<1>5. KeysApart'
  BY <1>1 DEF Inv, KeysApart
<1>6. CodesTrue'
  <2>1. ASSUME NEW j \in Requests \ {i}
        PROVE  /\ req'[j] = req[j] /\ Visible(j) \subseteq Visible(j)'
    BY <1>1, <1>3 DEF Visible
  <2>2. Len(req'[i].codes) = 0 /\ Len(req'[i].items) = 0
    BY <1>1
  <2>3. ASSUME NEW j \in Requests
        PROVE  /\ Len(req'[j].codes) =< Len(req'[j].items)
               /\ \A n \in 1 .. Len(req'[j].codes) :
                      TrueOf(j, req'[j].items[n], req'[j].codes[n], Visible(j)')
    <3>1. CASE j = i
      BY <3>1, <2>2
    <3>2. CASE j # i
      <4>1. req'[j] = req[j] /\ Visible(j) \subseteq Visible(j)'
        BY <3>2, <2>1
      <4>2. /\ Len(req[j].codes) =< Len(req[j].items)
            /\ \A n \in 1 .. Len(req[j].codes) :
                   TrueOf(j, req[j].items[n], req[j].codes[n], Visible(j))
        BY DEF Inv, CodesTrue
      <4>3. ASSUME NEW item, NEW code, TrueOf(j, item, code, Visible(j))
            PROVE  TrueOf(j, item, code, Visible(j)')
        BY <4>1, <4>3 DEF TrueOf
      <4> QED
        BY <4>1, <4>2, <4>3
    <3> QED
      BY <3>1, <3>2
  <2> QED
    BY <2>3 DEF CodesTrue, TrueOf, RowOf, Hash
<1>7. OpenAlone'
  <2>1. ASSUME NEW j \in Requests, req'[j].open
        PROVE  /\ More(j)'
               /\ RowOf(j, Current(j)') \in req'[j].mine \ stored'
               /\ \A n \in 1 .. Len(req'[j].codes) :
                      req'[j].items[n].key = Current(j)'.key => req'[j].codes[n] = "error"
    <3>1. j # i /\ req'[j] = req[j]
      BY <2>1, <1>1
    <3>2. /\ More(j) /\ RowOf(j, Current(j)) \in req[j].mine \ stored
          /\ \A n \in 1 .. Len(req[j].codes) :
                 req[j].items[n].key = Current(j).key => req[j].codes[n] = "error"
      BY <3>1, <2>1 DEF Inv, OpenAlone
    <3>3. RowOf(j, Current(j)) \notin req[i].mine
      BY <3>1, <3>2 DEF Inv, KeysApart
    <3>4. More(j)' /\ Current(j)' = Current(j)
      BY <3>1, <3>2 DEF More, Handling, Current
    <3> QED
      BY <3>1, <3>2, <3>3, <3>4, <1>3
  <2> QED
    BY <2>1 DEF OpenAlone, RowOf, Hash
<1>8. IdleEmpty'
  BY <1>1 DEF Inv, IdleEmpty, Handling
<1> QED
  BY <1>2, <1>4, <1>5, <1>6, <1>7, <1>8 DEF Inv

-----------------------------------------------------------------------------
\* The current item is rolled back to its savepoint, or has written nothing.
LEMMA FailStep ==
    ASSUME Inv, NEW i \in Requests, More(i), ItemFails(i), UNCHANGED <<stored, answers>>
    PROVE  Inv'
<1> DEFINE cur  == RowOf(i, Current(i))
<1> DEFINE mine == IF req[i].open THEN req[i].mine \ {cur} ELSE req[i].mine
<1>1. Code(i, "error", mine)
  BY DEF ItemFails
<1>2. mine \in SUBSET req[i].mine
  OBVIOUS
<1>3. ASSUME NEW n \in 1 .. Len(req[i].codes)
      PROVE  TrueOf(i, req[i].items[n], req[i].codes[n], stored \cup mine)
  <2>1. TrueOf(i, req[i].items[n], req[i].codes[n], Visible(i))
    BY DEF Inv, CodesTrue
  <2>2. CASE ~req[i].open
    BY <2>1, <2>2 DEF Visible
  <2>3. CASE req[i].open
    <3>1. req[i].items[n].key = Current(i).key => req[i].codes[n] = "error"
      BY <2>3 DEF Inv, OpenAlone
    <3>2. cur.key = Current(i).key
      BY RowType, CurrentType DEF Inv
    <3>3. RowOf(i, req[i].items[n]).key = req[i].items[n].key
      BY DEF RowOf
    <3> QED
      BY <2>1, <2>3, <3>1, <3>2, <3>3 DEF TrueOf, Visible
  <2> QED
    BY <2>2, <2>3
<1>4. TrueOf(i, Current(i), "error", stored \cup mine) /\ "error" \in Codes
  BY DEF TrueOf, Codes
<1> QED
  BY <1>1, <1>2, <1>3, <1>4, CodeStep

\* An item is found to be stored, or is complete.
LEMMA KeepStep ==
    ASSUME Inv, NEW i \in Requests, NEW code \in Codes, More(i),
           Code(i, code, req[i].mine), UNCHANGED <<stored, answers>>,
           TrueOf(i, Current(i), code, Visible(i))
    PROVE  Inv'
BY CodeStep DEF Inv, CodesTrue, Visible

\* A request starts.
LEMMA ArriveStep ==
    ASSUME Inv, NEW i \in Requests, Arrive(i)
    PROVE  Inv'
<1>0. PICK items \in Batches : req' = [req EXCEPT ![i].pc = "busy", ![i].items = items]
  BY DEF Arrive
<1>1. req \in [Requests -> ReqType] /\ req[i] \in ReqType
  BY DEF Inv, IntakeTypeOK, ReqType
<1>2. req' = [req EXCEPT ![i] = [req[i] EXCEPT !.pc = "busy", !.items = items]]
  BY <1>0, <1>1 DEF ReqType
<1>3. /\ req' \in [Requests -> ReqType]
      /\ req'[i].pc = "busy" /\ req'[i].items = items
      /\ req'[i].codes = req[i].codes /\ req'[i].mine = req[i].mine
      /\ req'[i].open <=> req[i].open
      /\ \A j \in Requests \ {i} : req'[j] = req[j]
  BY <1>1, <1>2 DEF ReqType
<1>4. /\ stored' = stored /\ answers' = answers
      /\ \A j \in Requests : Visible(j)' = Visible(j) /\ req'[j].mine = req[j].mine
  BY <1>3 DEF Arrive, Visible
<1>5. IntakeTypeOK'
  BY <1>3, <1>4 DEF Inv, IntakeTypeOK, ReqType
<1>6. OwnKey' /\ KeysApart'
  BY <1>4 DEF Inv, OwnKey, KeysApart
<1>7. req[i].codes = <<>> /\ ~req[i].open
  BY DEF Inv, Arrive, IdleEmpty, OpenAlone, More, Handling
<1>8. CodesTrue'
  <2>1. Len(req'[i].codes) = 0 /\ Len(req'[i].items) \in Nat
    <3>1. items \in Seq(Item)
      BY BatchesAssumption
    <3> QED
      BY <3>1, <1>3, <1>7
  <2>2. ASSUME NEW j \in Requests
        PROVE  /\ Len(req'[j].codes) =< Len(req'[j].items)
               /\ \A n \in 1 .. Len(req'[j].codes) :
                      TrueOf(j, req'[j].items[n], req'[j].codes[n], Visible(j)')
    <3>1. CASE j = i
      <4>1. 1 .. Len(req'[j].codes) = {} /\ Len(req'[j].codes) =< Len(req'[j].items)
        BY <3>1, <2>1
      <4> QED
        BY <4>1
    <3>2. CASE j # i
      BY <3>2, <1>3, <1>4 DEF Inv, CodesTrue
    <3> QED
      BY <3>1, <3>2
  <2> QED
    BY <2>2 DEF CodesTrue, TrueOf, RowOf, Hash
<1>9. OpenAlone'
  <2>1. ASSUME NEW j \in Requests, req'[j].open
        PROVE  /\ More(j)'
               /\ RowOf(j, Current(j)') \in req'[j].mine \ stored'
               /\ \A n \in 1 .. Len(req'[j].codes) :
                      req'[j].items[n].key = Current(j)'.key => req'[j].codes[n] = "error"
    <3>1. j # i /\ req'[j] = req[j]
      BY <2>1, <1>3, <1>7
    <3>2. /\ More(j) /\ RowOf(j, Current(j)) \in req[j].mine \ stored
          /\ \A n \in 1 .. Len(req[j].codes) :
                 req[j].items[n].key = Current(j).key => req[j].codes[n] = "error"
      BY <3>1, <2>1 DEF Inv, OpenAlone
    <3>3. More(j)' /\ Current(j)' = Current(j)
      BY <3>1, <3>2 DEF More, Handling, Current
    <3> QED
      BY <3>1, <3>2, <3>3, <1>4
  <2> QED
    BY <2>1 DEF OpenAlone, RowOf, Hash
<1>10. IdleEmpty'
  BY <1>3 DEF Inv, IdleEmpty, Handling
<1> QED
  BY <1>5, <1>6, <1>8, <1>9, <1>10 DEF Inv

\* What a request answers has the form of an answer.
LEMMA AnswerType ==
    ASSUME Inv, NEW i \in Requests, Handling(i), ~More(i), NEW n \in 1 .. Len(req[i].items)
    PROVE  /\ n \in 1 .. Len(req[i].codes)
           /\ req[i].codes[n] \in Codes
           /\ req[i].items[n] \in Item
           /\ \A code \in Codes : Answer(i, n, code) \in Answers
<1>1. /\ Len(req[i].codes) =< Len(req[i].items)
      /\ ~(Len(req[i].codes) < Len(req[i].items))
  BY DEF Inv, CodesTrue, More
<1>2. Len(req[i].codes) = Len(req[i].items)
  BY <1>1, SeqTypes DEF Inv
<1>3. req[i].codes[n] \in Codes /\ req[i].items[n] \in Item
  BY <1>2, SeqTypes, ElementOfSeq DEF Inv
<1> QED
  BY <1>2, <1>3, HashType DEF Answer, Answers, Item

\* The invariant is inductive.
LEMMA InvStep ==
    ASSUME Inv, [IntakeNext]_intakeVars
    PROVE  Inv'
<1>1. CASE UNCHANGED intakeVars
  <2>1. stored' = stored /\ req' = req /\ answers' = answers
    BY <1>1 DEF intakeVars
  <2>2. IntakeTypeOK' /\ IdleEmpty'
    BY <2>1 DEF Inv, IntakeTypeOK, IdleEmpty, Handling
  <2>3. OwnKey' /\ KeysApart'
    BY <2>1 DEF Inv, OwnKey, KeysApart, Visible
  <2>4. CodesTrue'
    BY <2>1 DEF Inv, CodesTrue, TrueOf, Visible, RowOf, Hash
  <2>5. OpenAlone'
    BY <2>1 DEF Inv, OpenAlone, More, Handling, Current, RowOf, Hash
  <2> QED
    BY <2>2, <2>3, <2>4, <2>5 DEF Inv
<1>2. ASSUME NEW i \in Requests, Arrive(i)
      PROVE  Inv'
  BY <1>2, ArriveStep
<1>3. ASSUME NEW i \in Requests, InsertRow(i)
      PROVE  Inv'
  BY <1>3, InsertStep
<1>4. ASSUME NEW i \in Requests, FinishItem(i)
      PROVE  Inv'
  <2>1. TrueOf(i, Current(i), "accepted", Visible(i))
    BY <1>4 DEF FinishItem, Inv, OpenAlone, TrueOf, Visible
  <2> QED
    BY <1>4, <2>1, KeepStep DEF FinishItem, Codes
<1>5. ASSUME NEW i \in Requests, Replay(i)
      PROVE  Inv'
  <2>1. TrueOf(i, Current(i), "accepted", Visible(i))
    BY <1>5 DEF Replay, SameContent, TrueOf
  <2> QED
    BY <1>5, <2>1, KeepStep DEF Replay, Codes
<1>6. ASSUME NEW i \in Requests, Conflict(i)
      PROVE  Inv'
  <2>1. Visible(i) \subseteq Rows
    BY DEF Inv, IntakeTypeOK, Visible
  <2>2. Current(i) \in Item
    BY <1>6, CurrentType DEF Conflict, Inv
  <2>3. TrueOf(i, Current(i), "conflict", Visible(i))
    BY <1>6, <2>1, <2>2, RowType DEF Conflict, SameContent, TrueOf
  <2> QED
    BY <1>6, <2>3, KeepStep DEF Conflict, Codes
<1>7. ASSUME NEW i \in Requests, ItemError(i) \/ DeadlockVictim(i)
      PROVE  Inv'
  <2>1. More(i)
    BY <1>7 DEF ItemError, DeadlockVictim, Deadlocked, WaitsFor
  <2> QED
    BY <1>7, <2>1, FailStep DEF ItemError, DeadlockVictim
<1>8. ASSUME NEW i \in Requests, Commit(i)
      PROVE  Inv'
  <2>1. answers' \subseteq Answers
    BY <1>8, AnswerType DEF Commit, Inv, IntakeTypeOK
  <2> QED
    BY <1>8, <2>1, EndStep DEF Commit
<1>9. ASSUME NEW i \in Requests, CommitFails(i)
      PROVE  Inv'
  <2>1. answers' \subseteq Answers
    BY <1>9, AnswerType DEF CommitFails, FailedCode, Codes, Inv, IntakeTypeOK
  <2> QED
    BY <1>9, <2>1, EndStep DEF CommitFails
<1>10. ASSUME NEW i \in Requests, AnswerLost(i)
       PROVE  Inv'
  BY <1>10, EndStep DEF AnswerLost, Inv, IntakeTypeOK
<1>11. ASSUME NEW i \in Requests, ServerDies(i)
       PROVE  Inv'
  BY <1>11, EndStep DEF ServerDies, Inv, IntakeTypeOK
<1> QED
  BY <1>1, <1>2, <1>3, <1>4, <1>5, <1>6, <1>7, <1>8, <1>9, <1>10, <1>11 DEF IntakeNext, Progress

\* The invariant holds in every state.
LEMMA Invariance == IntakeSpec => []Inv
<1>1. IntakeInit => Inv
  <2> SUFFICES ASSUME IntakeInit
               PROVE  Inv
    OBVIOUS
  <2>1. <<>> \in Seq(Codes) /\ Len(<<>>) = 0
    OBVIOUS
  <2>2. IntakeTypeOK
    BY <2>1 DEF IntakeInit, IntakeTypeOK
  <2>3. OwnKey /\ KeysApart /\ OpenAlone /\ IdleEmpty
    BY DEF IntakeInit, OwnKey, KeysApart, OpenAlone, IdleEmpty, Visible
  <2>4. CodesTrue
    <3>1. ASSUME NEW i \in Requests
          PROVE  1 .. Len(req[i].codes) = {} /\ Len(req[i].codes) =< Len(req[i].items)
      BY <2>1 DEF IntakeInit
    <3> QED
      BY <3>1 DEF CodesTrue
  <2> QED
    BY <2>2, <2>3, <2>4 DEF Inv
<1> QED
  BY <1>1, InvStep, PTL DEF IntakeSpec

-----------------------------------------------------------------------------
(* The theorems. *)

\* Rows, requests and answers keep their types.
THEOREM IntakeTypes == IntakeSpec => []IntakeTypeOK
<1>1. Inv => IntakeTypeOK
  BY DEF Inv
<1> QED
  BY <1>1, Invariance, PTL

\* The rows of the items a request has accepted, and the row it is inserting.
AcceptedRows(i) == {RowOf(i, req[i].items[n]) : n \in Accepted(i)}
OpenRow(i)      == IF req[i].open THEN {RowOf(i, Current(i))} ELSE {}

\* A code is added to the accepted items of a request, and the others are left alone.
LEMMA AcceptedCode ==
    ASSUME Inv, NEW i \in Requests, NEW code \in Codes, NEW mine \in SUBSET Rows,
           More(i), Code(i, code, mine)
    PROVE  /\ AcceptedRows(i)' = AcceptedRows(i) \cup
                                  (IF code = "accepted" THEN {RowOf(i, Current(i))} ELSE {})
           /\ OpenRow(i)' = {} /\ req'[i].mine = mine
           /\ \A j \in Requests \ {i} : req'[j] = req[j]
<1> DEFINE cs == Append(req[i].codes, code)
           m  == Len(req[i].codes)
<1>1. /\ req'[i].codes = cs /\ req'[i].items = req[i].items /\ req'[i].mine = mine
      /\ ~req'[i].open /\ \A j \in Requests \ {i} : req'[j] = req[j]
  BY CodeEffect DEF Inv
<1>2. /\ Len(cs) = m + 1 /\ m \in Nat /\ cs[m + 1] = code
      /\ \A n \in 1 .. m : cs[n] = req[i].codes[n]
  BY SeqTypes, AppendProperties DEF Inv
<1>3. Accepted(i)' = Accepted(i) \cup (IF code = "accepted" THEN {m + 1} ELSE {})
  BY <1>1, <1>2 DEF Accepted
<1>4. Current(i) = req[i].items[m + 1]
  BY DEF Current
<1>5. AcceptedRows(i)' = {RowOf(i, req[i].items[n]) : n \in Accepted(i)'}
  BY <1>1 DEF AcceptedRows, RowOf, Hash
<1> HIDE DEF m, cs
<1> QED
  BY <1>1, <1>3, <1>4, <1>5 DEF AcceptedRows, OpenRow

\* The rows another request commits are none of those request i has inserted or found.
LEMMA AcceptedApart ==
    ASSUME Inv, NEW i \in Requests, NEW j \in Requests, i # j
    PROVE  AcceptedRows(i) \ (stored \cup req[j].mine) = AcceptedRows(i) \ stored
<1>1. ASSUME NEW x \in AcceptedRows(i), x \notin stored
      PROVE  x \notin req[j].mine
  <2>1. PICK n \in Accepted(i) : x = RowOf(i, req[i].items[n])
    BY <1>1 DEF AcceptedRows
  <2>2. x \in Visible(i)
    BY <2>1 DEF Accepted, Inv, CodesTrue, TrueOf
  <2> QED
    BY <2>2, <1>1 DEF Visible, Inv, KeysApart
<1> QED
  BY <1>1

\* Every step keeps the rows of a request accounted for.
LEMMA MineStep ==
    ASSUME Inv, MineAccounted, [IntakeNext]_intakeVars
    PROVE  MineAccounted'
<1> DEFINE Acc(i) == req[i].mine = (AcceptedRows(i) \ stored) \cup OpenRow(i)
<1>1. \A i \in Requests : Acc(i)
  BY DEF MineAccounted, AcceptedRows, OpenRow
<1>2. ASSUME NEW i \in Requests, req'[i] = req[i], stored' = stored
      PROVE  Acc(i)'
  BY <1>1, <1>2 DEF AcceptedRows, OpenRow, Accepted, Current, RowOf, Hash
<1>3. ASSUME NEW i \in Requests, NEW code \in Codes, NEW mine \in SUBSET Rows,
             More(i), Code(i, code, mine), stored' = stored,
             mine = (AcceptedRows(i) \cup
                     (IF code = "accepted" THEN {RowOf(i, Current(i))} ELSE {})) \ stored
      PROVE  \A j \in Requests : Acc(j)'
  BY <1>2, <1>3, AcceptedCode
<1>4. ASSUME NEW i \in Requests, InsertRow(i)
      PROVE  \A j \in Requests : Acc(j)'
  <2>1. /\ req'[i].codes = req[i].codes /\ req'[i].items = req[i].items /\ req'[i].open
        /\ req'[i].mine = req[i].mine \cup {RowOf(i, Current(i))}
        /\ \A j \in Requests \ {i} : req'[j] = req[j]
        /\ ~req[i].open /\ stored' = stored
    BY <1>4, InsertEffect DEF Inv, InsertRow
  <2>2. AcceptedRows(i)' = AcceptedRows(i)
    BY <2>1 DEF AcceptedRows, Accepted, RowOf, Hash
  <2>3. OpenRow(i)' = {RowOf(i, Current(i))} /\ OpenRow(i) = {}
    BY <2>1 DEF OpenRow, Current, RowOf, Hash
  <2> QED
    BY <1>1, <1>2, <2>1, <2>2, <2>3
<1>5. ASSUME NEW i \in Requests, FinishItem(i)
      PROVE  \A j \in Requests : Acc(j)'
  <2>1. RowOf(i, Current(i)) \notin stored /\ OpenRow(i) = {RowOf(i, Current(i))}
    BY <1>5 DEF FinishItem, Inv, OpenAlone, OpenRow
  <2> QED
    BY <1>1, <1>3, <1>5, <2>1 DEF FinishItem, Codes, Inv, IntakeTypeOK
<1>6. ASSUME NEW i \in Requests, Replay(i)
      PROVE  \A j \in Requests : Acc(j)'
  <2>1. RowOf(i, Current(i)) \in stored \cup req[i].mine /\ OpenRow(i) = {}
    BY <1>6 DEF Replay, SameContent, Visible, OpenRow
  <2> QED
    BY <1>1, <1>3, <1>6, <2>1 DEF Replay, Codes, Inv, IntakeTypeOK
<1>7. ASSUME NEW i \in Requests, Conflict(i)
      PROVE  \A j \in Requests : Acc(j)'
  <2>1. OpenRow(i) = {}
    BY <1>7 DEF Conflict, OpenRow
  <2>2. req[i].mine \in SUBSET Rows /\ req[i].mine = AcceptedRows(i) \ stored
    BY <1>1, <2>1 DEF Inv, IntakeTypeOK
  <2> QED
    BY <1>3, <1>7, <2>2 DEF Conflict, Codes
<1>8. ASSUME NEW i \in Requests, ItemError(i) \/ DeadlockVictim(i)
      PROVE  \A j \in Requests : Acc(j)'
  <2> DEFINE cur  == RowOf(i, Current(i))
  <2> DEFINE mine == IF req[i].open THEN req[i].mine \ {cur} ELSE req[i].mine
  <2>1. More(i) /\ stored' = stored /\ Code(i, "error", mine)
    BY <1>8 DEF ItemError, DeadlockVictim, Deadlocked, WaitsFor, ItemFails
  <2>2. mine = AcceptedRows(i) \ stored
    <3>1. CASE req[i].open
      <4>1. ASSUME NEW n \in Accepted(i)
            PROVE  RowOf(i, req[i].items[n]) # cur
        <5>1. req[i].codes[n] # "error" /\ n \in 1 .. Len(req[i].codes)
          BY DEF Accepted
        <5>2. req[i].items[n].key # Current(i).key
          BY <5>1, <3>1 DEF Inv, OpenAlone
        <5> QED
          BY <5>2 DEF RowOf
      <4>2. cur \notin AcceptedRows(i)
        BY <4>1 DEF AcceptedRows
      <4> QED
        BY <1>1, <3>1, <4>2 DEF OpenRow
    <3>2. CASE ~req[i].open
      BY <1>1, <3>2 DEF OpenRow
    <3> QED
      BY <3>1, <3>2
  <2>3. mine \in SUBSET Rows
    BY DEF Inv, IntakeTypeOK
  <2> QED
    BY <1>3, <2>1, <2>2, <2>3 DEF Codes
<1>9. ASSUME NEW i \in Requests, NEW pc \in {"done", "gone"}, Ends(i, pc),
             stored' = stored \/ stored' = stored \cup req[i].mine
      PROVE  \A j \in Requests : Acc(j)'
  <2>1. /\ req'[i].codes = <<>> /\ req'[i].mine = {} /\ ~req'[i].open
        /\ \A j \in Requests \ {i} : req'[j] = req[j]
    BY <1>9, EndsEffect DEF Inv
  <2>2. Acc(i)'
    <3>1. Accepted(i)' = {}
      BY <2>1 DEF Accepted
    <3> QED
      BY <2>1, <3>1 DEF AcceptedRows, OpenRow
  <2>3. ASSUME NEW j \in Requests \ {i}
        PROVE  Acc(j)'
    <3>1. AcceptedRows(j)' = AcceptedRows(j) /\ OpenRow(j)' = OpenRow(j)
      BY <2>1 DEF AcceptedRows, OpenRow, Accepted, Current, RowOf, Hash
    <3> QED
      BY <3>1, <1>1, <1>9, <2>1, AcceptedApart
  <2> QED
    BY <2>2, <2>3
<1>10. ASSUME NEW i \in Requests, Arrive(i)
       PROVE  \A j \in Requests : Acc(j)'
  <2>1. req[i].codes = <<>> /\ ~req[i].open
    BY <1>10 DEF Inv, Arrive, IdleEmpty, OpenAlone, More, Handling
  <2>2. /\ req'[i].codes = req[i].codes /\ req'[i].mine = req[i].mine
        /\ ~req'[i].open
        /\ \A j \in Requests \ {i} : req'[j] = req[j]
        /\ stored' = stored
    BY <1>10, <2>1 DEF Arrive, Inv, IntakeTypeOK
  <2>3. Accepted(i) = {} /\ Accepted(i)' = {}
    BY <2>1, <2>2 DEF Accepted
  <2>4. Acc(i)'
    BY <1>1, <2>1, <2>2, <2>3 DEF AcceptedRows, OpenRow
  <2> QED
    BY <1>2, <2>2, <2>4
<1>11. ASSUME UNCHANGED intakeVars
       PROVE  \A j \in Requests : Acc(j)'
  BY <1>2, <1>11 DEF intakeVars
<1>12. \A j \in Requests : Acc(j)'
  <2> HIDE DEF Acc
  <2> QED
    BY <1>4, <1>5, <1>6, <1>7, <1>8, <1>9, <1>10, <1>11
       DEF IntakeNext, Progress, Commit, CommitFails, AnswerLost, ServerDies
<1> QED
  BY <1>12 DEF MineAccounted, AcceptedRows, OpenRow

\* A request commits the observations it reports as accepted and no others.
THEOREM BatchAccounted == IntakeSpec => []MineAccounted
<1>1. IntakeInit => MineAccounted
  <2> SUFFICES ASSUME IntakeInit, NEW i \in Requests
               PROVE  req[i].mine = (AcceptedRows(i) \ stored) \cup OpenRow(i)
    BY DEF MineAccounted, AcceptedRows, OpenRow
  <2>1. Accepted(i) = {}
    BY DEF IntakeInit, Accepted
  <2> QED
    BY <2>1 DEF IntakeInit, AcceptedRows, OpenRow
<1> QED
  BY <1>1, MineStep, Invariance, PTL DEF IntakeSpec

\* Every step of the routes is a step of the abstract store, or none: the store only grows
\* and has one content per key, and what a committed request answers is true of it.
LEMMA StoreStep ==
    ASSUME Inv, Inv', [IntakeNext]_intakeVars
    PROVE  [Store!StoreNext]_(Store!storeVars)
<1>1. ASSUME NEW i \in Requests, Commit(i)
      PROVE  Store!StoreNext
  <2>1. stored \subseteq stored' /\ stored' \subseteq Rows /\ answers \subseteq answers'
        /\ answers' \subseteq Answers
    BY <1>1 DEF Commit, Inv, IntakeTypeOK
  <2>2. Store!OneContent(stored')
    BY <1>1 DEF Store!OneContent, Inv, OwnKey, Visible, Commit
  <2>3. ASSUME NEW a \in answers' \ answers
        PROVE  Store!Holds(a, stored')
    <3>1. PICK n \in 1 .. Len(req[i].items) : a = Answer(i, n, req[i].codes[n])
      BY <1>1 DEF Commit
    <3>2. TrueOf(i, req[i].items[n], req[i].codes[n], Visible(i)) /\ req[i].items[n] \in Item
      BY <1>1, AnswerType DEF Commit, Inv, CodesTrue
    <3>3. stored' = Visible(i)
      BY <1>1 DEF Commit, Visible
    <3>4. /\ a.key = req[i].items[n].key /\ a.code = req[i].codes[n]
          /\ a.hash = Hash(i, req[i].items[n].content)
      BY <3>1 DEF Answer
    <3> QED
      BY <3>2, <3>3, <3>4, RowType DEF Store!Holds, TrueOf
  <2> QED
    BY <2>1, <2>2, <2>3 DEF Store!StoreNext
<1>2. ASSUME NEW i \in Requests, CommitFails(i)
      PROVE  Store!StoreNext
  <2>1. ASSUME NEW a \in answers' \ answers
        PROVE  a.code = "error"
    BY <1>2 DEF CommitFails, Answer, FailedCode
  <2>2. Store!OneContent(stored')
    BY <1>2 DEF Store!OneContent, Inv, OwnKey, Visible, CommitFails
  <2> QED
    BY <1>2, <2>1, <2>2 DEF Store!StoreNext, Store!Holds, CommitFails, Inv, IntakeTypeOK
<1>3. ASSUME NEW i \in Requests, AnswerLost(i)
      PROVE  Store!StoreNext
  <2>1. Store!OneContent(stored')
    BY <1>3 DEF Store!OneContent, Inv, OwnKey, Visible, AnswerLost
  <2> QED
    BY <1>3, <2>1 DEF Store!StoreNext, AnswerLost, Inv, IntakeTypeOK
<1>4. ASSUME UNCHANGED <<stored, answers>>
      PROVE  [Store!StoreNext]_(Store!storeVars)
  BY <1>4 DEF Store!storeVars
<1> QED
  BY <1>1, <1>2, <1>3, <1>4
     DEF IntakeNext, Progress, Arrive, InsertRow, FinishItem, Replay, Conflict, DeadlockVictim,
         ItemError, ServerDies, intakeVars

\* The routes implement the abstract store, for any requests, keys, contents and batches.
THEOREM IntakeIsIdempotent == IntakeSpec => StoreSpec
<1>1. IntakeInit => Store!StoreInit
  BY DEF IntakeInit, Store!StoreInit
<1> QED
  BY <1>1, Invariance, StoreStep, PTL DEF IntakeSpec, StoreSpec, Store!StoreSpec

-----------------------------------------------------------------------------
(* Replays. *)

\* Who names a session is answered for the hash of the content alone.
Named == \A a \in answers : a.content \notin Sessionless => a.hash = <<a.content, NoRequest>>

\* Every answer ever given still holds of the rows, one content to a key.
AnswersHold == Store!OneContent(stored) /\ (\A a \in answers : Store!Holds(a, stored)) /\ Named

LEMMA AnswersStep ==
    ASSUME Inv, Inv', AnswersHold, [IntakeNext]_intakeVars PROVE AnswersHold'
<1>1. [Store!StoreNext]_(Store!storeVars)
  BY StoreStep
<1>2. Store!OneContent(stored') /\ \A a \in answers' : Store!Holds(a, stored')
  <2>1. CASE UNCHANGED <<stored, answers>>
    BY <2>1 DEF AnswersHold
  <2>2. CASE Store!StoreNext
    <3>1. /\ stored \subseteq stored' /\ Store!OneContent(stored')
          /\ \A a \in answers' \ answers : Store!Holds(a, stored')
      BY <2>2 DEF Store!StoreNext
    <3>2. \A a \in answers : Store!Holds(a, stored')
      BY <3>1 DEF AnswersHold, Store!Holds
    <3> QED
      BY <3>1, <3>2
  <2> QED
    BY <1>1, <2>1, <2>2 DEF Store!storeVars
<1>3. \A i \in Requests : \A n, code :
        Answer(i, n, code).content \notin Sessionless =>
            Answer(i, n, code).hash = <<Answer(i, n, code).content, NoRequest>>
  BY DEF Answer, Hash
<1>4. \A a \in answers' \ answers : \E i \in Requests : \E n, code : a = Answer(i, n, code)
  <2>1. ASSUME NEW i \in Requests, Commit(i) \/ CommitFails(i), NEW a \in answers' \ answers
        PROVE  \E n, code : a = Answer(i, n, code)
    <3>1. \/ \E n \in 1 .. Len(req[i].items) : a = Answer(i, n, req[i].codes[n])
          \/ \E n \in 1 .. Len(req[i].items) : a = Answer(i, n, FailedCode(i, n))
      BY <2>1 DEF Commit, CommitFails
    <3> QED
      BY <3>1
  <2>2. answers' = answers \/ \E i \in Requests : Commit(i) \/ CommitFails(i)
    BY DEF IntakeNext, Progress, Arrive, InsertRow, FinishItem, Replay, Conflict, DeadlockVictim, AnswerLost, ItemError,
           ServerDies, intakeVars
  <2> QED
    BY <2>1, <2>2
<1>5. Named'
  BY <1>3, <1>4 DEF AnswersHold, Named
<1> QED
  BY <1>2, <1>5 DEF AnswersHold

\* What was accepted under a key, if it names its session, is never a conflict when it
\* is sent again, through crashes, lost answers, rollbacks and deadlocks (observations.py:598).
THEOREM ReplaysAccepted == IntakeSpec => []ReplayAccepted
<1>1. IntakeInit => AnswersHold
  BY DEF IntakeInit, AnswersHold, Named, Store!OneContent
<1>2. Inv /\ AnswersHold => ReplayAccepted
  <2> SUFFICES ASSUME Inv, AnswersHold, NEW a \in answers, NEW b \in answers,
                      a.key = b.key, a.content = b.content, a.content \notin Sessionless,
                      a.code = "accepted", b.code = "conflict"
               PROVE  FALSE
    BY DEF ReplayAccepted
  <2>1. a.hash = b.hash
    BY DEF AnswersHold, Named
  <2>2. PICK r \in stored : r.key = a.key /\ r.hash = a.hash
    BY DEF AnswersHold, Store!Holds
  <2>3. PICK s \in stored : s.key = b.key /\ s.hash # b.hash
    BY DEF AnswersHold, Store!Holds
  <2> QED
    BY <2>1, <2>2, <2>3 DEF AnswersHold, Store!OneContent
<1> QED
  BY <1>1, <1>2, AnswersStep, Invariance, PTL DEF IntakeSpec
=============================================================================
