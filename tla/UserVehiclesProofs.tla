------------------------- MODULE UserVehiclesProofs -------------------------
(***************************************************************************)
(* The primary vehicle of a garage, for any number of requests and models. *)
(*                                                                         *)
(* The argument: a request that no other has overlapped is the only one    *)
(* under way, so what it has read, and what its first update has cleared,  *)
(* is still so when it writes.  As long as nothing has overlapped every    *)
(* request is such a request, and the flag goes from one vehicle to        *)
(* another through a state where none has it.                              *)
(***************************************************************************)
EXTENDS UserVehicles, FiniteSetTheorems, TLAPS

\* A request under way is about a model, with a row once it was found by it.
Known(r) ==
    /\ r.pc # "idle" => r.model \in Model
    /\ r.pc \in {"update.find", "update.unset", "update.write", "delete.find",
                 "delete.mark", "delete.promote"} => r.model \in Rows
    /\ r.pc \in {"create.unset", "update.unset"} => r.primary

\* What a request has read or cleared is so still.
Current(r) ==
    /\ r.pc = "create.insert" /\ r.primary => Primaries = {}
    /\ r.pc \in {"update.unset", "update.write", "delete.mark"} => r.model \in Active
    /\ r.pc = "update.write" /\ r.primary => Primaries \subseteq {r.model}
    /\ r.pc = "delete.mark" => (r.primary <=> r.model \in Primaries)

\* With no overlap so far, removing the primary vehicle leaves none.
Vacant(r) == "overlap" \notin mishaps /\ r.pc \in {"delete.next", "delete.promote"}
    => Primaries = {}

Local(r) == Known(r) /\ (r.alone => Current(r)) /\ Vacant(r)

OnlyOne == \A h \in Handler : req[h].alone => UnderWay = {h}

AloneInTurn == "overlap" \notin mishaps => \A h \in UnderWay : req[h].alone

IInv == /\ TypeOK /\ OnlyOne /\ AloneInTurn /\ OnePrimaryInTurn
        /\ \A h \in Handler : Local(req[h])

LEMMA InitIInv == Init => IInv
BY NullAssumption
   DEF Init, IInv, TypeOK, Vehicle, Request, Label, Mishap, Idle, OnlyOne,
       AloneInTurn, OnePrimaryInTurn, Local, Known, Current, Vacant,
       Rows, Active, Primaries, UnderWay, At

-----------------------------------------------------------------------------
(* What the updates do to the rows                                         *)

GarageTyped == garage \in [Model -> Vehicle \cup {NoVehicle}]

LEMMA NoVehicleIsNone == \A v \in Vehicle : v # NoVehicle
BY NullAssumption DEF Vehicle

LEMMA RowsHaveVehicles ==
    ASSUME GarageTyped
    PROVE  /\ Rows = {m \in Model : garage[m] \in Vehicle}
           /\ Primaries \subseteq Active /\ Active \subseteq Rows /\ Rows \subseteq Model
BY NoVehicleIsNone DEF GarageTyped, Rows, Active, Primaries

LEMMA SameRows ==
    ASSUME UNCHANGED garage
    PROVE  Rows' = Rows /\ Active' = Active /\ Primaries' = Primaries
BY DEF Rows, Active, Primaries

LEMMA UnsetRows ==
    ASSUME GarageTyped, NEW S \in SUBSET Model, garage' = Unset(S)
    PROVE  /\ GarageTyped'
           /\ Rows' = Rows /\ Active' = Active /\ Primaries' = Primaries \ S
<1>1. \A m \in Rows : garage[m] \in Vehicle
  BY RowsHaveVehicles
<1>2. GarageTyped' /\ Rows' = Rows
  BY <1>1, NoVehicleIsNone DEF GarageTyped, Unset, Rows, Vehicle
<1>3. Active' = Active
  BY <1>1, <1>2 DEF Unset, Active, Vehicle, Rows
<1>4. Primaries' = Primaries \ S
  BY <1>1, <1>3 DEF Unset, Primaries, Active, Vehicle, Rows
<1>5. QED
  BY <1>2, <1>3, <1>4

LEMMA FlaggedRow ==
    ASSUME GarageTyped, NEW m \in Rows, NEW primary \in BOOLEAN,
           garage' = [garage EXCEPT ![m].primary = primary]
    PROVE  /\ GarageTyped'
           /\ Rows' = Rows /\ Active' = Active
           /\ Primaries' = IF primary /\ m \in Active THEN Primaries \cup {m}
                                                     ELSE Primaries \ {m}
<1>1. \A n \in Rows : garage[n] \in Vehicle
  BY RowsHaveVehicles
<1>2. m \in Model /\ garage' = [garage EXCEPT ![m] = [garage[m] EXCEPT !.primary = primary]]
  BY DEF Rows, GarageTyped
<1>3. GarageTyped' /\ Rows' = Rows
  BY <1>1, <1>2, NoVehicleIsNone DEF GarageTyped, Rows, Vehicle
<1>4. Active' = Active
  BY <1>1, <1>2, <1>3 DEF Active, Vehicle, GarageTyped, Rows
<1>5. Primaries' = IF primary /\ m \in Active THEN Primaries \cup {m}
                                              ELSE Primaries \ {m}
  BY <1>1, <1>2, <1>4 DEF Primaries, Active, Vehicle, GarageTyped, Rows
<1>6. QED
  BY <1>3, <1>4, <1>5

LEMMA InsertedRow ==
    ASSUME GarageTyped, NEW m \in Model, m \notin Rows, NEW primary \in BOOLEAN,
           NEW nth \in Nat,
           garage' = [garage EXCEPT ![m] =
               [primary |-> primary, deleted |-> FALSE, nth |-> nth]]
    PROVE  /\ GarageTyped'
           /\ Rows' = Rows \cup {m} /\ Active' = Active \cup {m}
           /\ Primaries' = IF primary THEN Primaries \cup {m} ELSE Primaries
<1>1. [primary |-> primary, deleted |-> FALSE, nth |-> nth] \in Vehicle
  BY DEF Vehicle
<1>2. GarageTyped' /\ Rows' = Rows \cup {m}
  BY <1>1, NoVehicleIsNone DEF GarageTyped, Rows
<1>3. Active' = Active \cup {m}
  BY <1>2 DEF Active, GarageTyped, Rows
<1>4. Primaries' = IF primary THEN Primaries \cup {m} ELSE Primaries
  BY <1>3 DEF Primaries, Active, GarageTyped, Rows
<1>5. QED
  BY <1>2, <1>3, <1>4

LEMMA DeletedRow ==
    ASSUME GarageTyped, NEW m \in Rows,
           garage' = [garage EXCEPT ![m].deleted = TRUE]
    PROVE  /\ GarageTyped'
           /\ Rows' = Rows /\ Active' = Active \ {m} /\ Primaries' = Primaries \ {m}
<1>1. \A n \in Rows : garage[n] \in Vehicle
  BY RowsHaveVehicles
<1>2. m \in Model /\ garage' = [garage EXCEPT ![m] = [garage[m] EXCEPT !.deleted = TRUE]]
  BY DEF Rows, GarageTyped
<1>3. GarageTyped' /\ Rows' = Rows
  BY <1>1, <1>2, NoVehicleIsNone DEF GarageTyped, Rows, Vehicle
<1>4. Active' = Active \ {m}
  BY <1>1, <1>2, <1>3 DEF Active, Vehicle, GarageTyped, Rows
<1>5. Primaries' = Primaries \ {m}
  BY <1>1, <1>2, <1>4 DEF Primaries, Active, Vehicle, GarageTyped, Rows
<1>6. QED
  BY <1>3, <1>4, <1>5

-----------------------------------------------------------------------------
(* The steps                                                               *)

\* While a request is under way no other one is alone: a step of its own has
\* only to keep what concerns itself.
LEMMA StepOfOne ==
    ASSUME IInv, NEW h \in Handler, ~At(h, "idle"), NEW r \in Request,
           req' = [req EXCEPT ![h] = r],
           r.alone => req[h].alone /\ r.pc # "idle",
           req[h].alone /\ r.pc # "idle" => r.alone,
           GarageTyped', Rows \subseteq Rows',
           mishaps' \subseteq Mishap, mishaps \subseteq mishaps',
           Local(r)', OnePrimaryInTurn'
    PROVE  IInv'
<1>1. TypeOK'
  BY DEF IInv, TypeOK, GarageTyped
<1>2. \A g \in Handler : req'[g] = IF g = h THEN r ELSE req[g]
  BY DEF IInv, TypeOK
<1>3. h \in UnderWay /\ UnderWay \ {h} \subseteq UnderWay' /\ UnderWay' \subseteq UnderWay
  BY <1>2 DEF UnderWay, At
<1>4. \A g \in Handler : g # h => ~req[g].alone
  BY <1>3 DEF IInv, OnlyOne
<1>5. "overlap" \notin mishaps => req[h].alone /\ UnderWay = {h}
  BY <1>3 DEF IInv, OnlyOne, AloneInTurn
<1>6. OnlyOne'
  <2> SUFFICES ASSUME NEW g \in Handler, req'[g].alone PROVE UnderWay' = {g}
    BY DEF OnlyOne
  <2>1. g = h /\ r.alone
    BY <1>2, <1>4
  <2>2. UnderWay = {h} /\ r.pc # "idle"
    BY <2>1 DEF IInv, OnlyOne
  <2>3. QED
    BY <1>2, <1>3, <2>1, <2>2 DEF UnderWay, At
<1>7. AloneInTurn'
  <2> SUFFICES ASSUME "overlap" \notin mishaps', NEW g \in UnderWay' PROVE req'[g].alone
    BY DEF AloneInTurn
  <2>1. req[h].alone /\ g = h
    BY <1>3, <1>5
  <2>2. QED
    BY <1>2, <2>1 DEF UnderWay, At
<1>8. ASSUME NEW g \in Handler
      PROVE  Local(req[g])'
  <2>1. CASE g = h
    BY <1>2, <2>1 DEF Local, Known, Current, Vacant
  <2>2. CASE g # h
    <3>1. req'[g] = req[g] /\ ~req[g].alone
      BY <1>2, <1>4, <2>2
    <3>2. Known(req[g])'
      BY <3>1 DEF IInv, Local, Known
    <3>3. Vacant(req[g])'
      <4> SUFFICES ASSUME "overlap" \notin mishaps',
                          req'[g].pc \in {"delete.next", "delete.promote"}
                   PROVE  FALSE
        BY DEF Vacant
      <4>1. g \in UnderWay /\ UnderWay = {h}
        BY <1>5, <3>1 DEF UnderWay, At
      <4>2. QED
        BY <4>1, <2>2
    <3>4. QED
      BY <3>1, <3>2, <3>3 DEF Local
  <2>3. QED
    BY <2>1, <2>2
<1>9. QED
  BY <1>1, <1>6, <1>7, <1>8 DEF IInv

LEMMA ReadStep ==
    ASSUME IInv, NEW h \in Handler, ~At(h, "idle"), NEW r \in Request,
           req' = [req EXCEPT ![h] = r],
           r.alone => req[h].alone /\ r.pc # "idle",
           req[h].alone /\ r.pc # "idle" => r.alone,
           Local(r), UNCHANGED garage,
           mishaps' \subseteq Mishap, mishaps \subseteq mishaps'
    PROVE  IInv'
<1>1. Rows' = Rows /\ Active' = Active /\ Primaries' = Primaries
  BY SameRows
<1>2. GarageTyped' /\ OnePrimaryInTurn'
  BY <1>1 DEF IInv, TypeOK, GarageTyped, OnePrimaryInTurn
<1>3. Local(r)'
  BY <1>1 DEF Local, Known, Current, Vacant
<1>4. QED
  BY <1>1, <1>2, <1>3, StepOfOne

LEMMA FinishStep ==
    ASSUME IInv, NEW h \in Handler, ~At(h, "idle"), Finish(h), UNCHANGED garage,
           mishaps' \subseteq Mishap, mishaps \subseteq mishaps'
    PROVE  IInv'
<1>1. Idle \in Request /\ Local(Idle) /\ Idle.pc = "idle" /\ ~Idle.alone
  BY DEF Idle, Request, Label, Local, Known, Current, Vacant
<1>2. QED
  BY <1>1, ReadStep DEF Finish

LEMMA ArriveStep ==
    ASSUME IInv, NEW h \in Handler, NEW m \in Model, NEW primary \in BOOLEAN,
           NEW label \in {"create.find", "update.find", "delete.find"},
           label # "create.find" => m \in Rows, Arrive(h, label, m, primary)
    PROVE  IInv'
<1>1. Rows' = Rows /\ Active' = Active /\ Primaries' = Primaries
  BY SameRows DEF Arrive
<1>2. TypeOK'
  BY DEF Arrive, IInv, TypeOK, Request, Label, Mishap
<1>3. /\ req'[h].pc = label /\ req'[h].model = m
      /\ req'[h].alone <=> UnderWay = {}
      /\ \A g \in Handler : g # h =>
             /\ req'[g].pc = req[g].pc /\ req'[g].model = req[g].model
             /\ req'[g].primary = req[g].primary /\ ~req'[g].alone
  BY DEF Arrive, IInv, TypeOK, Request
<1>4. UnderWay' = UnderWay \cup {h}
  <2>1. \A g \in Handler : req'[g].pc = IF g = h THEN label ELSE req[g].pc
    BY <1>3
  <2>2. QED
    BY <2>1 DEF UnderWay, At
<1>5. OnlyOne'
  <2> SUFFICES ASSUME NEW g \in Handler, req'[g].alone PROVE UnderWay' = {g}
    BY DEF OnlyOne
  <2>1. g = h /\ UnderWay = {}
    BY <1>3
  <2>2. QED
    BY <1>4, <2>1
<1>6. "overlap" \notin mishaps' => UnderWay = {} /\ "overlap" \notin mishaps
  BY DEF Arrive
<1>7. AloneInTurn'
  <2> SUFFICES ASSUME "overlap" \notin mishaps', NEW g \in UnderWay' PROVE req'[g].alone
    BY DEF AloneInTurn
  <2>1. g = h /\ UnderWay = {}
    BY <1>4, <1>6
  <2>2. QED
    BY <1>3, <2>1
<1>8. OnePrimaryInTurn'
  BY <1>1, <1>6 DEF IInv, OnePrimaryInTurn
<1>9. Local(req[h])'
  BY <1>1, <1>3 DEF Local, Known, Current, Vacant
<1>10. ASSUME NEW g \in Handler, g # h
       PROVE  Local(req[g])'
  <2>1. Known(req[g])'
    BY <1>1, <1>3, <1>10 DEF IInv, Local, Known
  <2>2. Vacant(req[g])'
    BY <1>3, <1>6, <1>10 DEF Vacant, UnderWay, At
  <2>3. QED
    BY <1>3, <1>10, <2>1, <2>2 DEF Local
<1>11. QED
  BY <1>2, <1>5, <1>7, <1>8, <1>9, <1>10 DEF IInv

LEMMA RowsCounted == Cardinality(Rows) \in Nat
<1>1. Rows \subseteq Model
  BY DEF Rows
<1>2. QED
  BY <1>1, HandlerAssumption, FS_Subset, FS_CardinalityType

LEMMA NextIInv == IInv /\ [Next]_vars => IInv'
<1> SUFFICES ASSUME IInv, [Next]_vars PROVE IInv'
  OBVIOUS
<1>0. /\ GarageTyped /\ mishaps \subseteq Mishap
      /\ \A h \in Handler : req[h] \in Request /\ Local(req[h])
  BY DEF IInv, TypeOK, GarageTyped
<1>a. "overlap" \notin mishaps => \A m, n \in Primaries : m = n
  BY DEF IInv, OnePrimaryInTurn
<1>b. ASSUME NEW h \in Handler, ~At(h, "idle"), "overlap" \notin mishaps
      PROVE  req[h].alone
  BY <1>b DEF IInv, AloneInTurn, UnderWay
<1>1. ASSUME NEW h \in Handler, Begin(h)
      PROVE  IInv'
  BY <1>1, ArriveStep DEF Begin, CreateArrives, UpdateArrives, DeleteArrives
<1>2. ASSUME NEW h \in Handler, FindExisting(h)
      PROVE  IInv'
  <2>1. CASE req[h].model \notin Active
    <3> DEFINE r == [req[h] EXCEPT !.pc = "create.count"]
    <3>1. r \in Request /\ Local(r) /\ req' = [req EXCEPT ![h] = r]
          /\ r.alone = req[h].alone /\ r.pc # "idle" /\ UNCHANGED <<garage, mishaps>>
      BY <1>0, <1>2, <2>1 DEF FindExisting, Read, Goto, At, Request, Label, Local,
                              Known, Current, Vacant
    <3>2. QED
      BY <1>0, <1>2, <3>1, ReadStep DEF FindExisting, At
  <2>2. CASE req[h].model \in Active
    BY <1>0, <1>2, <2>2, FinishStep DEF FindExisting, Read, At
  <2>3. QED
    BY <2>1, <2>2
<1>3. ASSUME NEW h \in Handler, CountVehicles(h)
      PROVE  IInv'
  <2> DEFINE primary == Active = {} \/ req[h].primary
             r == [req[h] EXCEPT !.primary = primary,
                       !.pc = IF primary THEN "create.unset" ELSE "create.insert"]
  <2>1. r \in Request /\ Local(r) /\ r.alone = req[h].alone /\ r.pc # "idle"
    BY <1>0, <1>3 DEF CountVehicles, At, Request, Label, Local, Known, Current, Vacant
  <2>2. req' = [req EXCEPT ![h] = r] /\ UNCHANGED <<garage, mishaps>>
    BY <1>3 DEF CountVehicles, IInv, TypeOK, Request
  <2>3. QED
    BY <1>0, <1>3, <2>1, <2>2, ReadStep DEF CountVehicles, At
<1>4. ASSUME NEW h \in Handler, UnsetForCreate(h)
      PROVE  IInv'
  <2>0. PICK r : r = [req[h] EXCEPT !.pc = "create.insert"]
    OBVIOUS
  <2>1. GarageTyped' /\ Rows' = Rows /\ Active' = Active /\ Primaries' = {}
    BY <1>0, <1>4, UnsetRows, RowsHaveVehicles DEF UnsetForCreate
  <2>2. r \in Request /\ r.alone = req[h].alone /\ r.pc # "idle" /\ Local(r)'
    BY <1>0, <1>4, <2>0, <2>1 DEF UnsetForCreate, At, Request, Label, Local, Known,
                            Current, Vacant
  <2>3. OnePrimaryInTurn'
    BY <2>1 DEF OnePrimaryInTurn
  <2>4. QED
    <3>1. req' = [req EXCEPT ![h] = r] /\ UNCHANGED mishaps /\ ~At(h, "idle")
      BY <1>4, <2>0 DEF UnsetForCreate, Goto, At, IInv, TypeOK, Request
    <3>2. QED
      BY <1>0, <2>1, <2>2, <2>3, <3>1, StepOfOne
<1>5. ASSUME NEW h \in Handler, InsertVehicle(h)
      PROVE  IInv'
  <2> DEFINE m == req[h].model
  <2>1. /\ m \in Model \ Rows /\ req[h].primary \in BOOLEAN
        /\ ~At(h, "idle") /\ UNCHANGED mishaps
    BY <1>0, <1>5 DEF InsertVehicle, At, Local, Known, Request
  <2>2. /\ GarageTyped' /\ Rows' = Rows \cup {m}
        /\ Primaries' = IF req[h].primary THEN Primaries \cup {m} ELSE Primaries
    BY <1>0, <1>5, <2>1, InsertedRow, RowsCounted DEF InsertVehicle
  <2>3. Idle \in Request /\ ~Idle.alone /\ Idle.pc = "idle" /\ Local(Idle)'
    BY DEF Idle, Request, Label, Local, Known, Current, Vacant
  <2>4. OnePrimaryInTurn'
    BY <1>0, <1>a, <1>b, <1>5, <2>1, <2>2
       DEF OnePrimaryInTurn, Local, Current, InsertVehicle, At
  <2>5. QED
    BY <1>0, <1>5, <2>1, <2>2, <2>3, <2>4, StepOfOne DEF InsertVehicle, Finish
<1>6. ASSUME NEW h \in Handler, InsertRefused(h) \/ Fail(h)
      PROVE  IInv'
  BY <1>0, <1>6, FinishStep DEF InsertRefused, Fail, At, Mishap
<1>7. ASSUME NEW h \in Handler, FindUpdated(h)
      PROVE  IInv'
  <2>1. CASE req[h].model \in Active
    <3> DEFINE r == [req[h] EXCEPT !.pc =
                         IF req[h].primary THEN "update.unset" ELSE "update.write"]
    <3>1. r \in Request /\ Local(r) /\ req' = [req EXCEPT ![h] = r]
          /\ r.alone = req[h].alone /\ r.pc # "idle" /\ UNCHANGED <<garage, mishaps>>
      BY <1>0, <1>7, <2>1 DEF FindUpdated, Read, Goto, At, Request, Label, Local,
                              Known, Current, Vacant
    <3>2. QED
      BY <1>0, <1>7, <3>1, ReadStep DEF FindUpdated, At
  <2>2. CASE req[h].model \notin Active
    BY <1>0, <1>7, <2>2, FinishStep DEF FindUpdated, Read, At
  <2>3. QED
    BY <2>1, <2>2
<1>8. ASSUME NEW h \in Handler, UnsetForUpdate(h)
      PROVE  IInv'
  <2>0. PICK r : r = [req[h] EXCEPT !.pc = "update.write"]
    OBVIOUS
  <2>1. /\ GarageTyped' /\ Rows' = Rows /\ Active' = Active
        /\ Primaries' = Primaries \ (Model \ {req[h].model})
    BY <1>0, <1>8, UnsetRows DEF UnsetForUpdate
  <2>2. Primaries' \subseteq Primaries /\ Primaries' \subseteq {req[h].model}
    BY <1>0, <2>1, RowsHaveVehicles
  <2>3. r \in Request /\ r.alone = req[h].alone /\ r.pc # "idle" /\ Local(r)'
    BY <1>0, <1>8, <2>0, <2>1, <2>2 DEF UnsetForUpdate, At, Request, Label, Local, Known,
                                  Current, Vacant
  <2>4. OnePrimaryInTurn'
    BY <2>2 DEF OnePrimaryInTurn
  <2>5. QED
    <3>1. req' = [req EXCEPT ![h] = r] /\ UNCHANGED mishaps /\ ~At(h, "idle")
      BY <1>8, <2>0 DEF UnsetForUpdate, Goto, At, IInv, TypeOK, Request
    <3>2. QED
      BY <1>0, <2>1, <2>3, <2>4, <3>1, StepOfOne
<1>9. ASSUME NEW h \in Handler, WriteUpdate(h)
      PROVE  IInv'
  <2> DEFINE m == req[h].model
  <2>1. /\ m \in Rows /\ req[h].primary \in BOOLEAN /\ ~At(h, "idle")
        /\ mishaps' \subseteq Mishap /\ mishaps \subseteq mishaps'
        /\ "overlap" \notin mishaps' => "overlap" \notin mishaps
    BY <1>0, <1>9 DEF WriteUpdate, At, Local, Known, Request, Mishap
  <2>2. /\ GarageTyped' /\ Rows' = Rows
        /\ Primaries' = IF req[h].primary /\ m \in Active THEN Primaries \cup {m}
                                                          ELSE Primaries \ {m}
    BY <1>0, <1>9, <2>1, FlaggedRow DEF WriteUpdate
  <2>3. Idle \in Request /\ ~Idle.alone /\ Idle.pc = "idle" /\ Local(Idle)'
    BY DEF Idle, Request, Label, Local, Known, Current, Vacant
  <2>4. OnePrimaryInTurn'
    BY <1>0, <1>a, <1>b, <1>9, <2>1, <2>2
       DEF OnePrimaryInTurn, Local, Current, WriteUpdate, At
  <2>5. QED
    BY <1>0, <1>9, <2>1, <2>2, <2>3, <2>4, StepOfOne DEF WriteUpdate, Finish
<1>10. ASSUME NEW h \in Handler, FindDeleted(h)
       PROVE  IInv'
  <2>1. CASE req[h].model \in Active
    <3> DEFINE r == [req[h] EXCEPT !.pc = "delete.mark",
                                   !.primary = garage[req[h].model].primary]
    <3>1. garage[req[h].model] \in Vehicle
      BY <1>0, <2>1, RowsHaveVehicles
    <3>2. r \in Request /\ Local(r) /\ r.alone = req[h].alone /\ r.pc # "idle"
      BY <1>0, <1>10, <2>1, <3>1 DEF FindDeleted, At, Request, Label, Vehicle, Local,
                                     Known, Current, Vacant, Primaries
    <3>3. req' = [req EXCEPT ![h] = r] /\ UNCHANGED <<garage, mishaps>>
      BY <1>10, <2>1 DEF FindDeleted, IInv, TypeOK, Request
    <3>4. QED
      BY <1>0, <1>10, <3>2, <3>3, ReadStep DEF FindDeleted, At
  <2>2. CASE req[h].model \notin Active
    BY <1>0, <1>10, <2>2, FinishStep DEF FindDeleted, At
  <2>3. QED
    BY <2>1, <2>2
<1>11. ASSUME NEW h \in Handler, MarkDeleted(h)
       PROVE  IInv'
  <2> DEFINE m == req[h].model
  <2>0. PICK r : r = IF req[h].primary THEN [req[h] EXCEPT !.pc = "delete.next"] ELSE Idle
    OBVIOUS
  <2>1. m \in Rows /\ ~At(h, "idle") /\ req[h] \in Request /\ UNCHANGED mishaps
    BY <1>0, <1>11 DEF MarkDeleted, At, Local, Known
  <2>2. GarageTyped' /\ Rows' = Rows /\ Active' = Active \ {m} /\ Primaries' = Primaries \ {m}
    BY <1>0, <1>11, <2>1, DeletedRow DEF MarkDeleted
  <2>3. r \in Request /\ (r.alone => req[h].alone /\ r.pc # "idle")
        /\ (req[h].alone /\ r.pc # "idle" => r.alone) /\ req' = [req EXCEPT ![h] = r]
    BY <1>11, <2>0, <2>1 DEF MarkDeleted, Goto, Finish, Idle, Request, Label
  <2>4. Vacant(r)'
    <3> SUFFICES ASSUME "overlap" \notin mishaps, req[h].primary PROVE Primaries' = {}
      BY <2>0, <2>1 DEF Vacant, Idle
    <3>1. m \in Primaries
      BY <1>0, <1>b, <1>11, <2>1 DEF MarkDeleted, At, Local, Current
    <3>2. QED
      BY <1>a, <2>2, <3>1
  <2>5. Known(r)' /\ Current(r)'
    BY <2>0, <2>1, <2>2, <1>0 DEF Known, Current, Idle, Local, Request, At
  <2>6. OnePrimaryInTurn'
    BY <1>a, <2>1, <2>2 DEF OnePrimaryInTurn
  <2>7. QED
    <3>1. Local(r)'
      BY <2>4, <2>5 DEF Local
    <3>2. QED
      BY <1>0, <2>1, <2>2, <2>3, <2>6, <3>1, StepOfOne
<1>12. ASSUME NEW h \in Handler, FindNext(h)
       PROVE  IInv'
  <2>1. CASE Active = {}
    BY <1>0, <1>12, <2>1, FinishStep DEF FindNext, At
  <2>2. CASE Active # {}
    <3>1. PICK m \in Active :
              req' = [req EXCEPT ![h].pc = "delete.promote", ![h].model = m]
      BY <1>12, <2>2 DEF FindNext
    <3> DEFINE r == [req[h] EXCEPT !.pc = "delete.promote", !.model = m]
    <3>2. m \in Rows /\ m \in Model
      BY <1>0, RowsHaveVehicles
    <3>3. r \in Request /\ Local(r) /\ r.alone = req[h].alone /\ r.pc # "idle"
      BY <1>0, <1>12, <3>2 DEF FindNext, At, Request, Label, Local, Known, Current,
                               Vacant
    <3>4. req' = [req EXCEPT ![h] = r] /\ UNCHANGED <<garage, mishaps>>
      BY <1>12, <3>1 DEF FindNext, IInv, TypeOK, Request
    <3>5. QED
      BY <1>0, <1>12, <3>3, <3>4, ReadStep DEF FindNext, At
  <2>3. QED
    BY <2>1, <2>2
<1>13. ASSUME NEW h \in Handler, PromoteNext(h)
       PROVE  IInv'
  <2> DEFINE m == req[h].model
  <2>1. m \in Rows /\ ~At(h, "idle") /\ UNCHANGED mishaps
    BY <1>0, <1>13 DEF PromoteNext, At, Local, Known
  <2>2. /\ GarageTyped' /\ Rows' = Rows
        /\ Primaries' \subseteq Primaries \cup {m}
    BY <1>0, <1>13, <2>1, FlaggedRow DEF PromoteNext
  <2>3. Idle \in Request /\ ~Idle.alone /\ Idle.pc = "idle" /\ Local(Idle)'
    BY DEF Idle, Request, Label, Local, Known, Current, Vacant
  <2>4. OnePrimaryInTurn'
    BY <1>0, <1>13, <2>1, <2>2 DEF OnePrimaryInTurn, Local, Vacant, PromoteNext, At
  <2>5. QED
    BY <1>0, <1>13, <2>1, <2>2, <2>3, <2>4, StepOfOne DEF PromoteNext, Finish
<1>14. CASE UNCHANGED vars
  <2>1. Rows' = Rows /\ Active' = Active /\ Primaries' = Primaries
    BY <1>14, SameRows DEF vars
  <2>2. QED
    BY <1>14, <2>1 DEF vars, IInv, TypeOK, OnlyOne, AloneInTurn, OnePrimaryInTurn,
                       Local, Known, Current, Vacant, UnderWay, At
<1>15. QED
  BY <1>1, <1>2, <1>3, <1>4, <1>5, <1>6, <1>7, <1>8, <1>9, <1>10, <1>11,
     <1>12, <1>13, <1>14 DEF Next, Continue

LEMMA InductiveInvariant == Spec => []IInv
BY InitIInv, NextIInv, PTL DEF Spec

\* Every variable of UserVehicles keeps its type.
THEOREM VehiclesTyped == Spec => []TypeOK
<1>1. IInv => TypeOK
  BY DEF IInv
<1>2. QED
  BY <1>1, InductiveInvariant, PTL

\* Without overlapping requests a garage never has two primary vehicles, not
\* even between the updates of one request or after one that stopped half-way.
THEOREM PrimaryIsUnique == Spec => []OnePrimaryInTurn
<1>1. IInv => OnePrimaryInTurn
  BY DEF IInv
<1>2. QED
  BY <1>1, InductiveInvariant, PTL

\* However many primary vehicles earlier races have left, one request to make a
\* vehicle primary that runs alone leaves that vehicle as the only one.
THEOREM SettingRepairsGarage == Spec => SettingRepairs
<1>1. IInv /\ [Next]_vars => [\A h \in Handler :
          /\ req[h].primary /\ req[h].alone
          /\ WriteUpdate(h) \/ InsertVehicle(h)
          => Primaries' = {req[h].model}]_vars
  <2> SUFFICES ASSUME IInv, NEW h \in Handler, req[h].primary, req[h].alone,
                      WriteUpdate(h) \/ InsertVehicle(h)
               PROVE  Primaries' = {req[h].model}
    OBVIOUS
  <2>0. GarageTyped /\ Known(req[h]) /\ Current(req[h])
    BY DEF IInv, TypeOK, GarageTyped, Local
  <2>1. CASE WriteUpdate(h)
    BY <2>0, <2>1, FlaggedRow DEF WriteUpdate, Known, Current, At
  <2>2. CASE InsertVehicle(h)
    BY <2>0, <2>2, InsertedRow, RowsCounted DEF InsertVehicle, Known, Current, At
  <2>3. QED
    BY <2>1, <2>2
<1>2. QED
  BY <1>1, InductiveInvariant, PTL DEF Spec, SettingRepairs

-----------------------------------------------------------------------------
(* A primary vehicle at rest                                               *)

Led == Active = {} \/ Primaries # {}

\* How far the one request under way has come from one primary vehicle to the
\* next, when nothing has gone wrong.
Provided == mishaps = {} =>
    /\ UnderWay = {} => Led
    /\ \A h \in UnderWay :
           /\ req[h].pc \in {"create.find", "create.count", "update.find", "update.unset",
                             "delete.find", "delete.mark"} => Led
           /\ req[h].pc = "create.insert" => req[h].primary \/ (Led /\ Active # {})
           /\ req[h].pc = "update.write" => req[h].primary \/ Led
           /\ req[h].pc = "delete.promote" => req[h].model \in Active

LEMMA InitProvided == Init => Provided
BY DEF Init, Provided, Led, Active, Rows, UnderWay, At, Idle

\* The request that takes a step is the only one, and what it has read holds.
LEMMA TheOnlyOne ==
    ASSUME IInv, mishaps = {}, NEW h \in Handler, ~At(h, "idle")
    PROVE  /\ UnderWay = {h}
           /\ GarageTyped
           /\ req[h] \in Request
           /\ Known(req[h]) /\ Current(req[h])
<1>1. h \in UnderWay
  BY DEF UnderWay
<1>2. req[h].alone
  BY <1>1 DEF IInv, AloneInTurn
<1>3. QED
  BY <1>2 DEF IInv, OnlyOne, TypeOK, GarageTyped, Local

\* It is the only one afterwards too, if it is still under way.
LEMMA StaysTheOnlyOne ==
    ASSUME IInv, NEW h \in Handler, UnderWay = {h}, NEW r \in Request,
           req' = [req EXCEPT ![h] = r]
    PROVE  /\ req'[h] = r
           /\ UnderWay' = IF r.pc = "idle" THEN {} ELSE {h}
BY DEF IInv, TypeOK, UnderWay, At

\* A request that goes on with what it had, or that is done, changes no row.
LEMMA ProvidedByOne ==
    ASSUME IInv, mishaps = {}, NEW h \in Handler, ~At(h, "idle"), NEW r \in Request,
           req' = [req EXCEPT ![h] = r],
           r.pc \in {"idle", "create.find", "create.count", "update.find", "update.unset",
                     "delete.find", "delete.mark"} => Led',
           r.pc = "create.insert" => r.primary \/ (Led' /\ Active' # {}),
           r.pc = "update.write" => r.primary \/ Led',
           r.pc = "delete.promote" => r.model \in Active'
    PROVE  Provided'
<1>1. /\ req'[h] = r
      /\ UnderWay' = IF r.pc = "idle" THEN {} ELSE {h}
  BY TheOnlyOne, StaysTheOnlyOne
<1>2. QED
  BY <1>1 DEF Provided

LEMMA NextProvided == IInv /\ Provided /\ [Next]_vars => Provided'
<1> SUFFICES ASSUME IInv, Provided, [Next]_vars, mishaps' = {} PROVE Provided'
  BY DEF Provided
<1> USE DEF At
<1>0. Idle \in Request /\ Idle.pc = "idle"
  BY DEF Idle, Request, Label
<1>a. ASSUME NEW h \in Handler, ~At(h, "idle"), mishaps = {}
      PROVE  /\ UnderWay = {h} /\ GarageTyped /\ req[h] \in Request
             /\ Known(req[h]) /\ Current(req[h])
             /\ req[h].pc \in {"create.find", "create.count", "update.find", "update.unset",
                               "delete.find", "delete.mark"} => Led
             /\ req[h].pc = "create.insert" => req[h].primary \/ (Led /\ Active # {})
             /\ req[h].pc = "update.write" => req[h].primary \/ Led
             /\ req[h].pc = "delete.promote" => req[h].model \in Active
  BY <1>a, TheOnlyOne DEF Provided
<1>b. UNCHANGED garage => Led' = Led /\ Active' = Active
  BY SameRows DEF Led
<1>1. ASSUME NEW h \in Handler, Begin(h)
      PROVE  Provided'
  <2>1. PICK label \in {"create.find", "update.find", "delete.find"}, m \in Model,
             primary \in BOOLEAN : Arrive(h, label, m, primary)
    BY <1>1 DEF Begin, CreateArrives, UpdateArrives, DeleteArrives
  <2>2. UnderWay = {} /\ mishaps = {}
    BY <2>1 DEF Arrive
  <2>3. Led'
    BY <1>b, <2>1, <2>2 DEF Arrive, Provided
  <2>4. \A g \in Handler : req'[g].pc = IF g = h THEN label ELSE req[g].pc
    BY <2>1 DEF Arrive, IInv, TypeOK, Request
  <2>5. UnderWay' = {h} /\ req'[h].pc = label
    BY <2>2, <2>4 DEF UnderWay
  <2>6. QED
    BY <2>3, <2>5 DEF Provided
<1>2. ASSUME NEW h \in Handler, FindExisting(h)
      PROVE  Provided'
  <2>1. ~At(h, "idle") /\ mishaps = {} /\ UNCHANGED garage
    BY <1>2 DEF FindExisting, Read
  <2>2. Led'
    BY <1>2, <1>a, <1>b, <2>1 DEF FindExisting
  <2>3. PICK r \in Request : req' = [req EXCEPT ![h] = r] /\ r.pc \in {"idle", "create.count"}
    <3> DEFINE r == [req[h] EXCEPT !.pc = "create.count"]
    <3>1. r \in Request /\ r.pc = "create.count"
      BY <1>a, <2>1 DEF Request, Label
    <3>2. req' = [req EXCEPT ![h] = r] \/ req' = [req EXCEPT ![h] = Idle]
      BY <1>2 DEF FindExisting, Read, Goto, Finish, IInv, TypeOK, Request
    <3>3. QED
      BY <1>0, <3>1, <3>2
  <2>4. QED
    BY <2>1, <2>2, <2>3, ProvidedByOne
<1>3. ASSUME NEW h \in Handler, CountVehicles(h)
      PROVE  Provided'
  <2> DEFINE primary == Active = {} \/ req[h].primary
             r == [req[h] EXCEPT !.primary = primary,
                       !.pc = IF primary THEN "create.unset" ELSE "create.insert"]
  <2>1. ~At(h, "idle") /\ mishaps = {} /\ UNCHANGED garage /\ req' = [req EXCEPT ![h] = r]
    BY <1>3 DEF CountVehicles, IInv, TypeOK, Request
  <2>2. /\ r \in Request /\ r.pc \in {"create.unset", "create.insert"}
        /\ r.pc = "create.insert" => Active # {}
    BY <1>a, <2>1 DEF Request, Label
  <2>3. Led
    BY <1>3, <1>a, <2>1 DEF CountVehicles
  <2>4. QED
    BY <1>b, <2>1, <2>2, <2>3, ProvidedByOne
<1>4. ASSUME NEW h \in Handler, UnsetForCreate(h)
      PROVE  Provided'
  <2> DEFINE r == [req[h] EXCEPT !.pc = "create.insert"]
  <2>1. ~At(h, "idle") /\ mishaps = {} /\ req' = [req EXCEPT ![h] = r]
    BY <1>4 DEF UnsetForCreate, Goto, IInv, TypeOK, Request
  <2>2. r \in Request /\ r.pc = "create.insert" /\ r.primary
    BY <1>4, <1>a, <2>1 DEF UnsetForCreate, Request, Label, Known
  <2> HIDE DEF r
  <2>3. QED
    BY <2>1, <2>2, ProvidedByOne
<1>5. ASSUME NEW h \in Handler, InsertVehicle(h)
      PROVE  Provided'
  <2> DEFINE m == req[h].model
  <2>1. ~At(h, "idle") /\ mishaps = {} /\ req' = [req EXCEPT ![h] = Idle]
    BY <1>5 DEF InsertVehicle, Finish
  <2>2. /\ GarageTyped /\ m \in Model \ Rows /\ req[h].primary \in BOOLEAN
        /\ req[h].primary \/ (Led /\ Active # {})
    BY <1>5, <1>a, <2>1 DEF InsertVehicle, Known, Request
  <2>3. Primaries' = IF req[h].primary THEN Primaries \cup {m} ELSE Primaries
    BY <1>5, <2>2, InsertedRow, RowsCounted DEF InsertVehicle
  <2>4. Led'
    BY <2>2, <2>3 DEF Led
  <2>5. QED
    BY <1>0, <2>1, <2>4, ProvidedByOne
<1>6. ASSUME NEW h \in Handler, InsertRefused(h) \/ Fail(h)
      PROVE  Provided'
  BY <1>6 DEF InsertRefused, Fail
<1>7. ASSUME NEW h \in Handler, FindUpdated(h)
      PROVE  Provided'
  <2>1. ~At(h, "idle") /\ mishaps = {} /\ UNCHANGED garage
    BY <1>7 DEF FindUpdated, Read
  <2>2. Led'
    BY <1>7, <1>a, <1>b, <2>1 DEF FindUpdated
  <2>3. PICK r \in Request : /\ req' = [req EXCEPT ![h] = r]
                             /\ r.pc \in {"idle", "update.unset", "update.write"}
    <3>1. /\ [req[h] EXCEPT !.pc = "update.unset"] \in Request
          /\ [req[h] EXCEPT !.pc = "update.write"] \in Request
      BY <1>a, <2>1 DEF Request, Label
    <3>2. QED
      BY <1>0, <1>7, <3>1 DEF FindUpdated, Read, Goto, Finish, IInv, TypeOK, Request
  <2>4. QED
    BY <2>1, <2>2, <2>3, ProvidedByOne
<1>8. ASSUME NEW h \in Handler, UnsetForUpdate(h)
      PROVE  Provided'
  <2> DEFINE r == [req[h] EXCEPT !.pc = "update.write"]
  <2>1. ~At(h, "idle") /\ mishaps = {} /\ req' = [req EXCEPT ![h] = r]
    BY <1>8 DEF UnsetForUpdate, Goto, IInv, TypeOK, Request
  <2>2. r \in Request /\ r.pc = "update.write" /\ r.primary
    BY <1>8, <1>a, <2>1 DEF UnsetForUpdate, Request, Label, Known
  <2>3. QED
    BY <2>1, <2>2, ProvidedByOne
<1>9. ASSUME NEW h \in Handler, WriteUpdate(h)
      PROVE  Provided'
  <2> DEFINE m == req[h].model
  <2>1. ~At(h, "idle") /\ mishaps = {} /\ req' = [req EXCEPT ![h] = Idle] /\ req[h].primary
    BY <1>9 DEF WriteUpdate, Finish
  <2>2. GarageTyped /\ m \in Rows /\ m \in Active
    BY <1>9, <1>a, <2>1 DEF WriteUpdate, Known, Current
  <2>3. Primaries' = Primaries \cup {m}
    BY <1>9, <2>1, <2>2, FlaggedRow DEF WriteUpdate
  <2>4. QED
    BY <1>0, <2>1, <2>3, ProvidedByOne DEF Led
<1>10. ASSUME NEW h \in Handler, FindDeleted(h)
       PROVE  Provided'
  <2>1. ~At(h, "idle") /\ mishaps = {} /\ UNCHANGED garage
    BY <1>10 DEF FindDeleted
  <2>2. Led'
    BY <1>10, <1>a, <1>b, <2>1 DEF FindDeleted
  <2>3. PICK r \in Request : req' = [req EXCEPT ![h] = r] /\ r.pc \in {"idle", "delete.mark"}
    <3>1. CASE req[h].model \in Active
      <4>1. garage[req[h].model] \in Vehicle
        BY <1>a, <2>1, <3>1, RowsHaveVehicles
      <4> DEFINE r == [req[h] EXCEPT !.pc = "delete.mark",
                                     !.primary = garage[req[h].model].primary]
      <4>2. r \in Request /\ r.pc = "delete.mark"
        BY <1>a, <2>1, <4>1 DEF Request, Label, Vehicle
      <4>3. req' = [req EXCEPT ![h] = r]
        BY <1>10, <3>1 DEF FindDeleted, IInv, TypeOK, Request
      <4> HIDE DEF r
      <4>4. QED
        BY <4>2, <4>3
    <3>2. CASE req[h].model \notin Active
      BY <1>0, <1>10, <3>2 DEF FindDeleted, Finish
    <3>3. QED
      BY <3>1, <3>2
  <2>4. QED
    BY <2>1, <2>2, <2>3, ProvidedByOne
<1>11. ASSUME NEW h \in Handler, MarkDeleted(h)
       PROVE  Provided'
  <2> DEFINE m == req[h].model
             next == [req[h] EXCEPT !.pc = "delete.next"]
  <2>1. ~At(h, "idle") /\ mishaps = {}
    BY <1>11 DEF MarkDeleted
  <2>2. /\ GarageTyped /\ m \in Rows /\ Led /\ m \in Active
        /\ req[h].primary <=> m \in Primaries
        /\ next \in Request /\ next.pc = "delete.next"
    BY <1>11, <1>a, <2>1 DEF MarkDeleted, Known, Current, Request, Label
  <2>3. CASE req[h].primary
    <3>1. req' = [req EXCEPT ![h] = next]
      BY <1>11, <2>3 DEF MarkDeleted, Goto, IInv, TypeOK, Request
    <3>2. QED
      BY <2>1, <2>2, <3>1, ProvidedByOne
  <2>4. CASE ~req[h].primary
    <3>1. req' = [req EXCEPT ![h] = Idle]
      BY <1>11, <2>4 DEF MarkDeleted, Finish
    <3>2. Active' = Active \ {m} /\ Primaries' = Primaries \ {m}
      BY <1>11, <2>2, DeletedRow DEF MarkDeleted
    <3>3. Led'
      BY <2>2, <2>4, <3>2 DEF Led
    <3>4. QED
      BY <1>0, <2>1, <3>1, <3>3, ProvidedByOne
  <2>5. QED
    BY <2>3, <2>4
<1>12. ASSUME NEW h \in Handler, FindNext(h)
       PROVE  Provided'
  <2>1. ~At(h, "idle") /\ mishaps = {} /\ UNCHANGED garage
    BY <1>12 DEF FindNext
  <2>2. CASE Active = {}
    <3>1. req' = [req EXCEPT ![h] = Idle]
      BY <1>12, <2>2 DEF FindNext, Finish
    <3>2. Led'
      BY <1>b, <2>1, <2>2 DEF Led
    <3>3. QED
      BY <1>0, <2>1, <3>1, <3>2, ProvidedByOne
  <2>3. CASE Active # {}
    <3>1. PICK m \in Active :
              req' = [req EXCEPT ![h].pc = "delete.promote", ![h].model = m]
      BY <1>12, <2>3 DEF FindNext
    <3> DEFINE r == [req[h] EXCEPT !.pc = "delete.promote", !.model = m]
    <3>2. r \in Request /\ r.pc = "delete.promote" /\ r.model = m
      BY <1>a, <2>1, <3>1, RowsHaveVehicles DEF Request, Label
    <3>3. req' = [req EXCEPT ![h] = r]
      BY <3>1 DEF IInv, TypeOK, Request
    <3> HIDE DEF r
    <3>4. QED
      BY <1>b, <2>1, <3>2, <3>3, ProvidedByOne
  <2>4. QED
    BY <2>2, <2>3
<1>13. ASSUME NEW h \in Handler, PromoteNext(h)
       PROVE  Provided'
  <2> DEFINE m == req[h].model
  <2>1. ~At(h, "idle") /\ mishaps = {} /\ req' = [req EXCEPT ![h] = Idle]
    BY <1>13 DEF PromoteNext, Finish
  <2>2. GarageTyped /\ m \in Rows /\ m \in Active
    BY <1>13, <1>a, <2>1 DEF PromoteNext, Known
  <2>3. Primaries' = Primaries \cup {m}
    BY <1>13, <2>2, FlaggedRow DEF PromoteNext
  <2>4. QED
    BY <1>0, <2>1, <2>3, ProvidedByOne DEF Led
<1>14. CASE UNCHANGED vars
  <2>1. Rows' = Rows /\ Active' = Active /\ Primaries' = Primaries
    BY <1>14, SameRows DEF vars
  <2>2. QED
    BY <1>14, <2>1 DEF vars, Provided, Led, UnderWay
<1>15. QED
  BY <1>1, <1>2, <1>3, <1>4, <1>5, <1>6, <1>7, <1>8, <1>9, <1>10, <1>11,
     <1>12, <1>13, <1>14 DEF Next, Continue

\* With requests served in turn to their end, whatever they create, set and
\* remove, a garage that has a vehicle has a primary one between them: of any
\* number of models.
THEOREM PrimaryAtRest == Spec => []SomePrimaryAtRest
<1>1. IInv /\ Provided => SomePrimaryAtRest
  BY DEF Provided, Led, SomePrimaryAtRest
<1>2. Spec => []Provided
  BY InitProvided, NextProvided, InductiveInvariant, PTL DEF Spec
<1>3. QED
  BY <1>1, <1>2, InductiveInvariant, PTL
=============================================================================
