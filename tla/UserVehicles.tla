---------------------------- MODULE UserVehicles ----------------------------
(***************************************************************************)
(* The garage of one user.  Each row of user_vehicles is the vehicle of    *)
(* one model; removing a vehicle only marks its row as deleted, and the    *)
(* database keeps (userId, modelId) unique over deleted rows as well, so a *)
(* model stands for its row.  VehiclesService keeps the flag isPrimary on  *)
(* one of the vehicles: it picks the connector that the station searches   *)
(* start from.  Setting the flag is one update for the other vehicles and  *)
(* one for the vehicle itself, without a transaction.                      *)
(*                                                                         *)
(* A request that is refused changes nothing and is a stuttering step, and *)
(* so is an update of the nickname alone.                                  *)
(***************************************************************************)
EXTENDS Naturals, FiniteSets

CONSTANTS
    Handler,     \* request slots: how many requests can be in flight
    Model,       \* the models of the catalogue
    NoVehicle,   \* no row for a model
    NoModel      \* an idle handler is about no model

ASSUME HandlerAssumption == IsFiniteSet(Handler) /\ IsFiniteSet(Model)
ASSUME NullAssumption ==
    NoModel \notin Model
    /\ NoVehicle \notin [primary: BOOLEAN, deleted: BOOLEAN, nth: Nat]

VARIABLES
    garage,    \* user_vehicles: for each model its row, if any
    req,       \* what each handler is doing, with its local variables
    mishaps    \* history: what has happened besides requests served in turn

vars == <<garage, req, mishaps>>

\* nth orders the rows by createdAt.
Vehicle == [primary: BOOLEAN, deleted: BOOLEAN, nth: Nat]

\* Where a handler can be waiting, by the call it issues next.
Label == {"idle", "create.find", "create.count", "create.unset",
          "create.insert", "update.find", "update.unset", "update.write",
          "delete.find", "delete.mark", "delete.next", "delete.promote"}

\* primary: what the request asks for, or has read of its vehicle; alone: no
\* other request has been under way since this one arrived.
Request == [pc: Label, model: Model \cup {NoModel}, primary: BOOLEAN,
            alone: BOOLEAN]

Idle == [pc |-> "idle", model |-> NoModel, primary |-> FALSE, alone |-> FALSE]

\* Two requests at a time; a request that stops half-way; a vehicle added that
\* was removed before; a client that takes the flag off a vehicle.
Mishap == {"overlap", "fault", "readded", "cleared"}

TypeOK == /\ garage \in [Model -> Vehicle \cup {NoVehicle}]
          /\ req \in [Handler -> Request]
          /\ mishaps \subseteq Mishap

Init == /\ garage = [m \in Model |-> NoVehicle]
        /\ req = [h \in Handler |-> Idle]
        /\ mishaps = {}

-----------------------------------------------------------------------------
Rows == {m \in Model : garage[m] # NoVehicle}
Active == {m \in Rows : ~garage[m].deleted}
Primaries == {m \in Active : garage[m].primary}

At(h, label) == req[h].pc = label
UnderWay == {h \in Handler : ~At(h, "idle")}

\* A request comes in, and the requests under way are not alone any more.
Arrive(h, label, m, primary) ==
    /\ At(h, "idle")
    /\ req' = [g \in Handler |->
        IF g = h THEN [pc |-> label, model |-> m, primary |-> primary,
                       alone |-> UnderWay = {}]
                 ELSE [req[g] EXCEPT !.alone = FALSE]]
    /\ mishaps' = IF UnderWay = {} THEN mishaps ELSE mishaps \cup {"overlap"}
    /\ UNCHANGED garage

Goto(h, label) == req' = [req EXCEPT ![h].pc = label]
Finish(h) == req' = [req EXCEPT ![h] = Idle]

Read(h, label, found) ==
    /\ IF found THEN Goto(h, label) ELSE Finish(h)
    /\ UNCHANGED <<garage, mishaps>>

\* updateMany: the rows of S that are primary are so no more.
Unset(S) == [m \in Model |-> IF m \in S \cap Rows
                             THEN [garage[m] EXCEPT !.primary = FALSE]
                             ELSE garage[m]]

-----------------------------------------------------------------------------
(* createUserVehicle; the model is one of the catalogue                    *)

CreateArrives(h, m, primary) == Arrive(h, "create.find", m, primary)

FindExisting(h) ==
    /\ At(h, "create.find")
    /\ Read(h, "create.count", req[h].model \notin Active)

\* The first vehicle is primary without being asked for.
CountVehicles(h) ==
    /\ At(h, "create.count")
    /\ LET primary == Active = {} \/ req[h].primary
       IN  req' = [req EXCEPT
               ![h].primary = primary,
               ![h].pc = IF primary THEN "create.unset" ELSE "create.insert"]
    /\ UNCHANGED <<garage, mishaps>>

\* Mutant: the vehicles that were primary stay so.
UnsetForCreateSkipped(h) == /\ At(h, "create.unset")
                            /\ Goto(h, "create.insert")
                            /\ UNCHANGED <<garage, mishaps>>

UnsetForCreate(h) == /\ At(h, "create.unset")
                     /\ garage' = Unset(Model)
                     /\ Goto(h, "create.insert")
                     /\ UNCHANGED mishaps

InsertVehicle(h) ==
    /\ At(h, "create.insert")
    /\ req[h].model \notin Rows
    /\ garage' = [garage EXCEPT ![req[h].model] =
           [primary |-> req[h].primary, deleted |-> FALSE,
            nth |-> Cardinality(Rows)]]
    /\ Finish(h)
    /\ UNCHANGED mishaps

\* The unique constraint: the model has a row, of a vehicle added meanwhile or
\* of one that was removed.
InsertRefused(h) ==
    /\ At(h, "create.insert")
    /\ req[h].model \in Rows
    /\ Finish(h)
    /\ mishaps' = mishaps \cup {"readded"}
    /\ UNCHANGED garage

-----------------------------------------------------------------------------
(* updateUserVehicle                                                       *)

UpdateArrives(h, m, primary) ==
    /\ m \in Rows
    /\ Arrive(h, "update.find", m, primary)

FindUpdated(h) ==
    /\ At(h, "update.find")
    /\ Read(h, IF req[h].primary THEN "update.unset" ELSE "update.write",
            req[h].model \in Active)

\* Mutant: the update spares the wrong vehicles.
UnsetForUpdateInverted(h) == /\ At(h, "update.unset")
                             /\ garage' = Unset({req[h].model})
                             /\ Goto(h, "update.write")
                             /\ UNCHANGED mishaps

UnsetForUpdate(h) == /\ At(h, "update.unset")
                     /\ garage' = Unset(Model \ {req[h].model})
                     /\ Goto(h, "update.write")
                     /\ UNCHANGED mishaps

\* Written by the row's id, deleted meanwhile or not.
WriteUpdate(h) ==
    /\ At(h, "update.write")
    /\ garage' = [garage EXCEPT ![req[h].model].primary = req[h].primary]
    /\ mishaps' = IF req[h].primary THEN mishaps ELSE mishaps \cup {"cleared"}
    /\ Finish(h)

-----------------------------------------------------------------------------
(* deleteUserVehicle                                                       *)

DeleteArrives(h, m) == /\ m \in Rows
                       /\ Arrive(h, "delete.find", m, FALSE)

FindDeleted(h) ==
    /\ At(h, "delete.find")
    /\ IF req[h].model \in Active
       THEN req' = [req EXCEPT ![h].pc = "delete.mark",
                               ![h].primary = garage[req[h].model].primary]
       ELSE Finish(h)
    /\ UNCHANGED <<garage, mishaps>>

\* The row keeps its flag; what was read decides whether another gets it.
MarkDeleted(h) ==
    /\ At(h, "delete.mark")
    /\ garage' = [garage EXCEPT ![req[h].model].deleted = TRUE]
    /\ IF req[h].primary THEN Goto(h, "delete.next") ELSE Finish(h)
    /\ UNCHANGED mishaps

Newest(m, S) == m \in S /\ \A n \in S : garage[n].nth <= garage[m].nth

FindNext(h) ==
    /\ At(h, "delete.next")
    /\ IF Active = {} THEN Finish(h)
       ELSE \E m \in Active :
                /\ Newest(m, Active)
                /\ req' = [req EXCEPT ![h].pc = "delete.promote", ![h].model = m]
    /\ UNCHANGED <<garage, mishaps>>

\* Mutant: the vehicle that was found is left as it is.
PromoteNextForgotten(h) == /\ At(h, "delete.promote")
                           /\ Finish(h)
                           /\ UNCHANGED <<garage, mishaps>>

PromoteNext(h) ==
    /\ At(h, "delete.promote")
    /\ garage' = [garage EXCEPT ![req[h].model].primary = TRUE]
    /\ Finish(h)
    /\ UNCHANGED mishaps

\* A call throws or the process stops: what was written stays written.
Fail(h) == /\ ~At(h, "idle")
           /\ Finish(h)
           /\ mishaps' = mishaps \cup {"fault"}
           /\ UNCHANGED garage

-----------------------------------------------------------------------------
Begin(h) == \E m \in Model :
    \/ \E primary \in BOOLEAN :
           CreateArrives(h, m, primary) \/ UpdateArrives(h, m, primary)
    \/ DeleteArrives(h, m)

Continue(h) ==
    \/ FindExisting(h) \/ CountVehicles(h) \/ UnsetForCreate(h)
    \/ InsertVehicle(h) \/ InsertRefused(h)
    \/ FindUpdated(h) \/ UnsetForUpdate(h) \/ WriteUpdate(h)
    \/ FindDeleted(h) \/ MarkDeleted(h) \/ FindNext(h) \/ PromoteNext(h)

Next == \E h \in Handler : Begin(h) \/ Continue(h) \/ Fail(h)

Spec == Init /\ [][Next]_vars

-----------------------------------------------------------------------------
\* As long as no two requests have overlapped, a user has at most one primary
\* vehicle, at every moment and wherever a request has stopped half-way.
OnePrimaryInTurn ==
    "overlap" \notin mishaps => \A m, n \in Primaries : m = n

\* With requests served in turn to their end, a garage with vehicles has a
\* primary one between the requests, unless the client took the flag off or
\* added a vehicle it had removed before: the search always has a connector
\* to start from.
SomePrimaryAtRest ==
    mishaps = {} /\ UnderWay = {} /\ Active # {} => Primaries # {}

\* Whatever has gone wrong before, a request to make a vehicle primary that is
\* served alone leaves no other vehicle primary: the flag repairs itself.
SettingRepairs == [][\A h \in Handler :
    /\ req[h].primary /\ req[h].alone
    /\ WriteUpdate(h) \/ InsertVehicle(h)
    => Primaries' = {req[h].model}]_vars
=============================================================================
