------------------------------ MODULE FacadeProofs ------------------------------
(***************************************************************************)
(* Route tables stand under their users, are closed once, and follow the file *)
(* forwards only, and an upstream is blamed for failures of its own definition *)
(* alone: for every number of connections, upstreams, definitions, tables and   *)
(* edits.  Health plays no part in the tables, so it comes after them.          *)
(***************************************************************************)
EXTENDS Facade, FiniteSetTheorems, WellFoundedInduction, TLAPS

USE FacadeAssumption DEF FacadeAssumption, Tables

Labels == {"idle", "lock", "load", "loaded", "retire", "body", "policy", "forward",
           "leave", "close"}

\* The labels by what a request has: a table it uses, one it closes, the lock.
Using == {"forward", "leave"}
Ending == {"retire", "close"}
Reloading == {"load", "loaded", "retire"}

TableRecords ==
  [state : {"gone", "live", "closing"}, up : Layouts \cup {Empty, Broken}, edit : Nat,
   active : Nat, retired : BOOLEAN, leaked : BOOLEAN]
Readings == [what : Layouts \cup {Broken}, edit : Nat, force : BOOLEAN]

\* What the steps of the route tables need of the types.
Typed ==
  /\ file \in [what : Layouts \cup {Broken}, edit : Nat]
  /\ lock \in Requests \cup {Nobody}
  /\ current \in Tables
  /\ tables \in [Tables -> TableRecords]
  /\ pc \in [Requests -> Labels]
  /\ read \in [Requests -> Readings]
  /\ held \in [Requests -> 0 .. MaxTables]

\* What a table counts beside its users.
Extra(t) == IF tables[t].leaked THEN 1 ELSE 0

\* The count of a table is that of its users, who keep it alive, and of the requests
\* that could not read the controls; a table that is not in use any more has been
\* retired; one that is closing has one closer.
RoutesOK ==
  /\ tables[current].state = "live" /\ ~tables[current].retired
  /\ \A r \in Requests : pc[r] \in Using \cup Ending => held[r] \in Tables
  /\ \A t \in Tables : /\ tables[t].active = Cardinality(Users(t)) + Extra(t)
                       /\ tables[t].active > 0 => tables[t].state = "live"
  /\ \A t \in Tables \ {current} :
       tables[t].state = "live" => tables[t].active > 0 /\ tables[t].retired
  /\ \A t \in Tables :
       tables[t].state = "closing" => \E r \in Requests : pc[r] \in Ending /\ held[r] = t
  /\ \A r \in Requests : pc[r] \in Ending => tables[held[r]].state = "closing"
  /\ \A r, s \in Requests :
       pc[r] \in Ending /\ pc[s] \in Ending /\ held[r] = held[s] => r = s

\* One reload at a time, which reads what is not older than the table in use.
OrderOK ==
  /\ \A r \in Requests : pc[r] \in Reloading => lock = r
  /\ tables[current].edit <= file.edit
  /\ \A r \in Requests :
       pc[r] = "loaded" => tables[current].edit <= read[r].edit /\ read[r].edit <= file.edit

IInv == Typed /\ RoutesOK /\ OrderOK
-------------------------------------------------------------------------------
(* The users of a table.                                                    *)

LEMMA UsersFinite ==
  ASSUME NEW t PROVE IsFiniteSet(Users(t)) /\ Cardinality(Users(t)) \in Nat
<1>1. Users(t) \subseteq Requests
  BY DEF Users
<1> QED
  BY <1>1, FS_Subset, FS_CardinalityType

LEMMA UsersSame ==
  ASSUME NEW t,
         \A s \in Requests : (held'[s] = t /\ pc'[s] \in Using) <=> (held[s] = t /\ pc[s] \in Using)
  PROVE  Users(t)' = Users(t)
BY DEF Users, Using

\* A table that is not live has no users, and neither has one that is forgotten.
LEMMA NoUsers ==
  ASSUME RoutesOK, Typed, NEW t \in Tables, tables[t].state # "live" \/ Forgotten(tables[t])
  PROVE  Cardinality(Users(t)) = 0
<1>1. /\ tables[t].active = Cardinality(Users(t)) + Extra(t) /\ Cardinality(Users(t)) \in Nat
      /\ Extra(t) \in {0, 1} /\ (tables[t].active > 0 => tables[t].state = "live")
  BY UsersFinite DEF RoutesOK, Extra
<1>2. CASE tables[t].state # "live"
  <2>1. ~(tables[t].active > 0)
    BY <1>1, <1>2
  <2>2. \A c \in Nat, e \in {0, 1} : ~(c + e > 0) => c = 0
    OBVIOUS
  <2>3. ~(Cardinality(Users(t)) + Extra(t) > 0)
    BY <1>1, <2>1
  <2> QED
    BY <1>1, <2>2, <2>3
<1>3. CASE Forgotten(tables[t])
  <2>1. Extra(t) = 1 /\ tables[t].active = 1
    BY <1>3 DEF Forgotten, Extra
  <2> QED
    BY <1>1, <2>1
<1> QED
  BY <1>2, <1>3

LEMMA InitInv == Init => IInv
<1> SUFFICES ASSUME Init PROVE IInv
  OBVIOUS
<1>1. PICK l \in Layouts :
        /\ file = [what |-> l, edit |-> 0]
        /\ tables = [t \in Tables |->
                       IF t = 1 THEN [NoTable EXCEPT !.state = "live", !.up = l] ELSE NoTable]
  BY DEF Init
<1>2. current = 1 /\ lock = Nobody /\ pc = [r \in Requests |-> "idle"]
      /\ read = [r \in Requests |-> NothingRead] /\ held = [r \in Requests |-> 0]
  BY DEF Init
<1>3. 1 \in Tables
  OBVIOUS
<1>4. NoTable \in TableRecords /\ [NoTable EXCEPT !.state = "live", !.up = l] \in TableRecords
  BY DEF NoTable, TableRecords
<1>5. Typed
  BY <1>1, <1>2, <1>3, <1>4 DEF Typed, NothingRead, Readings, Labels
<1>6. \A t \in Tables : Users(t) = {}
  BY <1>2 DEF Users
<1>7. \A t \in Tables : tables[t].active = 0 /\ ~tables[t].retired /\ tables[t].edit = 0
                        /\ Extra(t) = 0
                        /\ tables[t].state = IF t = 1 THEN "live" ELSE "gone"
  <2> TAKE t \in Tables
  <2>1. CASE t = 1
    BY <1>1, <2>1 DEF NoTable, Extra
  <2>2. CASE t # 1
    BY <1>1, <2>2 DEF NoTable, Extra
  <2> QED
    BY <2>1, <2>2
<1>8. RoutesOK
  <2>1. \A t \in Tables : tables[t].active = Cardinality(Users(t)) + Extra(t)
    <3> TAKE t \in Tables
    <3>1. Cardinality(Users(t)) = 0
      BY <1>6, FS_EmptySet
    <3>2. tables[t].active = 0 /\ Extra(t) = 0
      BY <1>7
    <3> QED
      BY <3>1, <3>2
  <2>2. \A r \in Requests : pc[r] \notin Using \cup Ending
    BY <1>2 DEF Using, Ending
  <2>3. tables[current].state = "live" /\ ~tables[current].retired
    BY <1>2, <1>3, <1>7
  <2>4. \A t \in Tables : tables[t].active > 0 => tables[t].state = "live"
    BY <1>7
  <2>5. \A t \in Tables \ {current} : tables[t].state = "gone"
    BY <1>2, <1>7
  <2>6. \A t \in Tables : tables[t].state # "closing"
    BY <1>7
  <2> QED
    BY <2>1, <2>2, <2>3, <2>4, <2>5, <2>6 DEF RoutesOK
<1>9. OrderOK
  <2>1. tables[current].edit = 0 /\ file.edit = 0
    BY <1>1, <1>2, <1>3, <1>7
  <2>2. \A r \in Requests : pc[r] = "idle"
    BY <1>2
  <2> QED
    BY <2>1, <2>2 DEF OrderOK, Reloading
<1> QED
  BY <1>5, <1>8, <1>9 DEF IInv
-------------------------------------------------------------------------------
(* What the steps do to the tables.                                          *)

\* A step that leaves the tables alone, and moves no request in or out of one.
LEMMA QuietRoutes ==
  ASSUME RoutesOK, UNCHANGED <<current, tables, held>>,
         \A s \in Requests : /\ pc'[s] \in Using <=> pc[s] \in Using
                             /\ pc'[s] \in Ending <=> pc[s] \in Ending
  PROVE  RoutesOK'
<1>1. \A t \in Tables : Users(t)' = Users(t)
  <2> TAKE t \in Tables
  <2> QED
    BY UsersSame
<1> QED
  BY <1>1 DEF RoutesOK, Extra

LEMMA AcquireRoutes ==
  ASSUME Typed, RoutesOK, NEW r \in Requests, pc[r] = "policy", Acquired(r), UNCHANGED current,
         NEW l \in Using, pc' = [pc EXCEPT ![r] = l]
  PROVE  RoutesOK' /\ tables' \in [Tables -> TableRecords] /\ held' \in [Requests -> 0 .. MaxTables]
         /\ \A t \in Tables : tables'[t].edit = tables[t].edit
<1>1. held' = [held EXCEPT ![r] = current]
      /\ tables' = [tables EXCEPT ![current] = [tables[current] EXCEPT !.active = @ + 1]]
  BY DEF Acquired
<1>2. tables[current] \in TableRecords /\ current \in Tables /\ tables[current].active \in Nat
  BY DEF Typed, TableRecords
<1> DEFINE u == [tables[current] EXCEPT !.active = @ + 1]
<1>3. /\ u \in TableRecords /\ u.active = tables[current].active + 1
      /\ u.state = tables[current].state /\ u.retired = tables[current].retired
      /\ u.leaked = tables[current].leaked
      /\ u.edit = tables[current].edit
  BY <1>2 DEF TableRecords
<1> HIDE DEF u
<1>4. tables' = [tables EXCEPT ![current] = u]
  BY <1>1 DEF u
<1>5. /\ \A t \in Tables : t # current => tables'[t] = tables[t]
      /\ tables'[current] = u
  BY <1>2, <1>4 DEF Typed
<1>6. \A s \in Requests : s # r => pc'[s] = pc[s] /\ held'[s] = held[s]
  BY <1>1 DEF Typed
<1>7. pc'[r] = l /\ held'[r] = current
  BY <1>1 DEF Typed
<1>8. Users(current)' = Users(current) \cup {r} /\ r \notin Users(current)
  BY <1>6, <1>7 DEF Users, Using
<1>9. Cardinality(Users(current))' = Cardinality(Users(current)) + 1
  BY <1>8, UsersFinite, FS_AddElement
<1>10. \A t \in Tables : t # current => Users(t)' = Users(t)
  BY <1>6, <1>7 DEF Users, Using
<1>e. \A t \in Tables : Extra(t)' = Extra(t) /\ Extra(t) \in {0, 1}
  BY <1>3, <1>5 DEF Extra
<1>11. \A t \in Tables : /\ tables'[t].active = Cardinality(Users(t))' + Extra(t)'
                         /\ tables'[t].active > 0 => tables'[t].state = "live"
  <2> TAKE t \in Tables
  <2>1. tables[t].active = Cardinality(Users(t)) + Extra(t) /\ Cardinality(Users(t)) \in Nat
    BY UsersFinite DEF RoutesOK
  <2>2. CASE t = current
    BY <1>2, <1>3, <1>5, <1>9, <1>e, <2>1, <2>2 DEF RoutesOK
  <2>3. CASE t # current
    BY <1>5, <1>10, <1>e, <2>1, <2>3 DEF RoutesOK
  <2> QED
    BY <2>2, <2>3
<1>12. \A s \in Requests : pc'[s] \in Ending <=> pc[s] \in Ending
  BY <1>6, <1>7 DEF Using, Ending
<1>13. \A s \in Requests : pc'[s] \in Ending => s # r
  BY <1>7 DEF Using, Ending
<1>14. RoutesOK'
  <2>1. \A s \in Requests : pc'[s] \in Using \cup Ending => held'[s] \in Tables
    BY <1>2, <1>6, <1>7 DEF RoutesOK
  <2>2. \A t \in Tables \ {current} :
          tables'[t].state = "live" => tables'[t].active > 0 /\ tables'[t].retired
    BY <1>5 DEF RoutesOK
  <2>3. \A t \in Tables : tables'[t].state = tables[t].state
    BY <1>3, <1>5
  <2>4. \A s \in Requests : pc'[s] \in Ending => pc[s] \in Ending /\ held'[s] = held[s]
    BY <1>6, <1>12, <1>13
  <2>5. \A s \in Requests : pc[s] \in Ending => s # r
    BY DEF Ending
  <2>6. \A t \in Tables :
          tables'[t].state = "closing" => \E s \in Requests : pc'[s] \in Ending /\ held'[s] = t
    BY <1>6, <1>12, <2>3, <2>5 DEF RoutesOK
  <2>7. \A s \in Requests : pc'[s] \in Ending => tables'[held'[s]].state = "closing"
    BY <2>3, <2>4 DEF RoutesOK
  <2>8. tables'[current'].state = "live" /\ ~tables'[current'].retired
    BY <1>2, <1>3, <1>5 DEF RoutesOK
  <2>9. \A s, q \in Requests :
          pc'[s] \in Ending /\ pc'[q] \in Ending /\ held'[s] = held'[q] => s = q
    BY <2>4 DEF RoutesOK
  <2>10. \A t \in Tables \ {current'} :
          tables'[t].state = "live" => tables'[t].active > 0 /\ tables'[t].retired
    BY <2>2
  <2> QED
    BY <1>11, <2>1, <2>10, <2>6, <2>7, <2>8, <2>9 DEF RoutesOK
<1>15. tables' \in [Tables -> TableRecords] /\ held' \in [Requests -> 0 .. MaxTables]
  <2>1. tables' \in [Tables -> TableRecords]
    BY <1>2, <1>3, <1>4 DEF Typed
  <2>2. held' \in [Requests -> 0 .. MaxTables]
    BY <1>1, <1>2 DEF Typed
  <2> QED
    BY <2>1, <2>2
<1> QED
  BY <1>3, <1>5, <1>14, <1>15

\* The count that nobody gives back.
LEMMA LeakRoutes ==
  ASSUME Typed, RoutesOK, NEW r \in Requests, ControlsFail(r)
  PROVE  RoutesOK' /\ tables' \in [Tables -> TableRecords]
         /\ \A t \in Tables : tables'[t].edit = tables[t].edit
<1>1. /\ pc[r] = "policy" /\ pc' = [pc EXCEPT ![r] = "idle"] /\ UNCHANGED <<current, held>>
      /\ tables' = IF tables[current].leaked THEN tables
                   ELSE [tables EXCEPT ![current].active = @ + 1, ![current].leaked = TRUE]
  BY DEF ControlsFail, Goto
<1>2. \A s \in Requests : /\ pc'[s] \in Using <=> pc[s] \in Using
                          /\ pc'[s] \in Ending <=> pc[s] \in Ending
  BY <1>1 DEF Typed, Using, Ending
<1>3. CASE tables' = tables
  BY <1>1, <1>2, <1>3, QuietRoutes DEF Typed
<1>4. CASE ~tables[current].leaked
  <2> DEFINE v == [tables[current] EXCEPT !.active = tables[current].active + 1]
             u == [v EXCEPT !.leaked = TRUE]
  <2>1. u = [[tables[current] EXCEPT !.active = tables[current].active + 1]
               EXCEPT !.leaked = TRUE]
    OBVIOUS
  <2>2. current \in Tables /\ tables[current] \in TableRecords /\ tables[current].active \in Nat
    BY DEF Typed, TableRecords
  <2>3. /\ u \in TableRecords /\ u.active = tables[current].active + 1 /\ u.leaked
        /\ u.state = tables[current].state /\ u.retired = tables[current].retired
        /\ u.edit = tables[current].edit
    <3>1. /\ v \in TableRecords /\ v.active = tables[current].active + 1
          /\ v.state = tables[current].state /\ v.retired = tables[current].retired
          /\ v.edit = tables[current].edit
      BY <2>2 DEF TableRecords
    <3> HIDE DEF v
    <3> QED
      BY <3>1 DEF TableRecords
  <2> HIDE DEF v, u
  <2>4. tables' = [tables EXCEPT ![current] = u]
    BY <1>1, <1>4, <2>1, <2>2 DEF TableRecords
  <2>5. /\ \A t \in Tables : t # current => tables'[t] = tables[t]
        /\ tables'[current] = u
    BY <2>2, <2>4 DEF Typed
  <2>6. \A t \in Tables : Users(t)' = Users(t)
    <3> TAKE t \in Tables
    <3> QED
      BY <1>1, <1>2, UsersSame
  <2>7. /\ Extra(current) = 0 /\ Extra(current)' = 1
        /\ \A t \in Tables : t # current => Extra(t)' = Extra(t)
    BY <1>1, <1>4, <2>3, <2>5 DEF Extra
  <2>8. \A t \in Tables : /\ tables'[t].active = Cardinality(Users(t))' + Extra(t)'
                          /\ tables'[t].active > 0 => tables'[t].state = "live"
    <3> TAKE t \in Tables
    <3>1. tables[t].active = Cardinality(Users(t)) + Extra(t) /\ Cardinality(Users(t)) \in Nat
      BY UsersFinite DEF RoutesOK
    <3>2. CASE t = current
      <4>1. tables'[t].active = tables[t].active + 1 /\ tables'[t].state = tables[t].state
        BY <2>3, <2>5, <3>2
      <4>2. Users(t)' = Users(t) /\ Extra(t) = 0 /\ Extra(t)' = 1
        <5>1. Extra(t) = 0
          BY <1>4, <3>2 DEF Extra
        <5>2. tables'[t].leaked
          BY <2>3, <2>5, <3>2
        <5> QED
          BY <2>6, <5>1, <5>2 DEF Extra
      <4>3. tables[t].state = "live"
        BY <3>2 DEF RoutesOK
      <4>4. Cardinality(Users(t)') = Cardinality(Users(t))
        BY <4>2
      <4> QED
        BY <3>1, <4>1, <4>2, <4>3, <4>4
    <3>3. CASE t # current
      BY <2>5, <2>6, <2>7, <3>1, <3>3 DEF RoutesOK
    <3> QED
      BY <3>2, <3>3
  <2>9. \A t \in Tables : tables'[t].state = tables[t].state /\ tables'[t].retired = tables[t].retired
                          /\ tables'[t].edit = tables[t].edit
    BY <2>3, <2>5
  <2>10. RoutesOK'
    <3>1. tables'[current'].state = "live" /\ ~tables'[current'].retired
      BY <1>1, <2>2, <2>9 DEF RoutesOK
    <3>2. \A s \in Requests : pc'[s] \in Using \cup Ending => held'[s] \in Tables
      BY <1>1, <1>2 DEF RoutesOK
    <3>3. \A t \in Tables \ {current'} :
            tables'[t].state = "live" => tables'[t].active > 0 /\ tables'[t].retired
      BY <1>1, <2>5 DEF RoutesOK
    <3>4. \A t \in Tables :
            tables'[t].state = "closing" => \E s \in Requests : pc'[s] \in Ending /\ held'[s] = t
      BY <1>1, <1>2, <2>9 DEF RoutesOK
    <3>5. \A s \in Requests : pc'[s] \in Ending => tables'[held'[s]].state = "closing"
      BY <1>1, <1>2, <2>9 DEF RoutesOK
    <3>6. \A s, q \in Requests :
            pc'[s] \in Ending /\ pc'[q] \in Ending /\ held'[s] = held'[q] => s = q
      BY <1>1, <1>2 DEF RoutesOK
    <3> QED
      BY <2>8, <3>1, <3>2, <3>3, <3>4, <3>5, <3>6 DEF RoutesOK
  <2>11. tables' \in [Tables -> TableRecords]
    BY <2>2, <2>3, <2>4 DEF Typed
  <2> QED
    BY <2>9, <2>10, <2>11
<1> QED
  BY <1>1, <1>3, <1>4

\* _release_routes
LEMMA LeaveRoutes ==
  ASSUME Typed, RoutesOK, NEW r \in Requests, Leave(r)
  PROVE  RoutesOK' /\ tables' \in [Tables -> TableRecords] /\ held' \in [Requests -> 0 .. MaxTables]
         /\ \A t \in Tables : tables'[t].edit = tables[t].edit
<1>a. PICK h : h = held[r]
  OBVIOUS
<1>b. PICK last \in BOOLEAN : last <=> (tables[h].retired /\ tables[h].active = 1)
  OBVIOUS
<1>1. /\ pc[r] = "leave" /\ UNCHANGED current
      /\ tables' = [tables EXCEPT ![h].active = @ - 1,
                                  ![h].state = IF last THEN "closing" ELSE @]
      /\ pc' = [pc EXCEPT ![r] = IF last THEN "close" ELSE "idle"]
      /\ held' = [held EXCEPT ![r] = IF last THEN h ELSE 0]
  BY <1>a, <1>b DEF Leave, Goto
<1>2. h \in Tables /\ tables[h] \in TableRecords /\ tables[h].active \in Nat
  BY <1>1, <1>a DEF RoutesOK, Typed, TableRecords, Using
<1>3. r \in Users(h)
  BY <1>1, <1>a DEF Users
<1>4. /\ tables[h].active = Cardinality(Users(h)) + Extra(h)
      /\ Cardinality(Users(h)) \in Nat /\ Extra(h) \in {0, 1}
      /\ tables[h].active > 0 /\ tables[h].state = "live"
      /\ tables[h].active = 1 => Extra(h) = 0
  <2>1. Cardinality(Users(h)) # 0 /\ Cardinality(Users(h)) \in Nat
    BY <1>3, UsersFinite, FS_EmptySet
  <2>2. tables[h].active = Cardinality(Users(h)) + Extra(h) /\ Extra(h) \in {0, 1}
    BY <1>2 DEF RoutesOK, Extra
  <2> QED
    BY <1>2, <2>1, <2>2 DEF RoutesOK
<1>c. PICK u : u = [[tables[h] EXCEPT !.active = tables[h].active - 1]
                     EXCEPT !.state = IF last THEN "closing" ELSE tables[h].state]
  OBVIOUS
<1>5. /\ u \in TableRecords /\ u.active = tables[h].active - 1
      /\ u.state = IF last THEN "closing" ELSE "live"
      /\ u.retired = tables[h].retired /\ u.edit = tables[h].edit
      /\ u.leaked = tables[h].leaked
  <2>1. tables[h].active - 1 \in Nat
    BY <1>2, <1>4
  <2>2. (IF last THEN "closing" ELSE tables[h].state) \in {"gone", "live", "closing"}
    BY <1>4
  <2> QED
    BY <1>2, <1>4, <1>c, <2>1, <2>2 DEF TableRecords
<1>6. tables' = [tables EXCEPT ![h] = u]
  BY <1>1, <1>2, <1>4, <1>c DEF TableRecords
<1>7. /\ \A t \in Tables : t # h => tables'[t] = tables[t]
      /\ tables'[h] = u
  BY <1>2, <1>6 DEF Typed
<1>8. /\ \A s \in Requests : s # r => pc'[s] = pc[s] /\ held'[s] = held[s]
      /\ pc'[r] = IF last THEN "close" ELSE "idle"
      /\ held'[r] = IF last THEN h ELSE 0
  BY <1>1 DEF Typed
<1>9. Users(h)' = Users(h) \ {r}
  <2>1. \A s \in Requests : s \in Users(h)' <=> (s \in Users(h) /\ s # r)
    BY <1>8 DEF Users
  <2> QED
    BY <2>1 DEF Users
<1>10. Cardinality(Users(h))' = Cardinality(Users(h)) - 1
  BY <1>3, <1>9, UsersFinite, FS_RemoveElement
<1>11. \A t \in Tables : t # h => Users(t)' = Users(t)
  BY <1>1, <1>8, <1>a DEF Users
<1>e. \A t \in Tables : Extra(t)' = Extra(t)
  BY <1>5, <1>7 DEF Extra
<1>12. \A t \in Tables : /\ tables'[t].active = Cardinality(Users(t))' + Extra(t)'
                         /\ tables'[t].active > 0 => tables'[t].state = "live"
  <2> TAKE t \in Tables
  <2>1. CASE t = h
    <3>1. tables'[h].active = Cardinality(Users(h)) - 1 + Extra(h)
      BY <1>2, <1>4, <1>5, <1>7
    <3>2. tables'[h].active > 0 => ~last
      BY <1>2, <1>5, <1>7, <1>b
    <3> QED
      BY <1>4, <1>5, <1>7, <1>10, <1>e, <2>1, <3>1, <3>2
  <2>2. CASE t # h
    BY <1>7, <1>11, <1>e, <2>2 DEF RoutesOK
  <2> QED
    BY <2>1, <2>2
<1>13. last => h # current
  BY <1>b DEF RoutesOK
<1>14. h # current => (last \/ tables[h].active > 1) /\ tables[h].retired
  BY <1>2, <1>4, <1>b DEF RoutesOK
<1>15. \A s \in Requests : pc'[s] \in Ending /\ s # r => held'[s] # h
  BY <1>4, <1>8 DEF RoutesOK
<1>16. RoutesOK'
  <2>1. tables'[current'].state = "live" /\ ~tables'[current'].retired
    BY <1>1, <1>5, <1>7, <1>13 DEF RoutesOK, Typed
  <2>2. \A s \in Requests : pc'[s] \in Using \cup Ending => held'[s] \in Tables
    BY <1>2, <1>8 DEF RoutesOK, Using, Ending
  <2>3. \A t \in Tables \ {current'} :
          tables'[t].state = "live" => tables'[t].active > 0 /\ tables'[t].retired
    <3> TAKE t \in Tables \ {current'}
    <3>1. CASE t = h
      BY <1>1, <1>2, <1>5, <1>7, <1>14, <3>1
    <3>2. CASE t # h
      BY <1>1, <1>7, <3>2 DEF RoutesOK
    <3> QED
      BY <3>1, <3>2
  <2>4. \A t \in Tables :
          tables'[t].state = "closing" => \E s \in Requests : pc'[s] \in Ending /\ held'[s] = t
    <3> TAKE t \in Tables
    <3>1. CASE t = h
      BY <1>5, <1>7, <1>8, <3>1 DEF Ending
    <3>2. CASE t # h
      BY <1>1, <1>7, <1>8, <3>2 DEF RoutesOK, Ending
    <3> QED
      BY <3>1, <3>2
  <2>5. \A s \in Requests : pc'[s] \in Ending => tables'[held'[s]].state = "closing"
    <3> TAKE s \in Requests
    <3>1. CASE s = r
      BY <1>5, <1>7, <1>8, <3>1 DEF Ending
    <3>2. CASE s # r
      BY <1>7, <1>8, <1>15, <3>2 DEF RoutesOK, Ending, Using
    <3> QED
      BY <3>1, <3>2
  <2>6. \A s, q \in Requests :
          pc'[s] \in Ending /\ pc'[q] \in Ending /\ held'[s] = held'[q] => s = q
    BY <1>8, <1>15 DEF RoutesOK, Ending
  <2> QED
    BY <1>12, <2>1, <2>2, <2>3, <2>4, <2>5, <2>6 DEF RoutesOK
<1>17. tables' \in [Tables -> TableRecords] /\ held' \in [Requests -> 0 .. MaxTables]
  <2>1. (IF last THEN h ELSE 0) \in 0 .. MaxTables
    BY <1>2
  <2>2. tables' \in [Tables -> TableRecords]
    BY <1>2, <1>5, <1>6 DEF Typed
  <2> QED
    BY <1>1, <2>1, <2>2 DEF Typed
<1> QED
  BY <1>5, <1>7, <1>16, <1>17

\* The closer of a table is done: aclose() has returned.
LEMMA CloseRoutes ==
  ASSUME Typed, RoutesOK, NEW r \in Requests, pc[r] \in Ending, UNCHANGED current,
         tables' = [tables EXCEPT ![held[r]] = NoTable], held' = [held EXCEPT ![r] = 0],
         NEW l \in {"idle", "body"}, pc' = [pc EXCEPT ![r] = l]
  PROVE  RoutesOK' /\ tables' \in [Tables -> TableRecords] /\ held' \in [Requests -> 0 .. MaxTables]
         /\ tables'[current].edit = tables[current].edit
<1>1. PICK h : h = held[r]
  OBVIOUS
<1>2. h \in Tables /\ tables[h].state = "closing" /\ h # current /\ current \in Tables
  BY <1>1 DEF RoutesOK, Typed
<1>3. PICK u : u = NoTable
  OBVIOUS
<1>4. u \in TableRecords /\ u.state = "gone" /\ u.active = 0 /\ ~u.leaked
  BY <1>3 DEF NoTable, TableRecords, Empty
<1>5. tables' = [tables EXCEPT ![h] = u]
  BY <1>1, <1>3
<1>6. /\ \A t \in Tables : t # h => tables'[t] = tables[t]
      /\ tables'[h] = u
  BY <1>2, <1>5 DEF Typed
<1>7. /\ \A s \in Requests : s # r => pc'[s] = pc[s] /\ held'[s] = held[s]
      /\ pc'[r] = l /\ held'[r] = 0
  BY DEF Typed
<1>8. l \notin Using /\ l \notin Ending /\ pc[r] \notin Using
  BY DEF Using, Ending
<1>9. \A t \in Tables : Users(t)' = Users(t)
  BY <1>7, <1>8 DEF Users, Using
<1>10. Cardinality(Users(h)) = 0
  BY <1>2, NoUsers
<1>e. Extra(h)' = 0 /\ \A t \in Tables : t # h => Extra(t)' = Extra(t)
  BY <1>4, <1>6 DEF Extra
<1>11. \A t \in Tables : /\ tables'[t].active = Cardinality(Users(t))' + Extra(t)'
                         /\ tables'[t].active > 0 => tables'[t].state = "live"
  <2> TAKE t \in Tables
  <2>1. CASE t = h
    BY <1>4, <1>6, <1>9, <1>10, <1>e, <2>1
  <2>2. CASE t # h
    BY <1>6, <1>9, <1>e, <2>2 DEF RoutesOK
  <2> QED
    BY <2>1, <2>2
<1>12. RoutesOK'
  <2>1. tables'[current'].state = "live" /\ ~tables'[current'].retired
    BY <1>2, <1>6 DEF RoutesOK
  <2>2. \A s \in Requests : pc'[s] \in Using \cup Ending => held'[s] \in Tables
    BY <1>7, <1>8 DEF RoutesOK
  <2>3. \A t \in Tables \ {current'} :
          tables'[t].state = "live" => tables'[t].active > 0 /\ tables'[t].retired
    BY <1>4, <1>6 DEF RoutesOK
  <2>4. \A t \in Tables :
          tables'[t].state = "closing" => \E s \in Requests : pc'[s] \in Ending /\ held'[s] = t
    <3> TAKE t \in Tables
    <3>1. CASE t = h
      BY <1>4, <1>6, <3>1
    <3>2. CASE t # h
      BY <1>1, <1>6, <1>7, <3>2 DEF RoutesOK
    <3> QED
      BY <3>1, <3>2
  <2>5. \A s \in Requests : pc'[s] \in Ending => tables'[held'[s]].state = "closing"
    <3> SUFFICES ASSUME NEW s \in Requests, pc'[s] \in Ending
                 PROVE  tables'[held'[s]].state = "closing"
      OBVIOUS
    <3>1. s # r /\ pc[s] \in Ending /\ held'[s] = held[s]
      BY <1>7, <1>8
    <3>2. held[s] # h /\ held[s] \in Tables
      BY <1>1, <3>1 DEF RoutesOK
    <3> QED
      BY <1>6, <3>1, <3>2 DEF RoutesOK
  <2>6. \A s, q \in Requests :
          pc'[s] \in Ending /\ pc'[q] \in Ending /\ held'[s] = held'[q] => s = q
    BY <1>7, <1>8 DEF RoutesOK
  <2> QED
    BY <1>11, <2>1, <2>2, <2>3, <2>4, <2>5, <2>6 DEF RoutesOK
<1>13. tables' \in [Tables -> TableRecords] /\ held' \in [Requests -> 0 .. MaxTables]
  <2>1. tables' \in [Tables -> TableRecords]
    BY <1>2, <1>4, <1>5 DEF Typed
  <2> QED
    BY <2>1 DEF Typed
<1> QED
  BY <1>2, <1>6, <1>12, <1>13

\* reload_upstreams: the new table is another one than that in use, which is kept
\* for its users or closed.
LEMMA SwapRoutesInv ==
  ASSUME Typed, RoutesOK, NEW r \in Requests, SwapRoutes(r)
  PROVE  /\ RoutesOK' /\ tables' \in [Tables -> TableRecords]
         /\ held' \in [Requests -> 0 .. MaxTables] /\ current' \in Tables
         /\ tables'[current'].edit = read[r].edit
<1>1. PICK n \in Tables :
        /\ tables[n].state = "gone" \/ Forgotten(tables[n])
        /\ current' = n
        /\ tables' = [tables EXCEPT ![n] = [NoTable EXCEPT !.state = "live", !.up = read[r].what,
                                                          !.edit = read[r].edit],
                                    ![current] = Retired(tables[current])]
  BY DEF SwapRoutes
<1>2. PICK c : c = current
  OBVIOUS
<1>3. PICK u : u = [NoTable EXCEPT !.state = "live", !.up = read[r].what, !.edit = read[r].edit]
  OBVIOUS
<1>4. PICK o : o = Retired(tables[c])
  OBVIOUS
<1>5. pc[r] = "loaded" /\ read[r] \in Readings /\ read[r].what # Broken
  BY DEF SwapRoutes, Typed
<1>6. /\ u \in TableRecords /\ u.state = "live" /\ u.active = 0 /\ ~u.retired /\ ~u.leaked
      /\ u.edit = read[r].edit
  <2>1. u = [state |-> "live", up |-> read[r].what, edit |-> read[r].edit,
             active |-> 0, retired |-> FALSE, leaked |-> FALSE]
    BY <1>3 DEF NoTable
  <2> QED
    BY <1>5, <2>1 DEF TableRecords, Readings
<1>7. c \in Tables /\ tables[c] \in TableRecords /\ tables[c].state = "live" /\ n # c
  BY <1>1, <1>2 DEF Typed, RoutesOK, Forgotten
<1>f. tables[n].state # "closing"
  <2>1. CASE Forgotten(tables[n])
    <3>1. tables[n].active = 1
      BY <2>1 DEF Forgotten
    <3> QED
      BY <3>1 DEF RoutesOK
  <2> QED
    BY <1>1, <2>1
<1>8. /\ o \in TableRecords /\ o.active = tables[c].active /\ o.retired
      /\ o.leaked = tables[c].leaked
      /\ o.state = IF tables[c].active = 0 THEN "closing" ELSE "live"
  BY <1>4, <1>7 DEF Retired, TableRecords
<1>9. tables' = [[tables EXCEPT ![n] = u] EXCEPT ![c] = o]
  BY <1>1, <1>2, <1>3, <1>4
<1>10. /\ \A t \in Tables : t # n /\ t # c => tables'[t] = tables[t]
       /\ tables'[n] = u /\ tables'[c] = o
  BY <1>1, <1>7, <1>9 DEF Typed
<1>11. /\ \A s \in Requests : s # r => pc'[s] = pc[s] /\ held'[s] = held[s]
       /\ \/ o.state = "closing" /\ pc'[r] = "retire" /\ held'[r] = c
          \/ o.state = "live" /\ pc'[r] = "body" /\ held'[r] = held[r]
       /\ held' \in [Requests -> 0 .. MaxTables]
  <2>1. CASE o.state = "closing"
    <3>1. held' = [held EXCEPT ![r] = c] /\ pc' = [pc EXCEPT ![r] = "retire"]
      BY <1>2, <1>10, <2>1 DEF SwapRoutes, Goto
    <3> QED
      BY <1>7, <2>1, <3>1 DEF Typed
  <2>2. CASE o.state # "closing"
    <3>1. held' = held /\ pc' = [pc EXCEPT ![r] = "body"]
      BY <1>2, <1>10, <2>2 DEF SwapRoutes, Reloaded, Goto
    <3> QED
      BY <1>8, <2>2, <3>1 DEF Typed
  <2> QED
    BY <2>1, <2>2
<1>12. \A s \in Requests : pc'[s] \in Using <=> (s # r /\ pc[s] \in Using)
  BY <1>5, <1>11 DEF Using
<1>13. \A t \in Tables : Users(t)' = Users(t)
  BY <1>5, <1>11, <1>12 DEF Users, Using
<1>14. Cardinality(Users(n)) = 0
  <2>1. tables[n].state # "live" \/ Forgotten(tables[n])
    BY <1>1
  <2> QED
    BY <2>1, NoUsers
<1>e. Extra(n)' = 0 /\ \A t \in Tables : t # n => Extra(t)' = Extra(t)
  BY <1>6, <1>8, <1>10 DEF Extra
<1>15. \A t \in Tables : /\ tables'[t].active = Cardinality(Users(t))' + Extra(t)'
                         /\ tables'[t].active > 0 => tables'[t].state = "live"
  <2> TAKE t \in Tables
  <2>1. CASE t = n
    BY <1>6, <1>10, <1>13, <1>14, <1>e, <2>1
  <2>2. CASE t = c
    BY <1>7, <1>8, <1>10, <1>13, <1>e, <2>2 DEF RoutesOK
  <2>3. CASE t # n /\ t # c
    BY <1>10, <1>13, <1>e, <2>3 DEF RoutesOK
  <2> QED
    BY <2>1, <2>2, <2>3
<1>16. \A s \in Requests : s # r /\ pc'[s] \in Ending => tables[held[s]].state = "closing"
                                                  /\ held[s] \in Tables
  BY <1>11 DEF RoutesOK
<1>17. RoutesOK'
  <2>1. tables'[current'].state = "live" /\ ~tables'[current'].retired
    BY <1>1, <1>6, <1>10
  <2>2. \A s \in Requests : pc'[s] \in Using \cup Ending => held'[s] \in Tables
    <3>1. pc'[r] \in Using \cup Ending => held'[r] \in Tables
      BY <1>7, <1>11 DEF Using, Ending
    <3> QED
      BY <1>11, <3>1 DEF RoutesOK
  <2>3. \A t \in Tables \ {current'} :
          tables'[t].state = "live" => tables'[t].active > 0 /\ tables'[t].retired
    <3> TAKE t \in Tables \ {current'}
    <3>1. CASE t = c
      BY <1>7, <1>8, <1>10, <3>1 DEF TableRecords
    <3>2. CASE t # c
      BY <1>1, <1>2, <1>10, <3>2 DEF RoutesOK
    <3> QED
      BY <3>1, <3>2
  <2>4. \A t \in Tables :
          tables'[t].state = "closing" => \E s \in Requests : pc'[s] \in Ending /\ held'[s] = t
    <3> TAKE t \in Tables
    <3>1. CASE t = n
      BY <1>6, <1>10, <3>1
    <3>2. CASE t = c
      BY <1>10, <1>11, <3>2 DEF Ending
    <3>3. CASE t # n /\ t # c
      BY <1>5, <1>10, <1>11, <3>3 DEF RoutesOK, Ending
    <3> QED
      BY <3>1, <3>2, <3>3
  <2>5. \A s \in Requests : pc'[s] \in Ending => tables'[held'[s]].state = "closing"
    <3> TAKE s \in Requests
    <3>1. CASE s = r
      BY <1>10, <1>11, <3>1 DEF Ending
    <3>2. CASE s # r
      <4> SUFFICES ASSUME pc'[s] \in Ending PROVE tables'[held'[s]].state = "closing"
        OBVIOUS
      <4>1. tables[held[s]].state = "closing" /\ held[s] \in Tables
        BY <1>16, <3>2
      <4>2. held[s] # n /\ held[s] # c
        BY <1>7, <1>f, <4>1
      <4>3. held'[s] = held[s]
        BY <1>11, <3>2
      <4> QED
        BY <1>10, <4>1, <4>2, <4>3
    <3> QED
      BY <3>1, <3>2
  <2>6. \A s \in Requests : s # r /\ pc'[s] \in Ending => held'[s] # c
    BY <1>7, <1>11, <1>16
  <2>7. \A s, q \in Requests :
          pc'[s] \in Ending /\ pc'[q] \in Ending /\ held'[s] = held'[q] => s = q
    <3> TAKE s, q \in Requests
    <3>1. pc'[r] \in Ending => held'[r] = c
      BY <1>11 DEF Ending
    <3>2. CASE s # r /\ q # r
      BY <1>11, <3>2 DEF RoutesOK
    <3>3. CASE s = r \/ q = r
      BY <2>6, <3>1, <3>3
    <3> QED
      BY <3>2, <3>3
  <2> QED
    BY <1>15, <2>1, <2>2, <2>3, <2>4, <2>5, <2>7 DEF RoutesOK
<1>18. tables' \in [Tables -> TableRecords]
  BY <1>1, <1>6, <1>7, <1>8, <1>9 DEF Typed
<1> QED
  BY <1>1, <1>6, <1>10, <1>11, <1>17, <1>18
-------------------------------------------------------------------------------
(* The steps.                                                               *)

\* A request moves on, and the tables and the lock are left alone.
LEMMA QuietStep ==
  ASSUME IInv, NEW r \in Requests, NEW l \in Labels, Goto(r, l),
         UNCHANGED <<file, lock, current, tables, read, held>>,
         pc[r] \in Using <=> l \in Using, pc[r] \in Ending <=> l \in Ending,
         l \notin Reloading
  PROVE  IInv'
<1>1. /\ \A s \in Requests : s # r => pc'[s] = pc[s]
      /\ pc'[r] = l /\ pc' \in [Requests -> Labels]
  BY DEF Goto, IInv, Typed
<1>2. RoutesOK'
  <2>1. \A s \in Requests : /\ pc'[s] \in Using <=> pc[s] \in Using
                            /\ pc'[s] \in Ending <=> pc[s] \in Ending
    BY <1>1
  <2> QED
    BY <2>1, QuietRoutes DEF IInv
<1>3. OrderOK'
  BY <1>1 DEF IInv, OrderOK, Reloading
<1>4. Typed'
  BY <1>1 DEF IInv, Typed
<1> QED
  BY <1>2, <1>3, <1>4 DEF IInv

\* The reloader moves on: it takes the lock, reads, or gives the lock back.
LEMMA ReloadStep ==
  ASSUME IInv, NEW r \in Requests, NEW l \in Labels, NEW w \in Readings, Goto(r, l),
         read' = [read EXCEPT ![r] = w], UNCHANGED <<file, current, tables, held>>,
         pc[r] \notin Using \cup Ending, l \notin Using \cup Ending,
         \/ lock = Nobody /\ lock' = r /\ l = "load"
         \/ lock = r /\ lock' = r /\ l = "loaded" /\ w.edit = file.edit
         \/ lock = r /\ lock' = Nobody /\ l = "body"
  PROVE  IInv'
<1>1. /\ \A s \in Requests : s # r => pc'[s] = pc[s] /\ read'[s] = read[s]
      /\ pc'[r] = l /\ pc' \in [Requests -> Labels]
      /\ read'[r] = w /\ read' \in [Requests -> Readings]
  BY DEF Goto, IInv, Typed
<1>2. RoutesOK'
  <2>1. \A s \in Requests : /\ pc'[s] \in Using <=> pc[s] \in Using
                            /\ pc'[s] \in Ending <=> pc[s] \in Ending
    BY <1>1
  <2> QED
    BY <2>1, QuietRoutes DEF IInv
<1>3. \A s \in Requests : s # r => pc[s] \notin Reloading
  BY DEF IInv, OrderOK
<1>4. OrderOK'
  <2>1. \A s \in Requests : pc'[s] \in Reloading => lock' = s
    BY <1>1, <1>3 DEF Reloading
  <2>2. tables'[current'].edit <= file'.edit
    BY DEF IInv, OrderOK
  <2>3. \A s \in Requests : pc'[s] = "loaded" => s = r /\ w.edit = file.edit
    BY <1>1, <1>3 DEF Reloading
  <2>4. \A s \in Requests :
          pc'[s] = "loaded" => tables'[current'].edit <= read'[s].edit
                               /\ read'[s].edit <= file'.edit
    <3> SUFFICES ASSUME NEW s \in Requests, pc'[s] = "loaded"
                 PROVE  tables'[current'].edit <= read'[s].edit
                        /\ read'[s].edit <= file'.edit
      OBVIOUS
    <3>1. read'[s].edit = file'.edit
      BY <1>1, <2>3
    <3>2. file'.edit \in Nat
      BY DEF IInv, Typed
    <3> QED
      BY <2>2, <3>1, <3>2
  <2> QED
    BY <2>1, <2>2, <2>4 DEF OrderOK
<1>5. Typed'
  BY <1>1 DEF IInv, Typed
<1> QED
  BY <1>2, <1>4, <1>5 DEF IInv

\* _acquire_routes, with what follows up to the next await.
LEMMA AcquireStep ==
  ASSUME IInv, NEW r \in Requests, pc[r] = "policy", Acquired(r),
         NEW l \in Using, Goto(r, l), UNCHANGED <<file, lock, current, read>>
  PROVE  IInv'
<1>1. pc' = [pc EXCEPT ![r] = l]
  BY DEF Goto
<1>2. RoutesOK' /\ tables' \in [Tables -> TableRecords] /\ held' \in [Requests -> 0 .. MaxTables]
      /\ \A t \in Tables : tables'[t].edit = tables[t].edit
  BY <1>1, AcquireRoutes DEF IInv
<1>3. /\ \A s \in Requests : s # r => pc'[s] = pc[s]
      /\ pc'[r] = l /\ pc' \in [Requests -> Labels]
  BY <1>1 DEF IInv, Typed, Using, Labels
<1>4. OrderOK'
  BY <1>2, <1>3 DEF IInv, OrderOK, Reloading, Using, Typed
<1>5. Typed'
  BY <1>2, <1>3 DEF IInv, Typed
<1> QED
  BY <1>2, <1>4, <1>5 DEF IInv

\* A request that could not read the controls.
LEMMA ControlsFailStep ==
  ASSUME IInv, NEW r \in Requests, ControlsFail(r)
  PROVE  IInv'
<1>1. RoutesOK' /\ tables' \in [Tables -> TableRecords]
      /\ \A t \in Tables : tables'[t].edit = tables[t].edit
  BY LeakRoutes DEF IInv
<1>2. pc[r] = "policy" /\ UNCHANGED <<file, lock, current, read, held>>
      /\ pc' = [pc EXCEPT ![r] = "idle"]
  BY DEF ControlsFail, config, Goto
<1>3. /\ \A s \in Requests : s # r => pc'[s] = pc[s]
      /\ pc'[r] = "idle" /\ pc' \in [Requests -> Labels]
  BY <1>2 DEF IInv, Typed, Labels
<1>4. OrderOK'
  BY <1>1, <1>2, <1>3 DEF IInv, OrderOK, Reloading, Typed
<1>5. Typed'
  BY <1>1, <1>2, <1>3 DEF IInv, Typed
<1> QED
  BY <1>1, <1>4, <1>5 DEF IInv

\* The last request to leave a table, and any other.
LEMMA LeaveStep ==
  ASSUME IInv, NEW r \in Requests, Leave(r)
  PROVE  IInv'
<1>1. RoutesOK' /\ tables' \in [Tables -> TableRecords] /\ held' \in [Requests -> 0 .. MaxTables]
      /\ \A t \in Tables : tables'[t].edit = tables[t].edit
  BY LeaveRoutes DEF IInv
<1>2. UNCHANGED <<file, lock, current, read>>
  BY DEF Leave, config
<1>3. /\ \A s \in Requests : s # r => pc'[s] = pc[s]
      /\ pc'[r] \in {"idle", "close"} /\ pc' \in [Requests -> Labels]
  BY DEF Leave, Goto, IInv, Typed, Labels
<1>4. OrderOK'
  BY <1>1, <1>2, <1>3 DEF IInv, OrderOK, Reloading, Typed
<1>5. Typed'
  BY <1>1, <1>2, <1>3 DEF IInv, Typed
<1> QED
  BY <1>1, <1>4, <1>5 DEF IInv

LEMMA ClosedStep ==
  ASSUME IInv, NEW r \in Requests, Closed(r)
  PROVE  IInv'
<1>1. pc[r] = "close" /\ UNCHANGED <<file, lock, current, read>>
      /\ tables' = [tables EXCEPT ![held[r]] = NoTable] /\ held' = [held EXCEPT ![r] = 0]
      /\ pc' = [pc EXCEPT ![r] = "idle"]
  BY DEF Closed, config, Goto
<1>2. RoutesOK' /\ tables' \in [Tables -> TableRecords] /\ held' \in [Requests -> 0 .. MaxTables]
      /\ tables'[current].edit = tables[current].edit
  BY <1>1, CloseRoutes DEF IInv, Ending
<1>3. /\ \A s \in Requests : s # r => pc'[s] = pc[s]
      /\ pc'[r] = "idle" /\ pc' \in [Requests -> Labels]
  BY <1>1 DEF IInv, Typed, Labels
<1>4. OrderOK'
  BY <1>1, <1>2, <1>3 DEF IInv, OrderOK, Reloading
<1>5. Typed'
  BY <1>1, <1>2, <1>3 DEF IInv, Typed
<1> QED
  BY <1>2, <1>4, <1>5 DEF IInv

LEMMA OldRoutesClosedStep ==
  ASSUME IInv, NEW r \in Requests, OldRoutesClosed(r)
  PROVE  IInv'
<1>1. pc[r] = "retire" /\ UNCHANGED <<file, current>> /\ lock' = Nobody
      /\ tables' = [tables EXCEPT ![held[r]] = NoTable] /\ held' = [held EXCEPT ![r] = 0]
      /\ pc' = [pc EXCEPT ![r] = "body"] /\ read' = [read EXCEPT ![r] = NothingRead]
  BY DEF OldRoutesClosed, config, Reloaded, Goto
<1>2. RoutesOK' /\ tables' \in [Tables -> TableRecords] /\ held' \in [Requests -> 0 .. MaxTables]
      /\ tables'[current].edit = tables[current].edit
  BY <1>1, CloseRoutes DEF IInv, Ending
<1>3. /\ \A s \in Requests : s # r => pc'[s] = pc[s]
      /\ pc'[r] = "body" /\ pc' \in [Requests -> Labels]
  BY <1>1 DEF IInv, Typed, Labels
<1>4. \A s \in Requests : pc'[s] \notin Reloading
  BY <1>1, <1>3 DEF IInv, OrderOK, Reloading
<1>5. OrderOK'
  <2>1. tables'[current'].edit <= file'.edit
    BY <1>1, <1>2 DEF IInv, OrderOK
  <2> QED
    BY <1>4, <2>1 DEF OrderOK, Reloading
<1>6. read' \in [Requests -> Readings]
  BY <1>1 DEF IInv, Typed, NothingRead, Readings
<1>7. Typed'
  BY <1>1, <1>2, <1>3, <1>6 DEF IInv, Typed
<1> QED
  BY <1>2, <1>5, <1>7 DEF IInv

LEMMA SwapStep ==
  ASSUME IInv, NEW r \in Requests, SwapRoutes(r)
  PROVE  IInv' /\ tables'[current'].edit >= tables[current].edit
<1>1. /\ RoutesOK' /\ tables' \in [Tables -> TableRecords]
      /\ held' \in [Requests -> 0 .. MaxTables] /\ current' \in Tables
      /\ tables'[current'].edit = read[r].edit
  BY SwapRoutesInv DEF IInv
<1>2. pc[r] = "loaded" /\ UNCHANGED file
  BY DEF SwapRoutes, config
<1>3. \/ lock' = lock /\ read' = read /\ pc' = [pc EXCEPT ![r] = "retire"]
      \/ lock' = Nobody /\ read' = [read EXCEPT ![r] = NothingRead]
         /\ pc' = [pc EXCEPT ![r] = "body"]
  BY DEF SwapRoutes, Reloaded, Goto
<1>4. /\ \A s \in Requests : s # r => pc'[s] = pc[s]
      /\ pc'[r] \in {"retire", "body"} /\ pc' \in [Requests -> Labels]
      /\ pc'[r] = "retire" => lock' = lock
  BY <1>3 DEF IInv, Typed, Labels
<1>5. read' \in [Requests -> Readings] /\ lock' \in Requests \cup {Nobody}
  <2>1. NothingRead \in Readings
    BY DEF NothingRead, Readings
  <2>2. read \in [Requests -> Readings] /\ lock \in Requests \cup {Nobody}
    BY DEF IInv, Typed
  <2>3. [read EXCEPT ![r] = NothingRead] \in [Requests -> Readings]
    BY <2>1, <2>2
  <2> QED
    BY <1>3, <2>2, <2>3
<1>6. lock = r /\ tables[current].edit <= read[r].edit /\ read[r].edit <= file.edit
  BY <1>2 DEF IInv, OrderOK, Reloading
<1>7. OrderOK'
  <2>1. \A s \in Requests : s # r => pc'[s] \notin Reloading
    BY <1>4, <1>6 DEF IInv, OrderOK
  <2>2. \A s \in Requests : pc'[s] # "loaded"
    BY <1>4, <2>1 DEF Reloading
  <2>3. \A s \in Requests : pc'[s] \in Reloading => lock' = s
    BY <1>4, <1>6, <2>1 DEF Reloading
  <2>4. tables'[current'].edit <= file'.edit
    BY <1>1, <1>2, <1>6
  <2> QED
    BY <2>2, <2>3, <2>4 DEF OrderOK
<1>8. Typed'
  BY <1>1, <1>2, <1>4, <1>5 DEF IInv, Typed
<1>9. tables'[current'].edit >= tables[current].edit
  <2>1. tables[current].edit \in Nat /\ read[r].edit \in Nat
    BY DEF IInv, Typed, TableRecords, Readings
  <2> QED
    BY <1>1, <1>6, <2>1
<1> QED
  BY <1>1, <1>7, <1>8, <1>9 DEF IInv
-------------------------------------------------------------------------------
\* What FanOut leaves behind, by its two disjuncts.
LEMMA FanOutGoes ==
  ASSUME NEW r, NEW l, NEW todo, NEW off, NEW ok, NEW bad, FanOut(r, l, todo, off, ok, bad)
  PROVE  \E p \in Using : Goto(r, p)
<1>1. Goto(r, "forward") \/ Goto(r, "leave")
  BY DEF FanOut
<1> QED
  BY <1>1 DEF Using

LEMMA AcquireSteps ==
  ASSUME IInv, NEW r \in Requests,
         AcquireRefused(r) \/ AcquireCall(r) \/ AcquireDefault(r) \/ AcquireList(r)
  PROVE  IInv'
<1>1. pc[r] = "policy" /\ Acquired(r) /\ UNCHANGED <<file, lock, current, read>>
  BY DEF AcquireRefused, AcquireCall, AcquireDefault, AcquireList, config
<1>2. \E p \in Using : Goto(r, p)
  <2>1. CASE AcquireRefused(r)
    BY <2>1 DEF AcquireRefused, Using
  <2>2. CASE AcquireCall(r)
    BY <2>2 DEF AcquireCall, Using
  <2>3. CASE AcquireDefault(r)
    BY <2>3 DEF AcquireDefault, Using
  <2>4. CASE AcquireList(r)
    <3>1. PICK off \in SUBSET Names(Up) : FanOut(r, Up, Names(Up), off, {}, {})
      BY <2>4 DEF AcquireList
    <3> QED
      BY <3>1, FanOutGoes
  <2> QED
    BY <2>1, <2>2, <2>3, <2>4
<1> QED
  BY <1>1, <1>2, AcquireStep

LEMMA ForwardSteps ==
  ASSUME IInv, NEW r \in Requests,
         Return(r) \/ ReturnList(r) \/ StreamFails(r) \/ Cancel(r)
  PROVE  IInv'
<1>1. pc[r] = "forward" /\ UNCHANGED <<file, lock, current, tables, read, held>>
  BY DEF Return, ReturnList, StreamFails, Cancel, config, routes
<1>2. \E p \in Using : Goto(r, p)
  <2>1. CASE Return(r) \/ StreamFails(r) \/ Cancel(r)
    BY <2>1 DEF Return, StreamFails, Cancel, Using
  <2>2. CASE ReturnList(r)
    <3>1. PICK bad \in SUBSET {Asked(r)} :
            FanOut(r, Of(r), job[r].todo \ {Asked(r)}, job[r].off,
                   job[r].ok \cup ({Asked(r)} \ bad), bad)
      BY <2>2 DEF ReturnList
    <3> QED
      BY <3>1, FanOutGoes
  <2> QED
    BY <2>1, <2>2
<1>3. PICK p \in Using : Goto(r, p)
  BY <1>2
<1>4. p \in Labels /\ p \notin Ending /\ p \notin Reloading
  BY DEF Using, Labels, Ending, Reloading
<1>5. pc[r] \in Using /\ pc[r] \notin Ending
  BY <1>1 DEF Using, Ending
<1> QED
  BY <1>1, <1>3, <1>4, <1>5, QuietStep

LEMMA OtherSteps ==
  ASSUME IInv, NEW r \in Requests,
         Arrive(r) \/ ControlsUnread(r) \/ SkipReload(r) \/ Describe(r)
                   \/ PolicyRefuses(r)
  PROVE  IInv'
<1>1. /\ UNCHANGED <<file, lock, current, tables, read, held>>
      /\ pc[r] \in {"idle", "lock", "body", "policy"}
      /\ \E l \in {"idle", "lock", "body", "policy"} : Goto(r, l)
  <2>1. CASE Arrive(r)
    BY <2>1 DEF Arrive, config, routes
  <2>2. CASE ControlsUnread(r) \/ SkipReload(r) \/ Describe(r) \/ PolicyRefuses(r)
    BY <2>2 DEF ControlsUnread, SkipReload, Describe, PolicyRefuses, config, routes
  <2> QED
    BY <2>1, <2>2
<1>2. PICK l \in {"idle", "lock", "body", "policy"} : Goto(r, l)
  BY <1>1
<1>3. l \in Labels /\ l \notin Using /\ l \notin Ending /\ l \notin Reloading
  BY DEF Labels, Using, Ending, Reloading
<1>4. pc[r] \notin Using /\ pc[r] \notin Ending
  BY <1>1 DEF Using, Ending
<1> QED
  BY <1>1, <1>2, <1>3, <1>4, QuietStep

LEMMA ReloadSteps ==
  ASSUME IInv, NEW r \in Requests,
         StartReload(r) \/ Load(r) \/ LoadFails(r) \/ SameRoutes(r)
  PROVE  IInv'
<1>1. NothingRead \in Readings
  BY DEF NothingRead, Readings
<1>2. {"load", "loaded", "body"} \subseteq Labels
      /\ {"lock", "load", "loaded", "body"} \cap (Using \cup Ending) = {}
  BY DEF Labels, Using, Ending
<1>3. CASE StartReload(r)
  <2>1. PICK f \in BOOLEAN : read' = [read EXCEPT ![r] = [NothingRead EXCEPT !.force = f]]
    BY <1>3 DEF StartReload
  <2>2. [NothingRead EXCEPT !.force = f] \in Readings
    BY DEF NothingRead, Readings
  <2>3. pc[r] = "lock" /\ lock = Nobody /\ lock' = r /\ Goto(r, "load")
        /\ UNCHANGED <<file, current, tables, held>>
    BY <1>3 DEF StartReload, routes
  <2>4. pc[r] \notin Using \cup Ending /\ "load" \notin Using \cup Ending /\ "load" \in Labels
    BY <1>2, <2>3
  <2> QED
    BY <2>1, <2>2, <2>3, <2>4, ReloadStep
<1>4. CASE Load(r)
  <2>1. PICK w : w = [[read[r] EXCEPT !.what = file.what] EXCEPT !.edit = file.edit]
    OBVIOUS
  <2>2. w \in Readings /\ w.edit = file.edit
    <3>1. read[r] \in Readings /\ file \in [what : Layouts \cup {Broken}, edit : Nat]
      BY DEF IInv, Typed
    <3> QED
      BY <2>1, <3>1 DEF Readings
  <2>3. read' = [read EXCEPT ![r] = w]
    BY <1>4, <2>1 DEF Load, IInv, Typed, Readings
  <2>4. pc[r] = "load" /\ lock' = lock /\ Goto(r, "loaded")
        /\ UNCHANGED <<file, current, tables, held>>
    BY <1>4 DEF Load, config, routes
  <2>5. lock = r
    BY <2>4 DEF IInv, OrderOK, Reloading
  <2>6. pc[r] \notin Using \cup Ending /\ "loaded" \notin Using \cup Ending /\ "loaded" \in Labels
    BY <1>2, <2>4
  <2> QED
    BY <2>2, <2>3, <2>4, <2>5, <2>6, ReloadStep
<1>5. CASE LoadFails(r) \/ SameRoutes(r)
  <2>1. pc[r] = "loaded" /\ lock' = Nobody /\ read' = [read EXCEPT ![r] = NothingRead]
        /\ Goto(r, "body") /\ UNCHANGED <<file, current, tables, held>>
    BY <1>5 DEF LoadFails, SameRoutes, Reloaded, config, routes
  <2>2. lock = r
    BY <2>1 DEF IInv, OrderOK, Reloading
  <2>3. pc[r] \notin Using \cup Ending /\ "body" \notin Using \cup Ending /\ "body" \in Labels
    BY <1>2, <2>1
  <2> QED
    BY <1>1, <2>1, <2>2, <2>3, ReloadStep
<1> QED
  BY <1>3, <1>4, <1>5

\* A step that leaves all of it alone, and an edit of the file.
LEMMA StillStep ==
  ASSUME IInv, UNCHANGED <<lock, current, tables, pc, read, held>>,
         file' \in [what : Layouts \cup {Broken}, edit : Nat], file.edit <= file'.edit
  PROVE  IInv'
<1>1. RoutesOK'
  BY QuietRoutes DEF IInv
<1>2. OrderOK'
  <2>1. tables[current].edit \in Nat /\ file.edit \in Nat /\ file'.edit \in Nat
    BY DEF IInv, Typed, TableRecords
  <2>2. \A r \in Requests : read[r].edit \in Nat
    BY DEF IInv, Typed, Readings
  <2>3. tables'[current'].edit <= file'.edit
    BY <2>1 DEF IInv, OrderOK
  <2>4. \A r \in Requests :
          pc'[r] = "loaded" => tables'[current'].edit <= read'[r].edit
                               /\ read'[r].edit <= file'.edit
    BY <2>1, <2>2 DEF IInv, OrderOK
  <2>5. \A r \in Requests : pc'[r] \in Reloading => lock' = r
    BY DEF IInv, OrderOK
  <2> QED
    BY <2>3, <2>4, <2>5 DEF OrderOK
<1>3. Typed'
  BY DEF IInv, Typed
<1> QED
  BY <1>1, <1>2, <1>3 DEF IInv

LEMMA StepInv == IInv /\ [Next]_vars => IInv'
<1> SUFFICES ASSUME IInv, [Next]_vars PROVE IInv'
  OBVIOUS
<1>1. file \in [what : Layouts \cup {Broken}, edit : Nat] /\ file.edit <= file.edit
  BY DEF IInv, Typed
<1>2. CASE IntervalOver \/ (\E u \in Upstreams : CooldownOver(u)) \/ UNCHANGED vars
  <2>1. UNCHANGED <<file, lock, current, tables, pc, read, held>>
    BY <1>2 DEF IntervalOver, CooldownOver, vars, config, routes, tasks
  <2> QED
    BY <1>1, <2>1, StillStep
<1>3. CASE Edit
  <2>1. UNCHANGED <<lock, current, tables, pc, read, held>>
    BY <1>3 DEF Edit, routes, tasks
  <2>2. PICK w \in Layouts \cup {Broken} : file' = [what |-> w, edit |-> file.edit + 1]
    BY <1>3 DEF Edit
  <2>3. file' \in [what : Layouts \cup {Broken}, edit : Nat] /\ file.edit <= file'.edit
    BY <1>1, <2>2
  <2> QED
    BY <2>1, <2>3, StillStep
<1>4. ASSUME NEW r \in Requests, Reload(r) PROVE IInv'
  <2>1. CASE ControlsUnread(r) \/ SkipReload(r)
    BY <2>1, OtherSteps
  <2>2. CASE StartReload(r) \/ Load(r) \/ LoadFails(r) \/ SameRoutes(r)
    BY <2>2, ReloadSteps
  <2>3. CASE SwapRoutes(r)
    BY <2>3, SwapStep
  <2>4. CASE OldRoutesClosed(r)
    BY <2>4, OldRoutesClosedStep
  <2> QED
    BY <1>4, <2>1, <2>2, <2>3, <2>4 DEF Reload
<1>5. ASSUME NEW r \in Requests, Handle(r) PROVE IInv'
  <2>1. CASE Describe(r) \/ PolicyRefuses(r)
    BY <2>1, OtherSteps
  <2>2. CASE AcquireRefused(r) \/ AcquireCall(r) \/ AcquireDefault(r) \/ AcquireList(r)
    BY <2>2, AcquireSteps
  <2>3. CASE Return(r) \/ ReturnList(r) \/ StreamFails(r)
    BY <2>3, ForwardSteps
  <2>4. CASE Leave(r)
    BY <2>4, LeaveStep
  <2>5. CASE Closed(r)
    BY <2>5, ClosedStep
  <2>6. CASE ControlsFail(r)
    BY <2>6, ControlsFailStep
  <2> QED
    BY <1>5, <2>1, <2>2, <2>3, <2>4, <2>5, <2>6 DEF Handle
<1>6. ASSUME NEW r \in Requests, Arrive(r) \/ Cancel(r) PROVE IInv'
  BY <1>6, OtherSteps, ForwardSteps
<1> QED
  BY <1>2, <1>3, <1>4, <1>5, <1>6 DEF Next

\* The inductive invariant of the route tables.
THEOREM Invariance == Spec => []IInv
<1>1. Init /\ [][Next]_vars => []IInv
  BY InitInv, StepInv, PTL
<1> QED
  BY <1>1, PTL DEF Spec

\* A table is not closed under a request in flight, for any number of requests
\* and reloads.
THEOREM SnapshotStandsHolds == Spec => []SnapshotStands
<1>1. IInv => SnapshotStands
  BY DEF IInv, RoutesOK, SnapshotStands, Extra
<1> QED
  BY <1>1, Invariance, PTL

\* A replaced table is kept by its users, or by a count that a failed reading of the
\* controls left behind, and is closed by exactly one task.
THEOREM NoTableLeftHolds == Spec => []NoTableLeft
<1>1. IInv => NoTableLeft
  <2> SUFFICES ASSUME IInv, NEW t \in Tables \ {current}
               PROVE  /\ tables[t].state = "live" =>
                           tables[t].retired /\ (Users(t) # {} \/ tables[t].leaked)
                      /\ tables[t].state = "closing" <=> Cardinality(Closers(t)) = 1
                      /\ Cardinality(Closers(t)) <= 1
    BY DEF NoTableLeft
  <2>1. \A r \in Requests : r \in Closers(t) <=> (held[r] = t /\ pc[r] \in Ending)
    BY DEF Closers, Ending
  <2>2. tables[t].state = "live" => tables[t].retired /\ (Users(t) # {} \/ tables[t].leaked)
    <3>1. CASE Users(t) = {} /\ ~tables[t].leaked
      <4>1. tables[t].active = Cardinality(Users(t)) + Extra(t)
        BY DEF IInv, RoutesOK
      <4>2. Cardinality(Users(t)) = 0 /\ Extra(t) = 0
        BY <3>1, FS_EmptySet DEF Extra
      <4>3. tables[t].active = 0
        BY <4>1, <4>2
      <4> QED
        BY <4>3 DEF IInv, RoutesOK
    <3> QED
      BY <3>1 DEF IInv, RoutesOK
  <2>3. CASE tables[t].state = "closing"
    <3>1. PICK r \in Requests : pc[r] \in Ending /\ held[r] = t
      BY <2>3 DEF IInv, RoutesOK
    <3>2. Closers(t) = {r}
      <4>1. r \in Closers(t)
        BY <2>1, <3>1
      <4>2. \A s \in Closers(t) : s \in Requests /\ s = r
        BY <2>1, <3>1 DEF IInv, RoutesOK, Closers
      <4> QED
        BY <4>1, <4>2
    <3>3. Cardinality(Closers(t)) = 1
      BY <3>2, FS_Singleton
    <3> QED
      BY <2>2, <2>3, <3>3
  <2>4. CASE tables[t].state # "closing"
    <3>1. \A r \in Requests : r \notin Closers(t)
      BY <2>1, <2>4 DEF IInv, RoutesOK
    <3>2. Closers(t) = {}
      BY <3>1 DEF Closers
    <3>3. Cardinality(Closers(t)) = 0
      BY <3>2, FS_EmptySet
    <3> QED
      BY <2>2, <2>4, <3>3
  <2> QED
    BY <2>3, <2>4
<1> QED
  BY <1>1, Invariance, PTL

\* A slow reload never puts an older reading of the file over a newer one.
THEOREM ReloadOrderHolds == Spec => ReloadOrder
<1>1. IInv /\ [Next]_vars => [tables'[current'].edit >= tables[current].edit]_vars
  <2> SUFFICES ASSUME IInv, Next PROVE tables'[current'].edit >= tables[current].edit
    BY DEF vars
  <2>1. tables[current].edit \in Nat /\ current \in Tables
    BY DEF IInv, Typed, TableRecords
  <2>2. ASSUME tables'[current] = tables[current] \/ tables'[current].edit = tables[current].edit,
               current' = current
        PROVE  tables'[current'].edit >= tables[current].edit
    BY <2>1, <2>2
  <2>3. CASE IntervalOver \/ Edit \/ \E u \in Upstreams : CooldownOver(u)
    <3>1. UNCHANGED <<current, tables>>
      BY <2>3 DEF IntervalOver, Edit, CooldownOver, routes
    <3> QED
      BY <2>2, <3>1
  <2>4. ASSUME NEW r \in Requests, Arrive(r) \/ Reload(r) \/ Handle(r) \/ Cancel(r)
        PROVE  tables'[current'].edit >= tables[current].edit
    <3>1. CASE \/ Arrive(r) \/ StartReload(r) \/ ControlsUnread(r) \/ SkipReload(r)
               \/ Load(r) \/ LoadFails(r)
               \/ SameRoutes(r) \/ Describe(r) \/ PolicyRefuses(r) \/ Return(r)
               \/ ReturnList(r) \/ StreamFails(r) \/ Cancel(r)
      <4>1. UNCHANGED <<current, tables>>
        BY <3>1 DEF Arrive, StartReload, ControlsUnread, SkipReload, Load, LoadFails,
                    SameRoutes, Describe,
                    PolicyRefuses, Return, ReturnList, StreamFails, Cancel, routes
      <4> QED
        BY <2>2, <4>1
    <3>2. CASE SwapRoutes(r)
      BY <3>2, SwapStep
    <3>3. CASE OldRoutesClosed(r) \/ Closed(r)
      <4>1. \E l \in {"idle", "body"} : pc' = [pc EXCEPT ![r] = l]
        BY <3>3 DEF OldRoutesClosed, Closed, Reloaded, Goto
      <4>2. pc[r] \in Ending /\ UNCHANGED current /\ held' = [held EXCEPT ![r] = 0]
            /\ tables' = [tables EXCEPT ![held[r]] = NoTable]
        BY <3>3 DEF OldRoutesClosed, Closed, Ending
      <4>3. tables'[current].edit = tables[current].edit
        BY <4>1, <4>2, CloseRoutes DEF IInv
      <4> QED
        BY <2>2, <4>2, <4>3
    <3>4. CASE AcquireRefused(r) \/ AcquireCall(r) \/ AcquireDefault(r) \/ AcquireList(r)
      <4>1. Acquired(r) /\ UNCHANGED current
        BY <3>4 DEF AcquireRefused, AcquireCall, AcquireDefault, AcquireList
      <4>2. tables[current] \in TableRecords
        BY <2>1 DEF IInv, Typed
      <4>3. tables'[current].edit = tables[current].edit
        BY <2>1, <4>1, <4>2 DEF Acquired, IInv, Typed, TableRecords
      <4> QED
        BY <2>2, <4>1, <4>3
    <3>5. CASE Leave(r)
      <4>1. tables'[current].edit = tables[current].edit
        BY <2>1, <3>5, LeaveRoutes DEF IInv
      <4>2. current' = current
        BY <3>5 DEF Leave
      <4> QED
        BY <2>2, <4>1, <4>2
    <3>6. CASE ControlsFail(r)
      <4>1. tables'[current].edit = tables[current].edit
        BY <2>1, <3>6, LeakRoutes DEF IInv
      <4>2. current' = current
        BY <3>6 DEF ControlsFail
      <4> QED
        BY <2>2, <4>1, <4>2
    <3> QED
      BY <2>4, <3>1, <3>2, <3>3, <3>4, <3>5, <3>6 DEF Reload, Handle
  <2> QED
    BY <2>3, <2>4 DEF Next
<1> QED
  BY <1>1, Invariance, PTL DEF Spec, ReloadOrder
-------------------------------------------------------------------------------
(* Health.                                                                  *)

LEMMA MinTwo ==
  ASSUME NEW a \in Nat, NEW b \in Nat
  PROVE  Min({a, b}) = IF a <= b THEN a ELSE b
<1>1. CASE a <= b
  <2>1. a \in {a, b} /\ \A y \in {a, b} : a =< y
    BY <1>1
  <2>2. \A x \in {a, b} : (\A y \in {a, b} : x =< y) => x = a
    BY <1>1
  <2> QED
    BY <1>1, <2>1, <2>2 DEF Min
<1>2. CASE ~(a <= b)
  <2>1. b \in {a, b} /\ \A y \in {a, b} : b =< y
    BY <1>2
  <2>2. \A x \in {a, b} : (\A y \in {a, b} : x =< y) => x = b
    BY <1>2
  <2> QED
    BY <1>2, <2>1, <2>2 DEF Min
<1> QED
  BY <1>1, <1>2

LEMMA MinIn ==
  ASSUME NEW S \in SUBSET Nat, S # {}
  PROVE  Min(S) \in S /\ \A y \in S : Min(S) <= y
<1>1. PICK x \in S : \A y \in S : ~ (<<y, x>> \in OpToRel(<, Nat))
  BY NatLessThanWellFounded, WFMin
<1>2. \A y \in S : x =< y
  <2> SUFFICES ASSUME NEW y \in S PROVE x =< y
    OBVIOUS
  <2>1. ~ (y < x)
    BY <1>1, Zenon DEF OpToRel
  <2> QED
    BY <2>1
<1> QED
  BY <1>2 DEF Min

Definitions == [Upstreams -> Versions \cup {Absent}]
HealthRecords == [fp : Versions \cup {Absent}, status : {"healthy", "degraded", "unhealthy"},
                  fails : 0 .. Threshold, cooling : BOOLEAN]
Counts == [Versions -> 0 .. Threshold]

\* An entry that no failure of another definition is in, by the failures s.
Blameless(e, s) ==
  /\ e \in HealthRecords
  /\ e.fp # Absent => /\ e.fails <= s[e.fp]
                      /\ e.status = "unhealthy" => s[e.fp] = Threshold

MarksOK ==
  /\ health \in [Upstreams -> HealthRecords]
  /\ streak \in [Upstreams -> Counts]
  /\ \A u \in Upstreams : Blameless(health[u], streak[u])

LEMMA LayoutsDefine ==
  Layouts \cup {Empty} \subseteq Definitions
BY DEF Empty, Definitions

LEMMA FreshBlameless ==
  ASSUME NEW fp \in Versions \cup {Absent}, NEW s \in Counts
  PROVE  Blameless(Fresh(fp), s) /\ Fresh(fp).fp = fp
BY DEF Fresh, Blameless, HealthRecords, Counts

LEMMA EntryBlameless ==
  ASSUME NEW l \in Definitions, NEW u \in Upstreams, NEW s \in Counts,
         NEW h, Blameless(h[u], s)
  PROVE  Blameless(Entry(h, l, u), s) /\ Entry(h, l, u).fp = l[u]
<1>1. l[u] \in Versions \cup {Absent}
  BY DEF Definitions
<1> QED
  BY <1>1, FreshBlameless DEF Entry

LEMMA FailureBlameless ==
  ASSUME NEW s \in Counts, NEW e, Blameless(e, s), NEW s2 \in Counts,
         e.fp \in Versions => s2[e.fp] = Min({s[e.fp] + 1, Threshold})
  PROVE  Blameless(WithFailure(e), s2)
<1> DEFINE n == Min({e.fails + 1, Threshold})
<1>1. e \in HealthRecords /\ e.fails \in 0 .. Threshold
  BY DEF Blameless, HealthRecords
<1>2. n = (IF e.fails + 1 <= Threshold THEN e.fails + 1 ELSE Threshold)
  BY <1>1, MinTwo
<1>3. n \in 0 .. Threshold
  BY <1>1, <1>2
<1> DEFINE w == WithFailure(e)
<1>4. w = [[[e EXCEPT !.fails = n]
               EXCEPT !.status = IF n = Threshold THEN "unhealthy" ELSE "degraded"]
             EXCEPT !.cooling = (n = Threshold)]
  BY Zenon DEF WithFailure
<1> HIDE DEF n
<1>5. w \in HealthRecords /\ w.fp = e.fp /\ w.fails = n
      /\ (w.status = "unhealthy" => n = Threshold)
  BY <1>1, <1>3, <1>4 DEF HealthRecords
<1> HIDE DEF w
<1>6. CASE e.fp = Absent
  BY <1>5, <1>6 DEF Blameless, w
<1>7. CASE e.fp # Absent
  <2>1. e.fp \in Versions
    BY <1>1, <1>7 DEF HealthRecords
  <2>2. s[e.fp] \in 0 .. Threshold /\ e.fails <= s[e.fp]
    BY <1>7, <2>1 DEF Counts, Blameless
  <2>3. s2[e.fp] = IF s[e.fp] + 1 <= Threshold THEN s[e.fp] + 1 ELSE Threshold
    BY <2>1, <2>2, MinTwo
  <2>4. n <= s2[e.fp] /\ (n = Threshold => s2[e.fp] = Threshold)
    BY <1>1, <1>2, <2>2, <2>3
  <2> QED
    BY <1>5, <2>4 DEF Blameless, w
<1> QED
  BY <1>6, <1>7

\* Looking at entries, and dropping those of a definition that is gone.
LEMMA LookedKeeps ==
  ASSUME MarksOK, NEW l \in Definitions, NEW us,
         health' = Looked(health, l, us) \/ health' = Synced(health, l), UNCHANGED streak
  PROVE  MarksOK'
<1>1. \A u \in Upstreams : Blameless(health'[u], streak[u])
  <2> SUFFICES ASSUME NEW u \in Upstreams PROVE Blameless(health'[u], streak[u])
    OBVIOUS
  <2>1. streak[u] \in Counts /\ Blameless(health[u], streak[u])
    BY DEF MarksOK
  <2>2. Blameless(Entry(health, l, u), streak[u]) /\ Blameless(Fresh(Absent), streak[u])
    BY <2>1, EntryBlameless, FreshBlameless
  <2>3. health'[u] \in {Entry(health, l, u), health[u], Fresh(Absent)}
    BY DEF Looked, Synced
  <2> QED
    BY <2>1, <2>2, <2>3
<1>2. health' \in [Upstreams -> HealthRecords]
  BY <1>1 DEF Looked, Synced, Blameless
<1> QED
  BY <1>1, <1>2 DEF MarksOK

LEMMA RecordKeeps ==
  ASSUME MarksOK, NEW l \in Definitions, NEW seen, NEW good, NEW bad, Record(l, seen, good, bad)
  PROVE  MarksOK'
<1> DEFINE o == Outcome(l, health, good, bad)
<1>1. health' = Looked(o, l, seen)
  BY DEF Record
<1>2. \A u \in Upstreams : \A v \in Versions :
        streak'[u][v] = IF u \in bad /\ v = l[u] THEN Min({streak[u][v] + 1, Threshold})
                        ELSE IF u \in good /\ v = l[u] THEN 0
                        ELSE streak[u][v]
  BY DEF Record
<1>3. \A u \in Upstreams, v \in Versions :
        /\ streak[u][v] \in 0 .. Threshold
        /\ Min({streak[u][v] + 1, Threshold}) \in 0 .. Threshold
  <2> SUFFICES ASSUME NEW u \in Upstreams, NEW v \in Versions
               PROVE  /\ streak[u][v] \in 0 .. Threshold
                      /\ Min({streak[u][v] + 1, Threshold}) \in 0 .. Threshold
    OBVIOUS
  <2>1. streak[u][v] \in 0 .. Threshold
    BY DEF MarksOK, Counts
  <2>2. streak[u][v] + 1 \in Nat /\ Threshold \in Nat
    BY <2>1
  <2>3. Min({streak[u][v] + 1, Threshold})
          = IF streak[u][v] + 1 <= Threshold THEN streak[u][v] + 1 ELSE Threshold
    BY <2>2, MinTwo
  <2> QED
    BY <2>1, <2>2, <2>3
<1>4. \A u \in Upstreams : \A v \in Versions : streak'[u][v] \in 0 .. Threshold
  <2> SUFFICES ASSUME NEW u \in Upstreams, NEW v \in Versions
               PROVE  streak'[u][v] \in 0 .. Threshold
    OBVIOUS
  <2>1. PICK m : m = Min({streak[u][v] + 1, Threshold})
    OBVIOUS
  <2>2. streak'[u][v] \in {m, 0, streak[u][v]}
    BY <1>2, <2>1
  <2> QED
    BY <1>3, <2>1, <2>2
<1>5. streak' \in [Upstreams -> Counts]
  <2>1. \A u \in Upstreams : streak'[u] = [v \in Versions |-> streak'[u][v]]
    BY DEF Record
  <2>2. \A u \in Upstreams : streak'[u] \in Counts
    BY <1>4, <2>1 DEF Counts
  <2>3. streak' = [u \in Upstreams |-> streak'[u]]
    BY DEF Record
  <2> QED
    BY <2>2, <2>3
<1>6. \A u \in Upstreams : Blameless(o[u], streak'[u])
  <2> SUFFICES ASSUME NEW u \in Upstreams PROVE Blameless(o[u], streak'[u])
    OBVIOUS
  <2>1. /\ streak[u] \in Counts /\ streak'[u] \in Counts /\ Blameless(health[u], streak[u])
        /\ l[u] \in Versions \cup {Absent}
    BY <1>5 DEF MarksOK, Definitions
  <2>2. CASE u \in bad
    <3>1. o[u] = WithFailure(Entry(health, l, u))
      BY <2>2 DEF Outcome
    <3>2. Blameless(Entry(health, l, u), streak[u]) /\ Entry(health, l, u).fp = l[u]
      BY <2>1, EntryBlameless
    <3>3. l[u] \in Versions => streak'[u][l[u]] = Min({streak[u][l[u]] + 1, Threshold})
      BY <1>2, <2>2
    <3> QED
      BY <2>1, <3>1, <3>2, <3>3, FailureBlameless
  <2>3. CASE u \notin bad /\ u \in good
    <3>1. o[u] = Fresh(l[u])
      BY <2>3 DEF Outcome
    <3> QED
      BY <2>1, <3>1, FreshBlameless
  <2>4. CASE u \notin bad /\ u \notin good
    <3>1. o[u] = health[u]
      BY <2>4 DEF Outcome
    <3>2. \A v \in Versions : streak'[u][v] = streak[u][v]
      BY <1>2, <2>4
    <3>3. health[u] \in HealthRecords
      BY <2>1 DEF Blameless
    <3>4. health[u].fp # Absent => streak'[u][health[u].fp] = streak[u][health[u].fp]
      BY <3>2, <3>3 DEF HealthRecords
    <3> QED
      BY <2>1, <3>1, <3>4 DEF Blameless
  <2> QED
    BY <2>2, <2>3, <2>4
<1> HIDE DEF o
<1>7. \A u \in Upstreams : Blameless(health'[u], streak'[u])
  <2> SUFFICES ASSUME NEW u \in Upstreams PROVE Blameless(health'[u], streak'[u])
    OBVIOUS
  <2>1. streak'[u] \in Counts
    BY <1>5
  <2>2. health'[u] \in {Entry(o, l, u), o[u]}
    BY <1>1 DEF Looked
  <2>3. Blameless(Entry(o, l, u), streak'[u])
    BY <1>6, <2>1, EntryBlameless
  <2> QED
    BY <1>6, <2>2, <2>3
<1>8. health' \in [Upstreams -> HealthRecords]
  BY <1>1, <1>7 DEF Looked, Blameless
<1> QED
  BY <1>5, <1>7, <1>8 DEF MarksOK
-------------------------------------------------------------------------------
(* Types.                                                                   *)

JobRecords == [list : BOOLEAN, todo : SUBSET Upstreams, off : SUBSET Upstreams,
               ok : SUBSET Upstreams]

\* What the types need of the file and of its readings, of the tables, and of the
\* upstreams that the requests have to go to: a request that waits for an answer
\* waits for an upstream.
ReadingsOK ==
  /\ file.edit <= MaxEdits /\ due \in BOOLEAN
  /\ \A r \in Requests : read[r].edit <= MaxEdits
TablesDefine ==
  /\ \A t \in Tables : tables[t].up \in Layouts \cup {Empty} /\ tables[t].edit <= MaxEdits
  /\ tables[current].up \in Layouts
JobsOK ==
  /\ job \in [Requests -> JobRecords]
  /\ \A r \in Requests : pc[r] = "forward" => job[r].todo # {}

TypeInv == IInv /\ MarksOK /\ ReadingsOK /\ TablesDefine /\ JobsOK

LEMMA InitTypeInv == Init => TypeInv
<1> SUFFICES ASSUME Init PROVE TypeInv
  OBVIOUS
<1>1. PICK l \in Layouts :
        /\ file = [what |-> l, edit |-> 0]
        /\ tables = [t \in Tables |->
                       IF t = 1 THEN [NoTable EXCEPT !.state = "live", !.up = l] ELSE NoTable]
        /\ health = [u \in Upstreams |-> Fresh(l[u])]
  BY DEF Init
<1>2. IInv
  BY InitInv
<1>3. MarksOK
  <2>1. l \in Definitions
    BY LayoutsDefine
  <2>2. streak \in [Upstreams -> Counts]
    BY DEF Init, Counts
  <2>3. \A u \in Upstreams : Blameless(Fresh(l[u]), streak[u])
    BY <2>1, <2>2, FreshBlameless DEF Definitions
  <2>4. health \in [Upstreams -> HealthRecords]
    BY <1>1, <2>3 DEF Blameless
  <2> QED
    BY <1>1, <2>2, <2>3, <2>4 DEF MarksOK
<1>4. ReadingsOK
  BY <1>1 DEF Init, ReadingsOK, NothingRead
<1>5. TablesDefine
  <2>1. \A t \in Tables : tables[t].edit = 0 /\ tables[t].up = IF t = 1 THEN l ELSE Empty
    BY <1>1 DEF NoTable
  <2>2. current = 1 /\ 1 \in Tables
    BY DEF Init
  <2> QED
    BY <2>1, <2>2 DEF TablesDefine
<1>6. JobsOK
  BY DEF Init, JobsOK, JobRecords, NoJob
<1> QED
  BY <1>2, <1>3, <1>4, <1>5, <1>6 DEF TypeInv

\* The table in use, and that of a request that waits for an answer.
LEMMA TablesAre ==
  ASSUME TypeInv
  PROVE  /\ Up \in Definitions /\ Names(Up) \in (SUBSET Upstreams) \ {{}}
         /\ \A r \in Requests : pc[r] = "forward" => Of(r) \in Definitions
<1>1. \A t \in Tables : tables[t].up \in Definitions
  BY LayoutsDefine DEF TypeInv, TablesDefine
<1>2. Up \in Layouts /\ current \in Tables
  BY DEF TypeInv, TablesDefine, IInv, Typed, Up
<1>3. \A r \in Requests : pc[r] = "forward" => held[r] \in Tables
  BY DEF TypeInv, IInv, RoutesOK, Using
<1> QED
  BY <1>1, <1>2, <1>3 DEF Up, Of, Names

LEMMA JobGiven ==
  ASSUME JobsOK, pc \in [Requests -> Labels], NEW r \in Requests, NEW j \in JobRecords, NEW l,
         job' = [job EXCEPT ![r] = j], Goto(r, l), l = "forward" => j.todo # {}
  PROVE  JobsOK'
<1>1. job' \in [Requests -> JobRecords]
  BY DEF JobsOK
<1>2. job'[r] = j /\ pc'[r] = l
  BY DEF JobsOK, Goto
<1>3. \A s \in Requests : s # r => job'[s] = job[s] /\ pc'[s] = pc[s]
  BY DEF JobsOK, Goto
<1>4. \A s \in Requests : pc'[s] = "forward" => job'[s].todo # {}
  BY <1>2, <1>3 DEF JobsOK
<1> QED
  BY <1>1, <1>4 DEF JobsOK

LEMMA FanOutKeeps ==
  ASSUME TypeInv, NEW r \in Requests, NEW l \in Definitions, NEW todo \in SUBSET Upstreams,
         NEW off \in SUBSET Upstreams, NEW ok \in SUBSET Upstreams, NEW bad,
         FanOut(r, l, todo, off, ok, bad)
  PROVE  MarksOK' /\ JobsOK'
<1> DEFINE open == {u \in todo \ off : ShouldRoute(health, l, u)}
<1>1. MarksOK /\ JobsOK /\ pc \in [Requests -> Labels]
  BY DEF TypeInv, IInv, Typed
<1>2. CASE /\ open # {}
           /\ Record(l, {u \in todo \ off : u <= Min(open)}, {}, bad)
           /\ job' = [job EXCEPT ![r] = [list |-> TRUE, todo |-> {u \in todo : u >= Min(open)},
                                        off |-> off, ok |-> ok]]
           /\ Goto(r, "forward")
  <2>1. open \in SUBSET Nat /\ open \subseteq todo
    OBVIOUS
  <2>2. Min(open) \in open
    BY <1>2, <2>1, MinIn
  <2>3. PICK m : m = Min(open)
    OBVIOUS
  <2> HIDE DEF open
  <2>4. m \in Nat /\ m \in todo
    BY <2>1, <2>2, <2>3
  <2>5. PICK left : left = {u \in todo : u >= m}
    OBVIOUS
  <2>6. m \in left /\ left \in SUBSET Upstreams
    <3>1. m \in todo /\ m >= m
      BY <2>4
    <3>2. m \in left
      BY <2>5, <3>1
    <3>3. left \subseteq todo
      BY <2>5
    <3> QED
      BY <3>2, <3>3
  <2>7. job' = [job EXCEPT ![r] = [list |-> TRUE, todo |-> left, off |-> off, ok |-> ok]]
    BY <1>2, <2>3, <2>5
  <2>8. PICK j : j = [list |-> TRUE, todo |-> left, off |-> off, ok |-> ok]
    OBVIOUS
  <2>9. j \in JobRecords /\ j.todo # {} /\ job' = [job EXCEPT ![r] = j]
    BY <2>6, <2>7, <2>8 DEF JobRecords
  <2>10. JobsOK'
    BY <1>1, <1>2, <2>9, JobGiven
  <2>11. MarksOK'
    BY <1>1, <1>2, RecordKeeps
  <2> QED
    BY <2>10, <2>11
<1>3. CASE /\ \E good \in SUBSET ok : Record(l, Names(l), good, bad \cup (ok \ good))
           /\ job' = [job EXCEPT ![r] = NoJob]
           /\ Goto(r, "leave")
  <2>1. MarksOK'
    <3>1. PICK good \in SUBSET ok : Record(l, Names(l), good, bad \cup (ok \ good))
      BY <1>3
    <3> QED
      BY <1>1, <3>1, RecordKeeps
  <2>2. JobsOK'
    <3>1. NoJob \in JobRecords
      BY DEF NoJob, JobRecords
    <3> QED
      BY <1>1, <1>3, <3>1, JobGiven
  <2> QED
    BY <2>1, <2>2
<1> QED
  BY <1>2, <1>3 DEF FanOut

LEMMA AcquireKeeps ==
  ASSUME TypeInv, NEW r \in Requests,
         AcquireRefused(r) \/ AcquireCall(r) \/ AcquireDefault(r) \/ AcquireList(r)
  PROVE  MarksOK' /\ JobsOK'
<1>1. MarksOK /\ JobsOK /\ pc \in [Requests -> Labels] /\ Up \in Definitions
      /\ Names(Up) \in (SUBSET Upstreams) \ {{}}
  BY TablesAre DEF TypeInv, IInv, Typed
\* Turned away, or on its way to one upstream.
<1>2. ASSUME NEW us, health' = Looked(health, Up, us), UNCHANGED streak PROVE MarksOK'
  BY <1>1, <1>2, LookedKeeps
<1>3. ASSUME Goto(r, "leave"), UNCHANGED job PROVE JobsOK'
  BY <1>1, <1>3 DEF Goto, JobsOK
<1>4. ASSUME NEW u \in Upstreams, Goto(r, "forward"),
             job' = [job EXCEPT ![r] = [NoJob EXCEPT !.todo = {u}]]
      PROVE  JobsOK'
  <2>1. PICK j : j = [NoJob EXCEPT !.todo = {u}]
    OBVIOUS
  <2>2. u \in j.todo /\ j \in JobRecords
    BY <2>1 DEF NoJob, JobRecords
  <2>3. job' = [job EXCEPT ![r] = j]
    BY <1>4, <2>1
  <2> QED
    BY <1>1, <1>4, <2>2, <2>3, JobGiven
<1>5. CASE AcquireRefused(r)
  <2>1. UNCHANGED <<health, streak, job>> /\ Goto(r, "leave")
    BY <1>5 DEF AcquireRefused, marks
  <2>2. MarksOK'
    BY <1>1, <2>1 DEF MarksOK
  <2> QED
    BY <1>3, <2>1, <2>2
<1>6. CASE AcquireCall(r)
  <2>1. PICK u \in Names(Up), off \in SUBSET Upstreams :
          \/ /\ health' = Looked(health, Up, Names(Up))
             /\ Goto(r, "leave") /\ UNCHANGED job
          \/ /\ health' = Looked(health, Up, {u})
             /\ \/ Goto(r, "leave") /\ UNCHANGED job
                \/ /\ job' = [job EXCEPT ![r] = [NoJob EXCEPT !.todo = {u}]]
                   /\ Goto(r, "forward")
    BY <1>6 DEF AcquireCall
  <2>2. UNCHANGED streak /\ u \in Upstreams
    BY <1>1, <1>6 DEF AcquireCall
  <2>3. MarksOK'
    BY <1>2, <2>1, <2>2
  <2> QED
    BY <1>3, <1>4, <2>1, <2>2, <2>3
<1>7. CASE AcquireDefault(r)
  <2>1. PICK u : u = Min(Names(Up))
    OBVIOUS
  <2>2. u \in Upstreams
    BY <1>1, <2>1, MinIn
  <2>3. \/ /\ health' = Looked(health, Up, {u})
           /\ job' = [job EXCEPT ![r] = [NoJob EXCEPT !.todo = {u}]]
           /\ Goto(r, "forward")
        \/ /\ health' = Looked(health, Up, Names(Up))
           /\ Goto(r, "leave") /\ UNCHANGED job
    BY <1>7, <2>1 DEF AcquireDefault
  <2>4. UNCHANGED streak
    BY <1>7 DEF AcquireDefault
  <2> QED
    BY <1>2, <1>3, <1>4, <2>2, <2>3, <2>4
<1>8. CASE AcquireList(r)
  <2>1. PICK off \in SUBSET Names(Up) : FanOut(r, Up, Names(Up), off, {}, {})
    BY <1>8 DEF AcquireList
  <2>2. off \in SUBSET Upstreams /\ {} \in SUBSET Upstreams
    BY <1>1
  <2> QED
    BY <1>1, <2>1, <2>2, FanOutKeeps
<1> QED
  BY <1>5, <1>6, <1>7, <1>8

LEMMA ForwardKeeps ==
  ASSUME TypeInv, NEW r \in Requests,
         Return(r) \/ ReturnList(r) \/ StreamFails(r) \/ Cancel(r)
  PROVE  MarksOK' /\ JobsOK'
<1>1. MarksOK /\ JobsOK /\ pc \in [Requests -> Labels] /\ pc[r] = "forward"
  BY DEF TypeInv, IInv, Typed, Return, ReturnList, StreamFails, Cancel
<1>2. Of(r) \in Definitions
  BY <1>1, TablesAre
<1>3. ASSUME Goto(r, "leave"), job' = [job EXCEPT ![r] = NoJob] PROVE JobsOK'
  <2>1. NoJob \in JobRecords
    BY DEF NoJob, JobRecords
  <2> QED
    BY <1>1, <1>3, <2>1, JobGiven
<1>4. CASE Return(r)
  <2>1. PICK good \in SUBSET {Asked(r)} : Record(Of(r), Names(Of(r)), good, {Asked(r)} \ good)
    BY <1>4 DEF Return
  <2>2. MarksOK'
    BY <1>1, <1>2, <2>1, RecordKeeps
  <2> QED
    BY <1>3, <1>4, <2>2 DEF Return
<1>5. CASE StreamFails(r)
  <2>1. MarksOK'
    BY <1>1, <1>2, <1>5, RecordKeeps DEF StreamFails
  <2> QED
    BY <1>3, <1>5, <2>1 DEF StreamFails
<1>6. CASE Cancel(r)
  <2>1. MarksOK'
    BY <1>1, <1>6 DEF Cancel, marks, MarksOK
  <2> QED
    BY <1>3, <1>6, <2>1 DEF Cancel
<1>7. CASE ReturnList(r)
  <2>1. PICK u : u = Asked(r)
    OBVIOUS
  <2>2. PICK bad \in SUBSET {u} :
          FanOut(r, Of(r), job[r].todo \ {u}, job[r].off, job[r].ok \cup ({u} \ bad), bad)
    BY <1>7, <2>1 DEF ReturnList
  <2>3. job[r].todo \in SUBSET Upstreams /\ job[r].off \in SUBSET Upstreams
        /\ job[r].ok \in SUBSET Upstreams /\ job[r].todo # {}
    BY <1>1 DEF JobsOK, JobRecords
  <2>4. job[r].todo \in SUBSET Nat
    BY <2>3
  <2>5. u \in Upstreams
    BY <2>1, <2>3, <2>4, MinIn DEF Asked
  <2>6. job[r].todo \ {u} \in SUBSET Upstreams /\ job[r].ok \cup ({u} \ bad) \in SUBSET Upstreams
    BY <2>3, <2>5
  <2> QED
    BY <1>2, <2>2, <2>3, <2>6, FanOutKeeps
<1> QED
  BY <1>4, <1>5, <1>6, <1>7

\* The file, and what was read of it.
LEMMA ReadingsStep ==
  ASSUME TypeInv, [Next]_vars
  PROVE  ReadingsOK'
<1>1. /\ file.edit \in Nat /\ file.edit <= MaxEdits /\ due \in BOOLEAN
      /\ read \in [Requests -> Readings] /\ \A s \in Requests : read[s].edit <= MaxEdits
      /\ file \in [what : Layouts \cup {Broken}, edit : Nat]
  BY DEF TypeInv, IInv, Typed, ReadingsOK
<1>2. NothingRead.edit = 0 /\ 0 <= MaxEdits
      /\ \A f \in BOOLEAN : [NothingRead EXCEPT !.force = f].edit = 0
  BY DEF NothingRead
<1>3. CASE UNCHANGED <<file, read>> /\ due' \in BOOLEAN
  BY <1>1, <1>3 DEF ReadingsOK
<1>4. ASSUME NEW r \in Requests, NEW w, read' = [read EXCEPT ![r] = w], w.edit <= MaxEdits,
             file' = file, due' \in BOOLEAN
      PROVE  ReadingsOK'
  BY <1>1, <1>4 DEF ReadingsOK
<1>5. CASE Edit
  <2>1. PICK w : file' = [what |-> w, edit |-> file.edit + 1]
    BY <1>5 DEF Edit
  <2>2. file.edit < MaxEdits /\ UNCHANGED <<due, read>>
    BY <1>5 DEF Edit, tasks
  <2>3. file'.edit <= MaxEdits
    BY <1>1, <2>1, <2>2
  <2> QED
    BY <1>1, <2>2, <2>3 DEF ReadingsOK
<1>6. CASE IntervalOver \/ (\E u \in Upstreams : CooldownOver(u)) \/ UNCHANGED vars
  <2>1. UNCHANGED <<file, read>> /\ due' \in BOOLEAN
    BY <1>1, <1>6 DEF IntervalOver, CooldownOver, vars, config, tasks
  <2> QED
    BY <1>3, <2>1
<1>7. ASSUME NEW r \in Requests, Arrive(r) \/ Handle(r) \/ Cancel(r) PROVE ReadingsOK'
  <2>1. UNCHANGED <<file, due, read>>
    BY <1>7 DEF Arrive, Handle, Describe, PolicyRefuses, ControlsFail, AcquireRefused, AcquireCall,
                AcquireDefault, AcquireList, Return, ReturnList, StreamFails, Cancel, Leave,
                Closed, config
  <2> QED
    BY <1>1, <1>3, <2>1
<1>8. ASSUME NEW r \in Requests, Reload(r) PROVE ReadingsOK'
  <2>1. CASE StartReload(r)
    <3>1. PICK f \in BOOLEAN : read' = [read EXCEPT ![r] = [NothingRead EXCEPT !.force = f]]
      BY <2>1 DEF StartReload
    <3>2. file' = file /\ due' \in BOOLEAN
      BY <2>1 DEF StartReload
    <3> QED
      BY <1>2, <1>4, <3>1, <3>2
  <2>2. CASE Load(r)
    <3>1. PICK w : w = [[read[r] EXCEPT !.what = file.what] EXCEPT !.edit = file.edit]
      OBVIOUS
    <3>2. w.edit = file.edit
      BY <1>1, <3>1 DEF Readings
    <3>3. read' = [read EXCEPT ![r] = w]
      BY <1>1, <2>2, <3>1 DEF Load, Readings
    <3>4. UNCHANGED <<file, due>>
      BY <2>2 DEF Load, config
    <3> QED
      BY <1>1, <1>4, <3>2, <3>3, <3>4
  <2>3. CASE \/ ControlsUnread(r) \/ SkipReload(r) \/ LoadFails(r) \/ SameRoutes(r)
             \/ SwapRoutes(r) \/ OldRoutesClosed(r)
    <3>1. /\ file' = file /\ due' \in BOOLEAN
          /\ read' = read \/ read' = [read EXCEPT ![r] = NothingRead]
      BY <1>1, <2>3 DEF ControlsUnread, SkipReload, LoadFails, SameRoutes, SwapRoutes,
                        OldRoutesClosed, Reloaded, config
    <3> QED
      BY <1>1, <1>2, <1>3, <1>4, <3>1
  <2> QED
    BY <1>8, <2>1, <2>2, <2>3 DEF Reload
<1> QED
  BY <1>5, <1>6, <1>7, <1>8 DEF Next

\* A step that makes no table: those there are keep their upstreams, or go.
LEMMA TablesKeep ==
  ASSUME TypeInv, IInv', UNCHANGED current,
         \A t \in Tables : \/ tables'[t] = NoTable
                           \/ tables'[t].up = tables[t].up /\ tables'[t].edit = tables[t].edit
  PROVE  TablesDefine'
<1>1. tables'[current].state = "live" /\ current \in Tables
  BY DEF IInv, RoutesOK, Typed
<1>2. tables'[current] # NoTable
  BY <1>1 DEF NoTable
<1>3. NoTable.up = Empty /\ NoTable.edit <= MaxEdits
  BY DEF NoTable
<1> QED
  BY <1>1, <1>2, <1>3 DEF TypeInv, TablesDefine

LEMMA TablesStep ==
  ASSUME TypeInv, IInv', [Next]_vars
  PROVE  TablesDefine'
<1>1. /\ tables \in [Tables -> TableRecords] /\ current \in Tables
      /\ held \in [Requests -> 0 .. MaxTables]
  BY DEF TypeInv, IInv, Typed
<1>2. CASE UNCHANGED <<current, tables>>
  BY <1>2, TablesKeep
<1>3. CASE IntervalOver \/ Edit \/ (\E u \in Upstreams : CooldownOver(u)) \/ UNCHANGED vars
  BY <1>2, <1>3 DEF IntervalOver, Edit, CooldownOver, vars, routes
<1>4. ASSUME NEW r \in Requests, Arrive(r) \/ Reload(r) \/ Handle(r) \/ Cancel(r)
      PROVE  TablesDefine'
  <2>1. CASE \/ Arrive(r) \/ StartReload(r) \/ ControlsUnread(r) \/ SkipReload(r)
             \/ Load(r) \/ LoadFails(r)
             \/ SameRoutes(r) \/ Describe(r) \/ PolicyRefuses(r) \/ Return(r)
             \/ ReturnList(r) \/ StreamFails(r) \/ Cancel(r)
    BY <1>2, <2>1 DEF Arrive, StartReload, ControlsUnread, SkipReload, Load, LoadFails,
                      SameRoutes, Describe,
                      PolicyRefuses, Return, ReturnList, StreamFails, Cancel, routes
  <2>2. CASE AcquireRefused(r) \/ AcquireCall(r) \/ AcquireDefault(r) \/ AcquireList(r)
    <3>1. Acquired(r) /\ UNCHANGED current
      BY <2>2 DEF AcquireRefused, AcquireCall, AcquireDefault, AcquireList
    <3>2. \A t \in Tables : tables'[t].up = tables[t].up /\ tables'[t].edit = tables[t].edit
      BY <1>1, <3>1 DEF Acquired, TableRecords
    <3> QED
      BY <3>1, <3>2, TablesKeep
  <2>3. CASE Leave(r)
    <3>1. PICK h \in Tables : h = held[r]
      BY <2>3 DEF TypeInv, IInv, RoutesOK, Leave, Using
    <3>2. PICK last \in BOOLEAN : last <=> (tables[h].retired /\ tables[h].active = 1)
      OBVIOUS
    <3>3. /\ tables' = [tables EXCEPT ![h].active = @ - 1,
                                      ![h].state = IF last THEN "closing" ELSE @]
          /\ UNCHANGED current
      BY <2>3, <3>1, <3>2 DEF Leave
    <3>4. \A t \in Tables : tables'[t].up = tables[t].up /\ tables'[t].edit = tables[t].edit
      BY <1>1, <3>3 DEF TableRecords
    <3> QED
      BY <3>3, <3>4, TablesKeep
  <2>4. CASE OldRoutesClosed(r) \/ Closed(r)
    <3>1. tables' = [tables EXCEPT ![held[r]] = NoTable] /\ UNCHANGED current
      BY <2>4 DEF OldRoutesClosed, Closed
    <3> QED
      BY <1>1, <3>1, TablesKeep
  <2>6. CASE ControlsFail(r)
    <3>1. \A t \in Tables : tables'[t].up = tables[t].up /\ tables'[t].edit = tables[t].edit
      <4>1. CASE tables' = tables
        BY <4>1
      <4>2. CASE tables' = [tables EXCEPT ![current].active = @ + 1, ![current].leaked = TRUE]
        BY <1>1, <4>2 DEF TableRecords
      <4> QED
        BY <2>6, <4>1, <4>2 DEF ControlsFail
    <3>2. UNCHANGED current
      BY <2>6 DEF ControlsFail
    <3> QED
      BY <3>1, <3>2, TablesKeep
  <2>5. CASE SwapRoutes(r)
    <3>1. PICK n \in Tables :
            /\ current' = n
            /\ tables' = [tables EXCEPT ![n] = [NoTable EXCEPT !.state = "live", !.up = read[r].what,
                                                              !.edit = read[r].edit],
                                        ![current] = Retired(tables[current])]
            /\ tables[n].state = "gone" \/ Forgotten(tables[n])
      BY <2>5 DEF SwapRoutes
    <3>2. n # current
      BY <3>1 DEF TypeInv, IInv, RoutesOK, Forgotten
    <3>3. read[r].what \in Layouts /\ read[r].edit <= MaxEdits
      BY <2>5 DEF SwapRoutes, TypeInv, IInv, Typed, ReadingsOK, Readings
    <3>4. tables'[n].up = read[r].what /\ tables'[n].edit = read[r].edit
      BY <1>1, <3>1, <3>2 DEF NoTable
    <3>5. tables'[current].up = tables[current].up /\ tables'[current].edit = tables[current].edit
      <4>1. tables'[current] = Retired(tables[current]) /\ tables[current] \in TableRecords
        BY <1>1, <3>1, <3>2
      <4> QED
        BY <4>1 DEF Retired, TableRecords
    <3>6. \A t \in Tables : t # n /\ t # current => tables'[t] = tables[t]
      BY <1>1, <3>1
    <3> QED
      BY <3>1, <3>3, <3>4, <3>5, <3>6 DEF TypeInv, TablesDefine
  <2> QED
    BY <1>4, <2>1, <2>2, <2>3, <2>4, <2>5, <2>6 DEF Reload, Handle
<1> QED
  BY <1>3, <1>4 DEF Next

LEMMA MarksStep ==
  ASSUME TypeInv, [Next]_vars
  PROVE  MarksOK' /\ JobsOK'
<1>1. MarksOK /\ JobsOK /\ pc \in [Requests -> Labels]
  BY DEF TypeInv, IInv, Typed
<1>2. ASSUME UNCHANGED <<health, streak>> PROVE MarksOK'
  BY <1>1, <1>2 DEF MarksOK
<1>3. ASSUME UNCHANGED job, \A r \in Requests : pc'[r] = "forward" => pc[r] = "forward"
      PROVE  JobsOK'
  BY <1>1, <1>3 DEF JobsOK
<1>4. CASE IntervalOver \/ Edit \/ UNCHANGED vars
  <2>1. UNCHANGED <<health, streak, job, pc>>
    BY <1>4 DEF IntervalOver, Edit, vars, marks, tasks
  <2> QED
    BY <1>2, <1>3, <2>1
<1>5. ASSUME NEW u \in Upstreams, CooldownOver(u) PROVE MarksOK' /\ JobsOK'
  <2>1. UNCHANGED <<streak, job, pc>> /\ health' = [health EXCEPT ![u].cooling = FALSE]
    BY <1>5 DEF CooldownOver, tasks
  <2>2. health[u] \in HealthRecords /\ Blameless(health[u], streak[u])
    BY <1>1 DEF MarksOK
  <2>3. PICK e : e = [health[u] EXCEPT !.cooling = FALSE]
    OBVIOUS
  <2>4. e \in HealthRecords /\ Blameless(e, streak[u])
    BY <2>2, <2>3 DEF HealthRecords, Blameless
  <2>5. health' = [health EXCEPT ![u] = e]
    BY <1>1, <2>1, <2>3 DEF MarksOK
  <2>6. MarksOK'
    <3>1. health' \in [Upstreams -> HealthRecords]
      BY <1>1, <2>4, <2>5 DEF MarksOK
    <3>2. \A v \in Upstreams : health'[v] = IF v = u THEN e ELSE health[v]
      BY <1>1, <2>5 DEF MarksOK
    <3>3. \A v \in Upstreams : Blameless(health'[v], streak[v])
      BY <1>1, <2>4, <3>2 DEF MarksOK
    <3> QED
      BY <1>1, <2>1, <3>1, <3>3 DEF MarksOK
  <2> QED
    BY <1>3, <2>1, <2>6
<1>6. ASSUME NEW r \in Requests,
             \/ Arrive(r) \/ StartReload(r) \/ ControlsUnread(r) \/ SkipReload(r)
             \/ Load(r) \/ LoadFails(r)
             \/ SameRoutes(r) \/ OldRoutesClosed(r) \/ Describe(r) \/ PolicyRefuses(r)
             \/ ControlsFail(r) \/ Leave(r) \/ Closed(r)
      PROVE  MarksOK' /\ JobsOK'
  <2>1. UNCHANGED <<health, streak, job>>
    BY <1>6 DEF Arrive, StartReload, ControlsUnread, SkipReload, Load, LoadFails,
                SameRoutes, OldRoutesClosed,
                Describe, PolicyRefuses, ControlsFail, Leave, Closed, marks
  <2>2. \E l \in Labels : l # "forward" /\ pc' = [pc EXCEPT ![r] = l]
    BY <1>6 DEF Arrive, StartReload, ControlsUnread, SkipReload, Load, LoadFails,
                SameRoutes, OldRoutesClosed,
                Reloaded, Describe, PolicyRefuses, ControlsFail, Leave, Closed, Goto, Labels
  <2>3. \A s \in Requests : pc'[s] = "forward" => pc[s] = "forward"
    BY <1>1, <2>2
  <2> QED
    BY <1>2, <1>3, <2>1, <2>3
<1>7. ASSUME NEW r \in Requests, SwapRoutes(r) PROVE MarksOK' /\ JobsOK'
  <2>1. read[r].what \in Layouts /\ health' = Synced(health, read[r].what)
        /\ UNCHANGED <<streak, job>>
    BY <1>7 DEF SwapRoutes, TypeInv, IInv, Typed, Readings
  <2>2. read[r].what \in Definitions
    BY <2>1, LayoutsDefine
  <2>3. MarksOK'
    BY <1>1, <2>1, <2>2, LookedKeeps
  <2>4. \A s \in Requests : pc'[s] = "forward" => pc[s] = "forward"
    BY <1>1, <1>7 DEF SwapRoutes, Reloaded, Goto
  <2> QED
    BY <1>3, <2>1, <2>3, <2>4
<1>8. ASSUME NEW r \in Requests,
             AcquireRefused(r) \/ AcquireCall(r) \/ AcquireDefault(r) \/ AcquireList(r)
      PROVE  MarksOK' /\ JobsOK'
  BY <1>8, AcquireKeeps
<1>9. ASSUME NEW r \in Requests, Return(r) \/ ReturnList(r) \/ StreamFails(r) \/ Cancel(r)
      PROVE  MarksOK' /\ JobsOK'
  BY <1>9, ForwardKeeps
<1> QED
  BY <1>4, <1>5, <1>6, <1>7, <1>8, <1>9 DEF Next, Reload, Handle

\* The health entries are those of failures in a row of the definition they have.
THEOREM TypeInvariance == Spec => []TypeInv
<1>1. TypeInv /\ [Next]_vars => TypeInv'
  <2> SUFFICES ASSUME TypeInv, [Next]_vars PROVE TypeInv'
    OBVIOUS
  <2>1. IInv'
    BY StepInv DEF TypeInv
  <2> QED
    BY <2>1, MarksStep, ReadingsStep, TablesStep DEF TypeInv
<1>2. Init /\ [][Next]_vars => []TypeInv
  BY <1>1, InitTypeInv, PTL
<1> QED
  BY <1>2, PTL DEF Spec

\* Neither a new definition of an upstream nor a success in between is blamed for
\* failures, whatever table they were seen by.
THEOREM NotBlamedHolds == Spec => []NotBlamed
<1>1. TypeInv => NotBlamed
  BY DEF TypeInv, MarksOK, Blameless, NotBlamed
<1> QED
  BY <1>1, TypeInvariance, PTL

\* Type correctness: a table counts no more users than there are connections, and one
\* for those that could not read the controls.
THEOREM TypeCorrect == Spec => []TypeOK
<1>1. TypeInv => TypeOK
  <2> SUFFICES ASSUME TypeInv PROVE TypeOK
    OBVIOUS
  <2>1. \A t \in Tables : tables[t].active \in 0 .. Cardinality(Requests) + 1
    <3> SUFFICES ASSUME NEW t \in Tables
                 PROVE  tables[t].active \in 0 .. Cardinality(Requests) + 1
      OBVIOUS
    <3>1. Users(t) \subseteq Requests
      BY DEF Users
    <3>2. Cardinality(Users(t)) <= Cardinality(Requests) /\ Cardinality(Requests) \in Nat
      BY <3>1, FS_Subset, FS_CardinalityType
    <3>3. tables[t].active = Cardinality(Users(t)) + Extra(t) /\ Extra(t) \in {0, 1}
      BY DEF TypeInv, IInv, RoutesOK, Extra
    <3> QED
      BY <3>2, <3>3, UsersFinite
  <2>2. file \in [what : Layouts \cup {Broken}, edit : 0 .. MaxEdits]
    BY DEF TypeInv, IInv, Typed, ReadingsOK
  <2>3. tables \in [Tables -> [state : {"gone", "live", "closing"}, up : Layouts \cup {Empty},
                               edit : 0 .. MaxEdits, active : 0 .. Cardinality(Requests) + 1,
                               retired : BOOLEAN, leaked : BOOLEAN]]
    <3>1. \A t \in Tables :
            tables[t] \in [state : {"gone", "live", "closing"}, up : Layouts \cup {Empty},
                           edit : 0 .. MaxEdits, active : 0 .. Cardinality(Requests) + 1,
                           retired : BOOLEAN, leaked : BOOLEAN]
      <4> SUFFICES ASSUME NEW t \in Tables
                   PROVE  tables[t] \in [state : {"gone", "live", "closing"},
                                         up : Layouts \cup {Empty}, edit : 0 .. MaxEdits,
                                         active : 0 .. Cardinality(Requests) + 1, retired : BOOLEAN,
                                         leaked : BOOLEAN]
        OBVIOUS
      <4>1. tables[t] \in TableRecords
        BY DEF TypeInv, IInv, Typed
      <4>2. tables[t].up \in Layouts \cup {Empty} /\ tables[t].edit <= MaxEdits
        BY DEF TypeInv, TablesDefine
      <4> QED
        BY <2>1, <4>1, <4>2 DEF TableRecords
    <3> QED
      BY <3>1 DEF TypeInv, IInv, Typed
  <2>4. read \in [Requests -> [what : Layouts \cup {Broken}, edit : 0 .. MaxEdits,
                               force : BOOLEAN]]
    BY DEF TypeInv, IInv, Typed, ReadingsOK, Readings
  <2>5. /\ lock \in Requests \cup {Nobody} /\ current \in Tables /\ due \in BOOLEAN
        /\ held \in [Requests -> 0 .. MaxTables]
        /\ pc \in [Requests -> {"idle", "lock", "load", "loaded", "retire", "body", "policy",
                                "forward", "leave", "close"}]
    BY DEF TypeInv, IInv, Typed, ReadingsOK, Labels
  <2>6. /\ health \in [Upstreams -> [fp : Versions \cup {Absent},
                                     status : {"healthy", "degraded", "unhealthy"},
                                     fails : 0 .. Threshold, cooling : BOOLEAN]]
        /\ streak \in [Upstreams -> [Versions -> 0 .. Threshold]]
    BY DEF TypeInv, MarksOK, HealthRecords, Counts
  <2>7. job \in [Requests -> [list : BOOLEAN, todo : SUBSET Upstreams, off : SUBSET Upstreams,
                              ok : SUBSET Upstreams]]
    BY DEF TypeInv, JobsOK, JobRecords
  <2> QED
    BY <2>2, <2>3, <2>4, <2>5, <2>6, <2>7 DEF TypeOK
<1> QED
  BY <1>1, TypeInvariance, PTL
================================================================================
