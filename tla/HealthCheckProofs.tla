------------------------- MODULE HealthCheckProofs --------------------------
(***************************************************************************)
(* What the health check job reaches, for any nodes, tables and page size. *)
(***************************************************************************)
EXTENDS HealthCheck, FiniteSetTheorems, TLAPS

(* What remains to be checked is still to be read, or in the page, or tied *)
(* with the last node of a full page; after the last page nothing remains  *)
(* to be read.                                                             *)
Remaining ==
    /\ pc # "idle" => \A n \in steady \ checked :
          /\ nodes[n].status = ONLINE /\ nodes[n].lived
          /\ \/ nodes[n].login_time > earliest
             \/ \E e \in page : e.node_id = n
             \/ nodes[n].login_time \in cuts
    /\ pc = "page" /\ len < PageSize =>
          \A n \in steady \ checked : nodes[n].login_time <= earliest

(* The cursor is past what was checked, and past the page, which has each  *)
(* node once and with its login_time.                                      *)
CursorPast ==
    /\ \A n \in steady \cap checked : nodes[n].login_time <= earliest
    /\ \A e \in page : e.node_id \in steady =>
          e.login_time = nodes[e.node_id].login_time /\ e.login_time <= earliest
    /\ \A e, f \in page : e.node_id = f.node_id => e = f
    /\ \A e \in probes : e.node_id \in checked

IInv ==
    /\ TypeOK /\ Remaining /\ CursorPast /\ NobodyIsAskedTwice
    /\ Timestampdiff => EveryoneIsChecked

(* A page is a set of living nodes, some node of it has the highest        *)
(* login_time, and unless it has everyone it is full.                      *)
LEMMA PageIsLiving ==
    ASSUME NEW t, NEW P \in query_living_nodes_by_login_time(PageSize, t)
    PROVE  /\ P \subseteq Living(t) /\ P \subseteq Node
           /\ Cardinality(P) \in 0..PageSize
           /\ P = Living(t) \/ Cardinality(P) = PageSize
           /\ \A n \in P, m \in Living(t) \ P :
                 nodes[n].login_time <= nodes[m].login_time
<1>1. P \subseteq Living(t) /\ P \subseteq Node
  BY DEF query_living_nodes_by_login_time, Living
<1>2. Cardinality(P) \in Nat
  BY <1>1, CheckAssumption, FS_Subset, FS_CardinalityType
<1> QED BY <1>1, <1>2, CheckAssumption DEF query_living_nodes_by_login_time

(* unavail_node changes one row's status and no other column. *)
LEMMA UnavailKeeps ==
    ASSUME nodes \in [Node -> StatusRow], NEW m
    PROVE  LET ns == unavail_node(nodes, m)
           IN  /\ ns \in [Node -> StatusRow]
               /\ \A n \in Node : /\ ns[n].login_time = nodes[n].login_time
                                  /\ n # m => ns[n] = nodes[n]
<1> DEFINE ns == unavail_node(nodes, m)
<1>1. ns = [n \in Node |-> IF n = m THEN [nodes[n] EXCEPT !.status = UNAVAIL]
                                    ELSE nodes[n]]
  BY DEF unavail_node, Update
<1>2. ASSUME NEW n \in Node
      PROVE  /\ ns[n] \in StatusRow /\ ns[n].login_time = nodes[n].login_time
             /\ n # m => ns[n] = nodes[n]
  <2> HIDE DEF ns
  <2>1. nodes[n] \in StatusRow
    OBVIOUS
  <2>2. CASE n = m
    <3>1. ns[n] = [nodes[n] EXCEPT !.status = UNAVAIL]
      BY <1>1, <2>2
    <3> QED BY <2>1, <2>2, <3>1 DEF StatusRow
  <2>3. CASE n # m
    BY <1>1, <2>1, <2>3
  <2> QED BY <2>2, <2>3
<1>3. ns \in [Node -> StatusRow]
  <2> HIDE DEF ns
  <2> QED BY <1>1, <1>2
<1> QED BY <1>2, <1>3

LEMMA LoginsAreTimes ==
    ASSUME TypeOK
    PROVE  /\ earliest \in Nat
           /\ \A n \in Node : nodes[n].login_time \in Login /\ nodes[n].login_time \in Nat
<1>1. Login \subseteq Nat
  BY CheckAssumption
<1>2. \A n \in Node : nodes[n].login_time \in Login
  BY DEF TypeOK, StatusRow
<1>3. earliest \in Login \/ earliest = 0
  BY DEF TypeOK
<1>4. \A t \in Login : t \in Nat
  BY <1>1, Zenon
<1> QED BY <1>2, <1>3, <1>4

LEMMA InitHolds == Init => IInv
BY CheckAssumption
DEF Init, IInv, TypeOK, Remaining, CursorPast, NobodyIsAskedTwice,
    EveryoneIsChecked, LivingNode

LEMMA BeginRunKeeps == IInv /\ BeginRun => IInv'
<1> SUFFICES ASSUME IInv, BeginRun PROVE IInv'
  OBVIOUS
<1> USE DEF IInv, BeginRun
<1>1. page = {} /\ probes = {}
  BY DEF TypeOK
<1>2. \A n \in Living(0) : /\ n \in Node /\ nodes[n].status = ONLINE
                           /\ nodes[n].lived /\ nodes[n].login_time > 0
  BY DEF Living
<1>3. TypeOK'
  BY <1>1, <1>2 DEF TypeOK
<1>4. Remaining'
  BY <1>2 DEF Remaining
<1>5. CursorPast' /\ NobodyIsAskedTwice' /\ EveryoneIsChecked'
  BY <1>1 DEF CursorPast, NobodyIsAskedTwice, EveryoneIsChecked
<1> QED BY <1>3, <1>4, <1>5

LEMMA QueryPageKeeps == IInv /\ QueryPage => IInv'
<1> SUFFICES ASSUME IInv, QueryPage PROVE IInv'
  OBVIOUS
<1> PICK P \in query_living_nodes_by_login_time(PageSize, earliest) :
        /\ \E n \in P : /\ \A m \in P : nodes[m].login_time <= nodes[n].login_time
                        /\ earliest' = nodes[n].login_time
        /\ page' = {[node_id |-> n, login_time |-> nodes[n].login_time] : n \in P}
        /\ len' = Cardinality(P)
        /\ cuts' = cuts \cup IF Cardinality(P) = PageSize THEN {earliest'} ELSE {}
  BY DEF QueryPage
<1>1. /\ P \subseteq Living(earliest) /\ P \subseteq Node
      /\ Cardinality(P) \in 0..PageSize
      /\ P = Living(earliest) \/ Cardinality(P) = PageSize
      /\ \A n \in P, m \in Living(earliest) \ P :
            nodes[n].login_time <= nodes[m].login_time
  BY PageIsLiving
<1>2. /\ pc = "query" /\ pc' = "page" /\ page = {}
      /\ UNCHANGED <<nodes, probes, steady, checked, events>>
  BY DEF QueryPage, IInv, TypeOK
<1>3. /\ earliest \in Nat /\ steady \subseteq Node
      /\ \A n \in Node : nodes[n].login_time \in Login /\ nodes[n].login_time \in Nat
  BY LoginsAreTimes DEF IInv, TypeOK
<1>4. PICK top \in P : /\ \A m \in P : nodes[m].login_time <= nodes[top].login_time
                       /\ earliest' = nodes[top].login_time
  OBVIOUS
<1>5. \A n \in Node : n \in Living(earliest) <=>
         nodes[n].status = ONLINE /\ nodes[n].lived /\ nodes[n].login_time > earliest
  BY DEF Living
<1>6. earliest < earliest' /\ earliest' \in Nat /\ earliest' \in Login
  BY <1>1, <1>3, <1>4, <1>5
<1>7. TypeOK'
  <2>1. page' \subseteq LivingNode
    BY <1>1, <1>3 DEF LivingNode
  <2>2. cuts' \subseteq Login
    BY <1>6 DEF IInv, TypeOK
  <2> QED BY <1>1, <1>2, <1>6, <2>1, <2>2 DEF IInv, TypeOK
<1>8. Remaining'
  <2> SUFFICES ASSUME NEW n \in steady \ checked
               PROVE  /\ nodes[n].status = ONLINE /\ nodes[n].lived
                      /\ \/ nodes[n].login_time > earliest'
                         \/ \E e \in page' : e.node_id = n
                         \/ nodes[n].login_time \in cuts'
                      /\ len' < PageSize => nodes[n].login_time <= earliest'
    BY <1>2 DEF Remaining
  <2>1. /\ n \in Node /\ nodes[n].status = ONLINE /\ nodes[n].lived
        /\ nodes[n].login_time > earliest \/ nodes[n].login_time \in cuts
    BY <1>2, <1>3 DEF IInv, Remaining
  <2>2. ASSUME n \in P
        PROVE  /\ \E e \in page' : e.node_id = n
               /\ nodes[n].login_time <= earliest'
    <3>1. [node_id |-> n, login_time |-> nodes[n].login_time] \in page'
      BY <2>2
    <3>2. nodes[n].login_time <= earliest'
      BY <1>4, <2>2
    <3> QED BY <3>1, <3>2
  <2>3. ASSUME n \notin P, nodes[n].login_time > earliest
        PROVE  /\ Cardinality(P) = PageSize
               /\ nodes[n].login_time >= earliest'
    BY <1>1, <1>3, <1>4, <1>5, <2>1, <2>3
  <2>4. ASSUME n \notin P, ~(nodes[n].login_time > earliest)
        PROVE  nodes[n].login_time \in cuts' /\ nodes[n].login_time <= earliest'
    BY <1>3, <1>6, <2>1, <2>4
  <2>5. ASSUME nodes[n].login_time = earliest', Cardinality(P) = PageSize
        PROVE  nodes[n].login_time \in cuts'
    BY <2>5
  <2> QED BY <1>3, <1>6, <2>1, <2>2, <2>3, <2>4, <2>5, CheckAssumption
<1>9. CursorPast' /\ NobodyIsAskedTwice' /\ EveryoneIsChecked'
  <2>1. \A n \in steady \cap checked :
           nodes[n].login_time <= earliest /\ nodes[n].login_time <= earliest'
    BY <1>3, <1>6 DEF IInv, CursorPast
  <2>2. \A e \in page' :
           /\ e.node_id \in P /\ e = [node_id |-> e.node_id,
                                      login_time |-> nodes[e.node_id].login_time]
           /\ e.login_time <= earliest' /\ e.login_time > earliest
    BY <1>1, <1>4, <1>5
  <2>3. \A e \in page' : e.node_id \in steady => e.node_id \notin checked
    BY <1>1, <1>3, <2>1, <2>2
  <2> QED BY <1>2, <2>1, <2>2, <2>3
          DEF IInv, CursorPast, NobodyIsAskedTwice, EveryoneIsChecked
<1> QED BY <1>7, <1>8, <1>9 DEF IInv

LEMMA NoPageKeeps == IInv /\ NoPage => IInv'
<1> SUFFICES ASSUME IInv, NoPage PROVE IInv'
  OBVIOUS
<1>1. pc = "query" /\ page = {} /\ (Timestampdiff => Living(earliest) = {})
  BY DEF NoPage, IInv, TypeOK
<1>2. TypeOK' /\ Remaining' /\ CursorPast' /\ NobodyIsAskedTwice'
  BY <1>1 DEF NoPage, IInv, TypeOK, Remaining, CursorPast, NobodyIsAskedTwice
<1>3. Timestampdiff => EveryoneIsChecked'
  BY <1>1 DEF NoPage, IInv, TypeOK, Remaining, EveryoneIsChecked, Living
<1> QED BY <1>2, <1>3 DEF IInv

LEMMA SpawnNextKeeps == IInv /\ SpawnNext => IInv'
<1> SUFFICES ASSUME IInv, SpawnNext PROVE IInv'
  OBVIOUS
<1> PICK e \in page : /\ page' = page \ {e}
                      /\ probes' = probes \cup {e}
                      /\ checked' = checked \cup {e.node_id}
  BY DEF SpawnNext
<1>1. /\ pc = "page" /\ e \in LivingNode /\ e.node_id \in Node
      /\ UNCHANGED <<nodes, earliest, len, pc, steady, cuts, events>>
  BY DEF SpawnNext, IInv, TypeOK, LivingNode
<1>2. TypeOK'
  BY <1>1 DEF IInv, TypeOK
<1>3. Remaining'
  BY <1>1 DEF IInv, Remaining
<1>4. CursorPast'
  BY <1>1 DEF IInv, CursorPast
<1>5. NobodyIsAskedTwice'
  BY <1>1 DEF IInv, CursorPast, NobodyIsAskedTwice
<1> QED BY <1>1, <1>2, <1>3, <1>4, <1>5 DEF IInv, EveryoneIsChecked

LEMMA EndPageKeeps == IInv /\ EndPage => IInv'
<1> SUFFICES ASSUME IInv, EndPage PROVE IInv'
  OBVIOUS
<1>1. /\ pc = "page" /\ page = {} /\ pc' = IF len < PageSize THEN "idle" ELSE "query"
      /\ UNCHANGED <<nodes, earliest, page, len, probes, steady, checked, cuts, events>>
  BY DEF EndPage
<1>2. TypeOK' /\ Remaining' /\ CursorPast' /\ NobodyIsAskedTwice'
  BY <1>1 DEF IInv, TypeOK, Remaining, CursorPast, NobodyIsAskedTwice
<1>3. EveryoneIsChecked'
  <2>1. \A n \in steady \ checked :
           nodes[n].login_time \in Nat /\ earliest \in Nat
    BY LoginsAreTimes DEF IInv, TypeOK
  <2> QED BY <1>1, <2>1 DEF IInv, Remaining, EveryoneIsChecked
<1> QED BY <1>2, <1>3 DEF IInv

LEMMA ProbeEndsKeeps ==
    ASSUME NEW e \in probes PROVE IInv /\ ProbeEnds(e) => IInv'
<1> SUFFICES ASSUME IInv, ProbeEnds(e) PROVE IInv'
  OBVIOUS
<1>1. /\ UNCHANGED <<earliest, page, len, pc, steady, checked, cuts, events>>
      /\ probes' \subseteq probes /\ e.node_id \in checked
  BY DEF ProbeEnds, job, IInv, CursorPast
<1>2. nodes \in [Node -> StatusRow] /\ steady \subseteq Node /\ checked \subseteq Node
  BY DEF IInv, TypeOK
<1>3. /\ nodes' \in [Node -> StatusRow]
      /\ \A n \in Node : /\ nodes'[n].login_time = nodes[n].login_time
                         /\ n \notin checked => nodes'[n] = nodes[n]
  BY <1>1, <1>2, UnavailKeeps DEF ProbeEnds
<1>4. TypeOK'
  BY <1>1, <1>3 DEF IInv, TypeOK
<1>5. Remaining'
  BY <1>1, <1>2, <1>3 DEF IInv, Remaining
<1>6. CursorPast' /\ NobodyIsAskedTwice' /\ (Timestampdiff => EveryoneIsChecked')
  BY <1>1, <1>2, <1>3 DEF IInv, CursorPast, NobodyIsAskedTwice, EveryoneIsChecked
<1> QED BY <1>4, <1>5, <1>6 DEF IInv

(* A row that changes is another node's, or keeps what the job goes by. *)
LEMMA ChangesKeep ==
    ASSUME NEW n \in Node PROVE IInv /\ (StatusChanges(n) \/ Ping(n)) => IInv'
<1> SUFFICES ASSUME IInv, StatusChanges(n) \/ Ping(n) PROVE IInv'
  OBVIOUS
<1>1. /\ UNCHANGED <<earliest, page, len, pc, probes, checked, cuts>>
      /\ steady' \subseteq steady
  BY DEF StatusChanges, Ping, job
<1>2. events' \in 0..MaxEvents
  BY CheckAssumption DEF StatusChanges, Ping, IInv, TypeOK
<1>3. nodes \in [Node -> StatusRow] /\ steady \subseteq Node
  BY DEF IInv, TypeOK
<1>4. nodes' \in [Node -> StatusRow]
  <2>1. CASE StatusChanges(n)
    BY <1>3, <2>1 DEF StatusChanges, StatusRow
  <2>2. CASE Ping(n)
    BY <1>3, <2>2 DEF Ping, StatusRow
  <2> QED BY <2>1, <2>2
<1>5. \A m \in steady' : /\ nodes'[m].login_time = nodes[m].login_time
                         /\ nodes'[m].status = nodes[m].status
                         /\ nodes[m].lived => nodes'[m].lived
  <2>1. CASE StatusChanges(n)
    BY <1>3, <2>1 DEF StatusChanges
  <2>2. CASE Ping(n)
    BY <1>3, <2>2 DEF Ping, StatusRow
  <2> QED BY <2>1, <2>2
<1>6. TypeOK'
  BY <1>1, <1>2, <1>4 DEF IInv, TypeOK
<1>7. Remaining'
  BY <1>1, <1>5 DEF IInv, Remaining
<1>8. CursorPast' /\ NobodyIsAskedTwice' /\ (Timestampdiff => EveryoneIsChecked')
  BY <1>1, <1>5 DEF IInv, CursorPast, NobodyIsAskedTwice, EveryoneIsChecked
<1> QED BY <1>6, <1>7, <1>8 DEF IInv

LEMMA QueryFailsKeeps == IInv /\ QueryFails => IInv'
BY CheckAssumption
DEF QueryFails, IInv, TypeOK, Remaining, CursorPast, NobodyIsAskedTwice,
    EveryoneIsChecked

LEMMA NextKeeps == IInv /\ [Next]_vars => IInv'
<1> SUFFICES ASSUME IInv, [Next]_vars PROVE IInv'
  OBVIOUS
<1>1. CASE BeginRun
  BY <1>1, BeginRunKeeps
<1>2. CASE QueryPage
  BY <1>2, QueryPageKeeps
<1>3. CASE NoPage
  BY <1>3, NoPageKeeps
<1>4. CASE SpawnNext
  BY <1>4, SpawnNextKeeps
<1>5. CASE EndPage
  BY <1>5, EndPageKeeps
<1>6. CASE QueryFails
  BY <1>6, QueryFailsKeeps
<1>7. CASE \E e \in probes : ProbeEnds(e)
  BY <1>7, ProbeEndsKeeps
<1>8. CASE \E n \in Node : StatusChanges(n) \/ Ping(n)
  BY <1>8, ChangesKeep
<1>9. CASE UNCHANGED vars
  BY <1>9
  DEF vars, job, IInv, TypeOK, Remaining, CursorPast, NobodyIsAskedTwice,
      EveryoneIsChecked
<1> QED BY <1>1, <1>2, <1>3, <1>4, <1>5, <1>6, <1>7, <1>8, <1>9 DEF Next, JobStep

(* The job's variables and the table keep their types. *)
THEOREM TypesAreKept == Spec => []TypeOK
<1>1. IInv => TypeOK
  BY DEF IInv
<1> QED BY <1>1, InitHolds, NextKeeps, PTL DEF Spec

(* On a database that knows TIMESTAMPDIFF a run reaches every node that    *)
(* was online when it began and that nobody closed or made unavailable     *)
(* meanwhile, but for those tied with the last node of a full page: for    *)
(* any page size, any number of nodes and permits, whatever the others do. *)
THEOREM EveryoneGetsChecked == ASSUME Timestampdiff PROVE Spec => []EveryoneIsChecked
<1>1. IInv => EveryoneIsChecked
  BY DEF IInv
<1> QED BY <1>1, InitHolds, NextKeeps, PTL DEF Spec

(* No node is asked a second time in a run, unless its status changed.     *)
THEOREM NobodyGetsAskedTwice == Spec => []NobodyIsAskedTwice
<1>1. IInv => NobodyIsAskedTwice
  BY DEF IInv
<1> QED BY <1>1, InitHolds, NextKeeps, PTL DEF Spec
=============================================================================
