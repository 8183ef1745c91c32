--------------------- MODULE ApplicationRegistry_proofs ---------------------
(***************************************************************************)
(* Theorems of ApplicationRegistry, for every set of keys, codes, calls of *)
(* create, concurrent requests and applications seeded.                    *)
(***************************************************************************)
EXTENDS ApplicationRegistry, TLAPS

(* The stages the guards decide for (canActivate of both). *)
LEMMA DecisionStages ==
    \A found, i : Decision(found, i) \in {"401", "403", "lookup"}
BY DEF Decision

(* An empty slot, and a slot with one field replaced, is a request. *)
LEMMA SlateType == \A pc \in ReqStage : Slate(pc) \in Request
<1>1. (CHOOSE k \in Key : TRUE) \in Key /\ (CHOOSE i \in Ip : TRUE) \in Ip
  BY DataAssumption
<1>q. QED BY <1>1 DEF Slate, Request

(* The decision of the guards moves a request along and keeps its key, its
   history and its processor. *)
LEMMA Decided ==
    ASSUME NEW s \in Slot, req \in [Slot -> Request], NEW from, NEW found \in SUBSET Row,
           Decide(s, from, found)
    PROVE  \E r \in Request :
              /\ req[s].pc = from
              /\ req' = [req EXCEPT ![s] = r]
              /\ r.key = req[s].key /\ r.known = req[s].known
              /\ r.pc \in {"401", "403", "lookup"}
              /\ r.pc = "401" => found = {}
              /\ r.pc = "lookup" => found # {} /\ r.found = found
              /\ r.pc # "lookup" => r.found = {}
<1>1. PICK i \in Ip : ReqGoes(s, from,
          IF Decision(found, i) = "lookup"
             THEN [req[s] EXCEPT !.pc = Decision(found, i), !.found = found]
             ELSE [req[s] EXCEPT !.pc = Decision(found, i), !.found = {}, !.ip = i])
  BY DEF Decide
<1>2. DEFINE d == Decision(found, i)
<1>3. d \in {"401", "403", "lookup"}
  BY DecisionStages
<1>4. (d = "401" => found = {}) /\ (d = "lookup" => found # {})
  BY DEF Decision
<1>5. DEFINE r == IF d = "lookup"
             THEN [req[s] EXCEPT !.pc = d, !.found = found]
             ELSE [req[s] EXCEPT !.pc = d, !.found = {}, !.ip = i]
<1>6. req[s].pc = from /\ req' = [req EXCEPT ![s] = r]
  BY <1>1 DEF ReqGoes
<1>7. req[s] \in Request
  OBVIOUS
<1>d. d \in ReqStage
  BY <1>3 DEF ReqStage, InFlight
<1>8. CASE d = "lookup"
  <2>0. r = [req[s] EXCEPT !.pc = d, !.found = found]
    BY <1>8
  <2>1. r \in Request /\ r.key = req[s].key /\ r.known = req[s].known
           /\ r.pc = d /\ r.found = found
    BY <2>0, <1>7, <1>d DEF Request
  <2>q. QED BY <2>1, <1>3, <1>4, <1>6, <1>8
<1>9. CASE d # "lookup"
  <2>0. r = [req[s] EXCEPT !.pc = d, !.found = {}, !.ip = i]
    BY <1>9
  <2>1. r \in Request /\ r.key = req[s].key /\ r.known = req[s].known
           /\ r.pc = d /\ r.found = {}
    BY <2>0, <1>7, <1>d DEF Request
  <2>q. QED BY <2>1, <1>3, <1>4, <1>6, <1>9
<1>q. QED BY <1>8, <1>9
-----------------------------------------------------------------------------
(* Type correctness. *)

(* Before the first call every variable has its type. *)
LEMMA InitType == Init => TypeOK
<1> SUFFICES ASSUME Init PROVE TypeOK
  OBVIOUS
<1>1. Slate("idle") \in Request
  BY SlateType DEF ReqStage
<1>2. creation \in [Creation -> [pc : CreateStage, form : Form]]
  BY DEF Init, CreateStage
<1>q. QED BY <1>1, <1>2, EditAssumption DEF Init, TypeOK

(* A row made for the next id has its type, and ids stay below the counter. *)
LEMMA AddRowType ==
    ASSUME TypeOK, NEW c \in Code, NEW k \in Key, NEW ips \in IpLists,
           AddRow(NewRow(nextId, c, k, ips))
    PROVE  /\ table' \subseteq Row /\ \A a \in table' : a.id < nextId'
           /\ nextId' \in Nat /\ owners' = owners
<1>1. NewRow(nextId, c, k, ips) \in Row /\ NewRow(nextId, c, k, ips).id = nextId
  BY DEF TypeOK, NewRow, Row
<1>2. \A a \in table : a.id \in Nat
  BY DEF TypeOK, Row
<1>q. QED BY <1>1, <1>2 DEF TypeOK, AddRow

(* The steps of create keep the types. *)
LEMMA CreateType ==
    ASSUME TypeOK, NEW c \in Creation, CreateStep(c)
    PROVE  TypeOK'
<1> USE DEF db, seed
<1>1. \A from, to : to \in CreateStage /\ CreateGoes(c, from, to)
          => creation' \in [Creation -> [pc : CreateStage, form : Form]]
  BY DEF TypeOK, CreateGoes
<1>2. CASE CheckCode(c)
  BY <1>1, <1>2 DEF CheckCode, CreateStage, TypeOK
<1>3. CASE CheckKey(c)
  BY <1>1, <1>3 DEF CheckKey, CreateStage, TypeOK
<1>4. CASE Insert(c)
  <2>1. Stored(c) \in Code /\ creation[c].form.key \in Key /\ {} \in IpLists
    BY DataAssumption, FormAssumption DEF TypeOK, Stored, IpLists
  <2>2. creation' \in [Creation -> [pc : CreateStage, form : Form]]
    BY <1>1, <1>4 DEF Insert, CreateStage
  <2>3. AddRow(NewRow(nextId, Stored(c), creation[c].form.key, {}))
    BY <1>4 DEF Insert
  <2>q. QED BY <1>4, <2>1, <2>2, <2>3, AddRowType DEF Insert, TypeOK
<1>5. CASE InsertRefused(c) \/ FailCreate(c)
  BY <1>1, <1>5 DEF InsertRefused, FailCreate, CreateStage, TypeOK
<1>q. QED BY <1>2, <1>3, <1>4, <1>5 DEF CreateStep

(* A request step that only replaces the slot keeps the types. *)
LEMMA SlotType ==
    ASSUME TypeOK, NEW s \in Slot, NEW r \in Request, req' = [req EXCEPT ![s] = r],
           UNCHANGED <<table, nextId, creation, seed, edits>>,
           owners' \subseteq Nat, cache' \in [Key -> SUBSET SUBSET Row]
    PROVE  TypeOK'
BY DEF TypeOK, seed

(* The steps of a request keep the types. *)
LEMMA RequestType ==
    ASSUME TypeOK, NEW s \in Slot,
           Arrive(s) \/ ArriveWithoutKey(s) \/ RequestStep(s) \/ FailRequest(s)
    PROVE  TypeOK'
<1> USE DEF db, TypeOK
<1>0. req[s] \in Request /\ req[s].key \in Key
  BY DEF Request
<1>1. \A pc \in {"turnedAway", "recorded", "500", "401"} : Slate(pc) \in Request
  BY SlateType DEF ReqStage
<1>2. CASE Arrive(s)
  <2>1. PICK k \in Sent : req' = [req EXCEPT ![s] =
            [Slate("get") EXCEPT !.key = k, !.known = KeyActive(k)]]
    BY <1>2 DEF Arrive
  <2>2. Slate("get") \in Request
    BY SlateType DEF ReqStage, InFlight
  <2>3. [Slate("get") EXCEPT !.key = k, !.known = KeyActive(k)] \in Request
    BY <2>2, DataAssumption DEF Request, KeyActive
  <2>q. QED BY <1>2, <2>1, <2>3, SlotType DEF Arrive
<1>3. CASE ArriveWithoutKey(s)
  BY <1>1, <1>3, SlotType DEF ArriveWithoutKey
<1>4. CASE Hit(s)
  <2>1. PICK v \in cache[CacheKey(req[s].key)] : Decide(s, "get", v)
    BY <1>4 DEF Hit
  <2>2. v \in SUBSET Row
    BY <1>0 DEF CacheKey
  <2>3. PICK r \in Request : req' = [req EXCEPT ![s] = r]
    BY <2>1, <2>2, Decided
  <2>q. QED BY <1>4, <2>3, SlotType DEF Hit
<1>5. CASE Miss(s)
  <2>1. [req[s] EXCEPT !.pc = "query"] \in Request
    BY <1>0 DEF Request, ReqStage, InFlight
  <2>q. QED BY <1>5, <2>1, SlotType DEF Miss, ReqGoes
<1>6. CASE Query(s)
  <2>1. PICK f \in {{a} : a \in Active(table, req[s].key)} \cup {{}} :
            req' = [req EXCEPT ![s] = [req[s] EXCEPT !.found = f, !.pc = "fill"]]
    BY <1>6 DEF Query, ReqGoes
  <2>2. f \in SUBSET Row
    BY <2>1 DEF Active
  <2>3. [req[s] EXCEPT !.found = f, !.pc = "fill"] \in Request
    BY <1>0, <2>2 DEF Request, ReqStage, InFlight
  <2>q. QED BY <1>6, <2>1, <2>3, SlotType DEF Query
<1>7. CASE Fill(s)
  <2>1. req[s].found \in SUBSET Row
    BY <1>0 DEF Request
  <2>2. PICK r \in Request : req' = [req EXCEPT ![s] = r]
    BY <1>7, <2>1, Decided DEF Fill
  <2>3. cache' \in [Key -> SUBSET SUBSET Row]
    BY <1>7, <2>1 DEF Fill
  <2>q. QED BY <1>7, <2>2, <2>3, SlotType DEF Fill
<1>8. CASE TurnAway(s) \/ RecordRefused(s) \/ FailRequest(s)
  BY <1>1, <1>8, SlotType DEF TurnAway, RecordRefused, FailRequest, Answered, ReqGoes
<1>9. CASE FindProcessor(s)
  <2>1. PICK p \in {{i} : i \in Ids} \cup {{}} :
            req' = [req EXCEPT ![s] = [req[s] EXCEPT !.proc = p, !.pc = "record"]]
    BY <1>9 DEF FindProcessor, ReqGoes
  <2>2. p \in SUBSET Nat
    BY <2>1 DEF Ids, Row
  <2>3. [req[s] EXCEPT !.proc = p, !.pc = "record"] \in Request
    BY <1>0, <2>2 DEF Request, ReqStage, InFlight
  <2>q. QED BY <1>9, <2>1, <2>3, SlotType DEF FindProcessor
<1>10. CASE Record(s)
  <2>1. {a.id : a \in req[s].found} \subseteq Nat
    BY <1>0 DEF Request, Row
  <2>q. QED BY <1>1, <1>10, <2>1, SlotType DEF Record, Answered, ReqGoes
<1>q. QED BY <1>2, <1>3, <1>4, <1>5, <1>6, <1>7, <1>8, <1>9, <1>10 DEF RequestStep

(* The steps of Redis, the operator and the seeding script. *)
Outside ==
    \/ \E k \in Key : Expire(k)
    \/ \E a \in table : SetActive(a) \/ SetIps(a)
    \/ ClearTransactions \/ ClearApplications \/ SeedFails
    \/ \E x \in unseeded : SeedRow(x)

(* Watching a table change keeps the requests' types and all but their history. *)
LEMMA Watched ==
    ASSUME TypeOK, NEW t \in SUBSET Row, Watch(t)
    PROVE  /\ req' \in [Slot -> Request]
           /\ \A s \in Slot :
                /\ req'[s].pc = req[s].pc /\ req'[s].key = req[s].key
                /\ req'[s].found = req[s].found
                /\ req'[s].known => req[s].known /\ Active(t, req[s].key) # {}
<1>1. \A s \in Slot : req[s] \in Request
  BY DEF TypeOK
<1>2. \A s \in Slot :
         [req[s] EXCEPT !.known = @ /\ Active(t, req[s].key) # {}] \in Request
  BY <1>1 DEF Request
<1>3. req' = [s \in Slot |-> [req[s] EXCEPT !.known = @ /\ Active(t, req[s].key) # {}]]
  BY DEF Watch
<1>4. req' \in [Slot -> Request]
  BY <1>2, <1>3
<1>5. ASSUME NEW s \in Slot
      PROVE  /\ req'[s].pc = req[s].pc /\ req'[s].key = req[s].key
             /\ req'[s].found = req[s].found
             /\ req'[s].known => req[s].known /\ Active(t, req[s].key) # {}
  BY <1>1, <1>3, <1>5 DEF Request
<1>q. QED BY <1>4, <1>5

(* An edited row is a row with the code, the key and the id it had. *)
LEMMA EditedRow ==
    ASSUME TypeOK, NEW a \in table, SetActive(a) \/ SetIps(a)
    PROVE  \E b \in Row : Edit(a, b) /\ b.code = a.code /\ b.key = a.key /\ b.id = a.id
<1>1. a \in Row
  BY DEF TypeOK
<1>2. CASE SetActive(a)
  <2>1. [a EXCEPT !.active = ~@] \in Row
    BY <1>1 DEF Row
  <2>q. QED BY <1>1, <1>2, <2>1 DEF SetActive, Row
<1>3. CASE SetIps(a)
  <2>1. PICK f \in Form : Edit(a, [a EXCEPT !.ips = f.ips])
    BY <1>3 DEF SetIps
  <2>2. f.ips \in IpLists
    BY FormAssumption
  <2>3. [a EXCEPT !.ips = f.ips] \in Row
    BY <1>1, <2>2 DEF Row
  <2>q. QED BY <1>1, <2>1, <2>3 DEF Row
<1>q. QED BY <1>2, <1>3

(* An application of the seeding script that is created is a new row. *)
LEMMA SeededType ==
    ASSUME TypeOK, NEW x \in unseeded, SeedRow(x)
    PROVE  /\ table' \subseteq Row /\ \A a \in table' : a.id < nextId'
           /\ nextId' \in Nat /\ owners' = owners
<1>1. x.code \in Code /\ x.key \in Key /\ x.ips \in IpLists
  BY SeedAssumption DEF TypeOK
<1>q. QED BY <1>1, AddRowType DEF SeedRow

(* Those steps keep the types. *)
LEMMA OutsideType ==
    ASSUME TypeOK, Outside
    PROVE  TypeOK'
<1> USE DEF db, seed
<1>1. CASE \E k \in Key : Expire(k)
  BY <1>1 DEF Expire, TypeOK
<1>2. ASSUME NEW a \in table, SetActive(a) \/ SetIps(a)
      PROVE  TypeOK'
  <2>1. PICK b \in Row : Edit(a, b) /\ b.code = a.code /\ b.key = a.key /\ b.id = a.id
    BY <1>2, EditedRow
  <2>2. table' \subseteq Row /\ \A z \in table' : z.id < nextId'
    BY <2>1 DEF Edit, TypeOK
  <2>3. req' \in [Slot -> Request]
    BY <2>1, <2>2, Watched DEF Edit
  <2>q. QED BY <2>1, <2>2, <2>3, EditAssumption DEF Edit, TypeOK
<1>3. CASE ClearTransactions \/ SeedFails
  BY <1>3 DEF ClearTransactions, SeedFails, TypeOK
<1>4. CASE ClearApplications
  <2>1. req' \in [Slot -> Request]
    BY <1>4, Watched DEF ClearApplications
  <2>q. QED BY <1>4, <2>1 DEF ClearApplications, TypeOK
<1>5. ASSUME NEW x \in unseeded, SeedRow(x)
      PROVE  TypeOK'
  BY <1>5, SeededType DEF SeedRow, TypeOK
<1>q. QED BY <1>1, <1>2, <1>3, <1>4, <1>5 DEF Outside

(* Every step is one of create, of a request, or from outside. *)
LEMMA StepCases ==
    ASSUME Next
    PROVE  \/ \E c \in Creation : CreateStep(c)
           \/ \E s \in Slot :
                 Arrive(s) \/ ArriveWithoutKey(s) \/ RequestStep(s) \/ FailRequest(s)
           \/ Outside
BY DEF Next, Outside

(* Every step keeps the types. *)
LEMMA TypeStep == TypeOK /\ [Next]_vars => TypeOK'
<1> SUFFICES ASSUME TypeOK, [Next]_vars PROVE TypeOK'
  OBVIOUS
<1>1. CASE UNCHANGED vars
  BY <1>1 DEF vars, db, seed, TypeOK
<1>2. CASE Next
  BY <1>2, StepCases, CreateType, RequestType, OutsideType
<1>q. QED BY <1>1, <1>2

(* The tables, the cache and every call keep their types, whatever create,
   the guards, the operator and the seeding script interleave. *)
THEOREM TypeCorrect == Spec => []TypeOK
<1>1. Init => TypeOK
  BY InitType
<1>2. TypeOK /\ [Next]_vars => TypeOK'
  BY TypeStep
<1>q. QED BY <1>1, <1>2, PTL DEF Spec
-----------------------------------------------------------------------------
(* The table: no two applications share a code, a key or an id. *)

(* A new row that takes no code and no key in use keeps the rows apart. *)
LEMMA AddRowDistinct ==
    ASSUME TypeOK, ApplicationsDistinct, NEW c \in Code, NEW k \in Key, NEW ips \in IpLists,
           ~CodeTaken(c), ~KeyTaken(k), AddRow(NewRow(nextId, c, k, ips))
    PROVE  ApplicationsDistinct'
<1>1. DEFINE r == NewRow(nextId, c, k, ips)
<1>2. r.code = c /\ r.key = k /\ r.id = nextId
  BY DEF NewRow
<1>3. \A a \in table : a.id # nextId
  BY DEF TypeOK, Row
<1>4. \A a \in table : a.code # r.code /\ ~SameKey(a.key, r.key) /\ a.id # r.id
  BY <1>2, <1>3 DEF CodeTaken, KeyTaken, SameKey
<1>5. table' = table \cup {r}
  BY DEF AddRow
<1>6. HIDE DEF r
<1>q. QED BY <1>4, <1>5 DEF ApplicationsDistinct, SameKey

(* Every step keeps the rows apart. *)
LEMMA DistinctStep ==
    ASSUME TypeOK, ApplicationsDistinct, [Next]_vars
    PROVE  ApplicationsDistinct'
<1> USE DEF db
<1>1. CASE table' = table
  BY <1>1 DEF ApplicationsDistinct
<1>2. ASSUME NEW c \in Creation, CreateStep(c), table' # table
      PROVE  ApplicationsDistinct'
  <2>1. Insert(c)
    BY <1>2 DEF CreateStep, CheckCode, CheckKey, InsertRefused, FailCreate
  <2>2. Stored(c) \in Code /\ creation[c].form.key \in Key /\ {} \in IpLists
    BY DataAssumption, FormAssumption DEF TypeOK, Stored, IpLists
  <2>q. QED BY <2>1, <2>2, AddRowDistinct DEF Insert
<1>3. ASSUME NEW s \in Slot,
             Arrive(s) \/ ArriveWithoutKey(s) \/ RequestStep(s) \/ FailRequest(s)
      PROVE  table' = table
  BY <1>3 DEF Arrive, ArriveWithoutKey, RequestStep, FailRequest, Hit, Miss, Query, Fill,
     TurnAway, FindProcessor, Record, RecordRefused
<1>4. ASSUME NEW a \in table, SetActive(a) \/ SetIps(a)
      PROVE  ApplicationsDistinct'
  <2>1. PICK b \in Row : Edit(a, b) /\ b.code = a.code /\ b.key = a.key /\ b.id = a.id
    BY <1>4, EditedRow
  <2>2. table' = (table \ {a}) \cup {b}
    BY <2>1 DEF Edit
  <2>q. QED BY <2>1, <2>2 DEF ApplicationsDistinct
<1>5. ASSUME NEW x \in unseeded, SeedRow(x)
      PROVE  ApplicationsDistinct'
  <2>1. x.code \in Code /\ x.key \in Key /\ x.ips \in IpLists
    BY SeedAssumption DEF TypeOK
  <2>q. QED BY <1>5, <2>1, AddRowDistinct DEF SeedRow, SeedTaken
<1>6. CASE Outside
  BY <1>1, <1>4, <1>5, <1>6 DEF Outside, Expire, ClearTransactions, ClearApplications,
     SeedFails, ApplicationsDistinct
<1>7. CASE UNCHANGED vars
  BY <1>1, <1>7 DEF vars
<1>q. QED BY <1>1, <1>2, <1>3, <1>6, <1>7, StepCases

(* Two calls of create, the seeding script and edits in any order leave no two
   applications with one code, one id or, as the database compares them, one
   API key: the unique indexes close the gap between create's checks and its insert. *)
THEOREM RowsStayDistinct == Spec => []ApplicationsDistinct
<1>1. Init => ApplicationsDistinct
  BY DEF Init, ApplicationsDistinct
<1>2. TypeOK /\ ApplicationsDistinct /\ [Next]_vars => ApplicationsDistinct'
  BY DistinctStep
<1>q. QED BY <1>1, <1>2, TypeCorrect, PTL DEF Spec
-----------------------------------------------------------------------------
(* The key: what a request acts for was registered with the key it came with.
   A row comes to a request from the table or from the cache, so the cache
   takes part in the invariant. *)

CacheByKey == \A k \in Key : \A v \in cache[k] : \A a \in v : SameKey(a.key, k) /\ a.active

OwnerInv == ActsForKeyOwner /\ CacheByKey

(* What ActsForKeyOwner says of one request. *)
Owned(r) == /\ \A a \in r.found : SameKey(a.key, r.key) /\ a.active
            /\ r.pc \in {"lookup", "record"} => r.found # {}

(* A step that replaces one slot by a request that acts for its key. *)
LEMMA OwnedSlot ==
    ASSUME TypeOK, OwnerInv, NEW s \in Slot, NEW r, Owned(r), req' = [req EXCEPT ![s] = r],
           CacheByKey'
    PROVE  OwnerInv'
BY DEF TypeOK, OwnerInv, ActsForKeyOwner, Owned

(* A slot that knows nothing acts for nobody. *)
LEMMA SlateOwned == \A pc : pc \notin {"lookup", "record"} => Owned(Slate(pc))
BY DEF Owned, Slate

(* A request the guards have decided about still acts for its key. *)
LEMMA DecidedOwned ==
    ASSUME TypeOK, NEW s \in Slot, NEW from, NEW found \in SUBSET Row,
           Decide(s, from, found), \A a \in found : SameKey(a.key, req[s].key) /\ a.active
    PROVE  \E r : Owned(r) /\ req' = [req EXCEPT ![s] = r]
<1>1. req \in [Slot -> Request]
  BY DEF TypeOK
<1>2. PICK r \in Request : /\ req' = [req EXCEPT ![s] = r] /\ r.key = req[s].key
                           /\ r.pc \in {"401", "403", "lookup"}
                           /\ r.pc = "lookup" => found # {} /\ r.found = found
                           /\ r.pc # "lookup" => r.found = {}
  BY <1>1, Decided
<1>3. Owned(r)
  BY <1>2 DEF Owned
<1>q. QED BY <1>2, <1>3

(* The steps of a request keep it to the key it came with. *)
LEMMA OwnerRequest ==
    ASSUME TypeOK, OwnerInv, NEW s \in Slot,
           Arrive(s) \/ ArriveWithoutKey(s) \/ RequestStep(s) \/ FailRequest(s)
    PROVE  OwnerInv'
<1>0. req[s] \in Request /\ req[s].key \in Key /\ req[s].found \subseteq Row
  BY DEF TypeOK, Request
<1>1. Owned(req[s])
  BY DEF OwnerInv, ActsForKeyOwner, Owned
<1>2. cache' = cache => CacheByKey'
  BY DEF OwnerInv, CacheByKey
<1>3. CASE Arrive(s)
  <2>1. PICK k \in Sent : req' = [req EXCEPT ![s] =
            [Slate("get") EXCEPT !.key = k, !.known = KeyActive(k)]]
    BY <1>3 DEF Arrive
  <2>2. Owned([Slate("get") EXCEPT !.key = k, !.known = KeyActive(k)])
    BY DEF Owned, Slate
  <2>q. QED BY <1>2, <1>3, <2>1, <2>2, OwnedSlot DEF Arrive
<1>4. CASE ArriveWithoutKey(s) \/ TurnAway(s) \/ Record(s) \/ RecordRefused(s) \/ FailRequest(s)
  <2>1. \E pc \in {"401", "turnedAway", "recorded", "500"} :
            req' = [req EXCEPT ![s] = Slate(pc)]
    BY <1>4 DEF ArriveWithoutKey, TurnAway, Record, RecordRefused, FailRequest, Answered,
       ReqGoes
  <2>2. cache' = cache
    BY <1>4 DEF ArriveWithoutKey, TurnAway, Record, RecordRefused, FailRequest, db
  <2>q. QED BY <1>2, <2>1, <2>2, SlateOwned, OwnedSlot
<1>5. CASE Hit(s)
  <2>1. PICK v \in cache[CacheKey(req[s].key)] : Decide(s, "get", v)
    BY <1>5 DEF Hit
  <2>2. v \in SUBSET Row /\ \A a \in v : SameKey(a.key, req[s].key) /\ a.active
    BY <1>0, <2>1 DEF CacheKey, TypeOK, OwnerInv, CacheByKey
  <2>q. QED BY <1>2, <1>5, <2>1, <2>2, DecidedOwned, OwnedSlot DEF Hit
<1>6. CASE Miss(s)
  <2>1. Owned([req[s] EXCEPT !.pc = "query"])
    BY <1>0, <1>1 DEF Owned, Request
  <2>q. QED BY <1>2, <1>6, <2>1, OwnedSlot DEF Miss, ReqGoes
<1>7. CASE Query(s)
  <2>1. PICK f \in {{a} : a \in Active(table, req[s].key)} \cup {{}} :
            req' = [req EXCEPT ![s] = [req[s] EXCEPT !.found = f, !.pc = "fill"]]
    BY <1>7 DEF Query, ReqGoes
  <2>2. \A a \in f : SameKey(a.key, req[s].key) /\ a.active
    BY <2>1 DEF Active
  <2>3. Owned([req[s] EXCEPT !.found = f, !.pc = "fill"])
    BY <1>0, <2>2 DEF Owned, Request
  <2>q. QED BY <1>2, <1>7, <2>1, <2>3, OwnedSlot DEF Query
<1>8. CASE Fill(s)
  <2>1. \A a \in req[s].found : SameKey(a.key, req[s].key) /\ a.active
    BY <1>1 DEF Owned
  <2>2. CacheByKey'
    BY <1>0, <1>8, <2>1 DEF Fill, CacheKey, TypeOK, OwnerInv, CacheByKey
  <2>q. QED BY <1>0, <1>8, <2>1, <2>2, DecidedOwned, OwnedSlot DEF Fill
<1>9. CASE FindProcessor(s)
  <2>1. PICK p : req' = [req EXCEPT ![s] = [req[s] EXCEPT !.proc = p, !.pc = "record"]]
                 /\ req[s].pc = "lookup"
    BY <1>9 DEF FindProcessor, ReqGoes
  <2>2. Owned([req[s] EXCEPT !.proc = p, !.pc = "record"])
    BY <1>0, <1>1, <2>1 DEF Owned, Request
  <2>q. QED BY <1>2, <1>9, <2>1, <2>2, OwnedSlot DEF FindProcessor
<1>q. QED BY <1>3, <1>4, <1>5, <1>6, <1>7, <1>8, <1>9 DEF RequestStep

(* The steps that are not a request's. *)
Elsewhere == (\E c \in Creation : CreateStep(c)) \/ Outside

(* What steps that are not the request's own leave alone of it. *)
Kept(s) == /\ req'[s].pc = req[s].pc /\ req'[s].key = req[s].key
           /\ req'[s].found = req[s].found
           /\ req'[s].known => req[s].known

(* Steps of create and from outside leave stages, keys and rows found alone. *)
LEMMA RequestsKept ==
    ASSUME TypeOK, Elsewhere
    PROVE  \A s \in Slot : Kept(s)
<1> USE DEF Kept
<1>1. CASE req' = req
  BY <1>1
<1>2. ASSUME NEW a \in table, SetActive(a) \/ SetIps(a), NEW s \in Slot
      PROVE  Kept(s)
  <2>1. PICK b \in Row : Edit(a, b)
    BY <1>2, EditedRow
  <2>2. Watch(table') /\ table' \in SUBSET Row
    BY <2>1 DEF Edit, TypeOK
  <2>q. QED BY <2>2, Watched
<1>3. ASSUME ClearApplications, NEW s \in Slot
      PROVE  Kept(s)
  BY <1>3, Watched DEF ClearApplications
<1>4. ASSUME NEW c \in Creation, CreateStep(c)
      PROVE  req' = req
  BY <1>4 DEF CreateStep, CheckCode, CheckKey, Insert, InsertRefused, FailCreate
<1>q. QED BY <1>1, <1>2, <1>3, <1>4 DEF Elsewhere, Outside, Expire, ClearTransactions,
      SeedFails, SeedRow

(* Every step keeps requests and cache to their keys. *)
LEMMA OwnerStep ==
    ASSUME TypeOK, OwnerInv, [Next]_vars
    PROVE  OwnerInv'
<1>1. CASE UNCHANGED vars
  BY <1>1 DEF vars, OwnerInv, ActsForKeyOwner, CacheByKey
<1>2. CASE Elsewhere
  <2>0. \A s \in Slot : Kept(s)
    BY <1>2, RequestsKept
  <2>1. ActsForKeyOwner'
    BY <2>0 DEF Kept, OwnerInv, ActsForKeyOwner
  <2>2. CASE cache' = cache
    BY <2>1, <2>2 DEF OwnerInv, CacheByKey
  <2>3. CASE \E k \in Key : Expire(k)
    BY <2>1, <2>3 DEF Expire, TypeOK, OwnerInv, CacheByKey
  <2>4. (\E k \in Key : Expire(k)) \/ cache' = cache
    BY <1>2 DEF Elsewhere, Outside, CreateStep, CheckCode, CheckKey, Insert, InsertRefused, FailCreate,
       SetActive, SetIps, Edit, ClearTransactions, ClearApplications, SeedFails, SeedRow
  <2>q. QED BY <2>2, <2>3, <2>4
<1>q. QED BY <1>1, <1>2, OwnerRequest, StepCases DEF Elsewhere

(* Whatever is cached, edited, deleted and created again while a request is
   under way, it acts only for an application of the key it came with. *)
THEOREM RequestsActForKeyOwner == Spec => []ActsForKeyOwner
<1>1. Init => OwnerInv
  BY SlateOwned DEF Init, OwnerInv, ActsForKeyOwner, CacheByKey, Owned
<1>2. TypeOK /\ OwnerInv /\ [Next]_vars => OwnerInv'
  BY OwnerStep
<1>3. OwnerInv => ActsForKeyOwner
  BY DEF OwnerInv
<1>q. QED BY <1>1, <1>2, <1>3, TypeCorrect, PTL DEF Spec
-----------------------------------------------------------------------------
(* The known key.  That a request is not refused needs that its key is still
   active when it is read, and that what it read is what it decides on. *)

KnownInv ==
    \A s \in Slot : req[s].known => /\ KeyActive(req[s].key)
                                    /\ req[s].pc = "fill" => req[s].found # {}
                                    /\ req[s].pc # "401"

(* What KnownInv says of one request. *)
Accepted(r) == r.known => /\ KeyActive(r.key)
                          /\ r.pc = "fill" => r.found # {}
                          /\ r.pc # "401"

(* A step of one request that leaves the table alone. *)
LEMMA AcceptedSlot ==
    ASSUME TypeOK, KnownInv, NEW s \in Slot, NEW r, Accepted(r),
           req' = [req EXCEPT ![s] = r], table' = table
    PROVE  KnownInv'
BY DEF TypeOK, KnownInv, Accepted, KeyActive, Active

(* A request the guards have decided about, if something was found. *)
LEMMA DecidedAccepted ==
    ASSUME TypeOK, NEW s \in Slot, NEW from, NEW found \in SUBSET Row, Accepted(req[s]),
           Decide(s, from, found), req[s].known => found # {}
    PROVE  \E r : Accepted(r) /\ req' = [req EXCEPT ![s] = r]
<1>1. req \in [Slot -> Request]
  BY DEF TypeOK
<1>2. PICK r \in Request : /\ req' = [req EXCEPT ![s] = r]
                           /\ r.key = req[s].key /\ r.known = req[s].known
                           /\ r.pc \in {"401", "403", "lookup"}
                           /\ r.pc = "401" => found = {}
  BY <1>1, Decided
<1>3. Accepted(r)
  BY <1>2 DEF Accepted
<1>q. QED BY <1>2, <1>3

(* A request step refuses no known key. *)
LEMMA KnownRequest ==
    ASSUME TypeOK, KnownInv, NEW s \in Slot,
           Arrive(s) \/ ArriveWithoutKey(s) \/ RequestStep(s) \/ FailRequest(s)
    PROVE  KnownInv'
<1>0. req[s] \in Request /\ req[s].key \in Key /\ req[s].found \subseteq Row
  BY DEF TypeOK, Request
<1>1. Accepted(req[s])
  BY DEF KnownInv, Accepted
<1>t. table' = table
  BY DEF db, Arrive, ArriveWithoutKey, RequestStep, FailRequest, Hit, Miss, Query, Fill,
     TurnAway, FindProcessor, Record, RecordRefused
<1>3. CASE Arrive(s)
  <2>1. PICK k \in Sent : req' = [req EXCEPT ![s] =
            [Slate("get") EXCEPT !.key = k, !.known = KeyActive(k)]]
    BY <1>3 DEF Arrive
  <2>2. Accepted([Slate("get") EXCEPT !.key = k, !.known = KeyActive(k)])
    BY DEF Accepted, Slate
  <2>q. QED BY <1>t, <2>1, <2>2, AcceptedSlot
<1>4. CASE ArriveWithoutKey(s) \/ TurnAway(s) \/ Record(s) \/ RecordRefused(s) \/ FailRequest(s)
  <2>1. \E pc : req' = [req EXCEPT ![s] = Slate(pc)]
    BY <1>4 DEF ArriveWithoutKey, TurnAway, Record, RecordRefused, FailRequest, Answered,
       ReqGoes
  <2>2. \A pc : Accepted(Slate(pc))
    BY DEF Accepted, Slate
  <2>q. QED BY <1>t, <2>1, <2>2, AcceptedSlot
<1>5. CASE Hit(s)
  <2>1. PICK v \in cache[CacheKey(req[s].key)] : IsHit(v) /\ Decide(s, "get", v)
    BY <1>5 DEF Hit
  <2>2. v \in SUBSET Row /\ v # {}
    BY <1>0, <2>1 DEF CacheKey, TypeOK, IsHit
  <2>q. QED BY <1>1, <1>t, <2>1, <2>2, DecidedAccepted, AcceptedSlot
<1>6. CASE Miss(s)
  <2>1. Accepted([req[s] EXCEPT !.pc = "query"])
    BY <1>0, <1>1 DEF Accepted, Request
  <2>q. QED BY <1>t, <1>6, <2>1, AcceptedSlot DEF Miss, ReqGoes
<1>7. CASE Query(s)
  <2>1. PICK f \in {{a} : a \in Active(table, req[s].key)} \cup {{}} :
            /\ f = {} => ~KeyActive(req[s].key)
            /\ req' = [req EXCEPT ![s] = [req[s] EXCEPT !.found = f, !.pc = "fill"]]
    BY <1>7 DEF Query, ReqGoes
  <2>3. Accepted([req[s] EXCEPT !.found = f, !.pc = "fill"])
    BY <1>0, <1>1, <2>1 DEF Accepted, Request
  <2>q. QED BY <1>t, <2>1, <2>3, AcceptedSlot
<1>8. CASE Fill(s)
  <2>1. req[s].pc = "fill" /\ Decide(s, "fill", req[s].found)
    BY <1>8 DEF Fill, Decide, ReqGoes
  <2>2. req[s].known => req[s].found # {}
    BY <1>1, <2>1 DEF Accepted
  <2>q. QED BY <1>0, <1>1, <1>t, <2>1, <2>2, DecidedAccepted, AcceptedSlot
<1>9. CASE FindProcessor(s)
  <2>1. PICK p : req' = [req EXCEPT ![s] = [req[s] EXCEPT !.proc = p, !.pc = "record"]]
    BY <1>9 DEF FindProcessor, ReqGoes
  <2>2. Accepted([req[s] EXCEPT !.proc = p, !.pc = "record"])
    BY <1>0, <1>1 DEF Accepted, Request
  <2>q. QED BY <1>t, <2>1, <2>2, AcceptedSlot
<1>q. QED BY <1>3, <1>4, <1>5, <1>6, <1>7, <1>8, <1>9 DEF RequestStep

(* A row that goes or is deactivated ends the history of those it was known
   to, a row that comes ends none. *)
LEMMA KnownStaysActive ==
    ASSUME TypeOK, KnownInv, Elsewhere
    PROVE  \A s \in Slot : req'[s].known => Active(table', req[s].key) # {}
<1>1. CASE table \subseteq table'
  <2>1. \A s \in Slot : req'[s].known => req[s].known
    BY RequestsKept DEF Kept
  <2>2. \A k : Active(table, k) \subseteq Active(table', k)
    BY <1>1 DEF Active
  <2>q. QED BY <2>1, <2>2 DEF KnownInv, KeyActive
<1>2. ASSUME NEW a \in table, SetActive(a) \/ SetIps(a), NEW s \in Slot
      PROVE  req'[s].known => Active(table', req[s].key) # {}
  <2>1. PICK b \in Row : Edit(a, b)
    BY <1>2, EditedRow
  <2>2. Watch(table') /\ table' \in SUBSET Row
    BY <2>1 DEF Edit, TypeOK
  <2>q. QED BY <2>2, Watched
<1>3. ASSUME ClearApplications, NEW s \in Slot
      PROVE  req'[s].known => Active(table', req[s].key) # {}
  BY <1>3, Watched DEF ClearApplications
<1>4. ASSUME NEW c \in Creation, CreateStep(c)
      PROVE  table \subseteq table'
  BY <1>4 DEF CreateStep, CheckCode, CheckKey, Insert, InsertRefused, FailCreate, AddRow, db
<1>q. QED BY <1>1, <1>2, <1>3, <1>4 DEF Elsewhere, Outside, Expire, ClearTransactions,
      SeedFails, SeedRow, AddRow, db

(* Every step keeps known keys accepted. *)
LEMMA KnownStep ==
    ASSUME TypeOK, KnownInv, [Next]_vars
    PROVE  KnownInv'
<1>1. CASE UNCHANGED vars
  BY <1>1 DEF vars, db, KnownInv, KeyActive, Active
<1>2. CASE Elsewhere
  <2>1. \A s \in Slot : Kept(s)
    BY <1>2, RequestsKept
  <2>2. \A s \in Slot : req'[s].known => Active(table', req[s].key) # {}
    BY <1>2, KnownStaysActive
  <2>q. QED BY <2>1, <2>2 DEF Kept, KnownInv, KeyActive
<1>q. QED BY <1>1, <1>2, KnownRequest, StepCases DEF Elsewhere

(* No interleaving of registrations, seedings, activations and cached nulls
   answers "Invalid API key" to a request whose key was active throughout. *)
THEOREM KnownKeysAccepted == Spec => []KnownKeyAccepted
<1>1. Init => KnownInv
  BY DEF Init, KnownInv, Slate
<1>2. TypeOK /\ KnownInv /\ [Next]_vars => KnownInv'
  BY KnownStep
<1>3. KnownInv => KnownKeyAccepted
  BY DEF KnownInv, KnownKeyAccepted
<1>q. QED BY <1>1, <1>2, <1>3, TypeCorrect, PTL DEF Spec
=============================================================================
