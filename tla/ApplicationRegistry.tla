------------------------ MODULE ApplicationRegistry ------------------------
(***************************************************************************)
(* Who may use the bridge: ApplicationService.create, which registers an   *)
(* application, and the way of a request through ApiKeyGuard (with         *)
(* findByApiKey and the cache in Redis in front of the table) and          *)
(* IpWhitelistGuard up to the transaction row that refers to its           *)
(* application, over a table that an operator edits and prisma/seed.ts     *)
(* empties and fills again.                                                *)
(*                                                                         *)
(* Every step is what runs between two awaits.  A call to Redis never      *)
(* fails its caller: a get that fails is a miss, a set may do nothing.  A  *)
(* call to the database may fail at any time.                              *)
(***************************************************************************)
EXTENDS Naturals, FiniteSets

CONSTANTS
    Key,            \* API keys, as requests and registrations spell them
    Sent,           \* those that requests carry
    Fold,           \* what the collation of the column api_key compares
    Spelling,       \* application codes as the callers of create spell them
    Code,           \* application codes as they are stored
    Sanitize,       \* upper case, letters and digits only
    Ip,             \* client addresses, as they are written
    NormalizeIp,    \* the same without a leading ::ffff:
    Creation,       \* calls of create
    Form,           \* the bodies they may carry
    Slot,           \* requests handled at one time
    Seed,           \* the applications that prisma/seed.ts creates
    MaxEdits        \* changes an operator makes to rows

IpLists == SUBSET Ip

ASSUME DataAssumption ==
    /\ Sanitize \in [Spelling -> Code] /\ NormalizeIp \in [Ip -> Ip]
    /\ Fold \in [Key -> Key]
    /\ Key # {} /\ Sent \subseteq Key /\ Ip # {}
ASSUME FormAssumption ==
    Form \subseteq [spelling : Spelling, key : Key, ips : IpLists \ {{}},
                    complete : BOOLEAN]    \* a processor has its webhookSecret
ASSUME SeedAssumption == Seed \subseteq [code : Code, key : Key, ips : IpLists]
ASSUME EditAssumption == MaxEdits \in Nat

Row == [id : Nat, code : Code, key : Key, ips : IpLists, active : BOOLEAN]

VARIABLES
    table,      \* applications
    nextId,     \* the uuid of the next row
    owners,     \* the applications that transactions refer to
    cache,      \* Redis under app:apikey:<key>: at most one value; a value is
                \* the set of the rows found, so {} is a cached null
    creation,   \* the calls of create
    req,        \* the requests
    seeding,    \* where prisma/seed.ts is
    unseeded,   \* the applications it still has to create
    edits       \* changes made by the operator so far

db   == <<table, nextId, owners>>
seed == <<seeding, unseeded>>
vars == <<db, cache, creation, req, seed, edits>>

CreateStage == {"idle", "key", "insert", "created", "conflict", "unprocessable", "error"}
InFlight    == {"get", "query", "fill", "lookup", "record"}
ReqStage    == InFlight \cup
                   {"idle", "recorded", "turnedAway", "401", "403", "500"}

(* A request: the application it has found and the processor, as sets of at
   most one, and whether its key has been known since it arrived. *)
Request == [pc : ReqStage, key : Key, ip : Ip, found : SUBSET Row,
            proc : SUBSET Nat, known : BOOLEAN]
-----------------------------------------------------------------------------
(* Data. *)

Ids           == {a.id : a \in table}
CodeTaken(c)  == \E a \in table : a.code = c

(* The database compares keys under its collation, the unique index too;
   codes are stored in upper case, so for them that is equality. *)
SameKey(k, l) == Fold[k] = Fold[l]
KeyTaken(k)   == \E a \in table : SameKey(a.key, k)
Active(t, k)  == {a \in t : SameKey(a.key, k) /\ a.active}
KeyActive(k)  == Active(table, k) # {}

IsIpAllowed(ip, ips) == NormalizeIp[ip] \in {NormalizeIp[i] : i \in ips}

(* The cache key of an API key, which Redis compares exactly. *)
CacheKeyPrefix(k) == CHOOSE x \in Key : TRUE      \* slip: its first 8 characters
CacheKey(k)       == k

(* What getOrSet takes for a hit: a stored null is parsed to null, which is
   also how a key that is not there looks. *)
IsHitStored(v) == TRUE                            \* slip: any stored value
IsHit(v)       == v # {}

(* The two guards, once the application is known: ApiKeyGuard refuses when
   there is none, IpWhitelistGuard when the list is empty or lacks the ip. *)
Decision(found, ip) ==
    CASE found = {}                                         -> "401"
      [] \E a \in found : ~IsIpAllowed(ip, a.ips)           -> "403"
      [] OTHER                                              -> "lookup"

NewRow(id, c, k, ips) ==
    [id |-> id, code |-> c, key |-> k, ips |-> ips, active |-> TRUE]
-----------------------------------------------------------------------------
(* A slot at stage pc that knows nothing of a request. *)
Slate(pc) == [pc |-> pc, key |-> CHOOSE k \in Key : TRUE,
              ip |-> CHOOSE i \in Ip : TRUE, found |-> {}, proc |-> {}, known |-> FALSE]

Init ==
    /\ table    = {}
    /\ nextId   = 0
    /\ owners   = {}
    /\ cache    = [k \in Key |-> {}]
    /\ creation \in [Creation -> [pc : {"idle"}, form : Form]]
    /\ req      = [s \in Slot |-> Slate("idle")]
    /\ seeding  = "idle"
    /\ unseeded = {}
    /\ edits    = 0
-----------------------------------------------------------------------------
(* ApplicationService.create. *)

Stored(c)             == Sanitize[creation[c].form.spelling]
CreateGoes(c, from, to) ==
    creation[c].pc = from /\ creation' = [creation EXCEPT ![c].pc = to]

CheckCode(c) ==
    /\ CreateGoes(c, "idle", IF CodeTaken(Stored(c)) THEN "conflict" ELSE "key")
    /\ UNCHANGED <<db, cache, req, seed, edits>>

(* The duplicate key is reported before the missing webhookSecret. *)
CheckKey(c) ==
    /\ CreateGoes(c, "key",
          CASE KeyTaken(creation[c].form.key) -> "conflict"
            [] ~KeyTaken(creation[c].form.key) /\ ~creation[c].form.complete
                                              -> "unprocessable"
            [] OTHER                          -> "insert")
    /\ UNCHANGED <<db, cache, req, seed, edits>>

AddRow(row) ==
    /\ table' = table \cup {row}
    /\ nextId' = nextId + 1
    /\ UNCHANGED owners

(* The columns that create passes: allowedIps is not one of them, and its
   default is the empty list. *)
InsertUnindexed(c) ==        \* slip: no unique index behind the two checks
    /\ CreateGoes(c, "insert", "created")
    /\ AddRow(NewRow(nextId, Stored(c), creation[c].form.key, {}))
    /\ UNCHANGED <<cache, req, seed, edits>>
InsertRaw(c) ==              \* slip: the code stored as it was spelled
    /\ ~CodeTaken(Stored(c)) /\ ~KeyTaken(creation[c].form.key)
    /\ CreateGoes(c, "insert", "created")
    /\ AddRow(NewRow(nextId, creation[c].form.spelling, creation[c].form.key, {}))
    /\ UNCHANGED <<cache, req, seed, edits>>
Insert(c) ==
    /\ ~CodeTaken(Stored(c)) /\ ~KeyTaken(creation[c].form.key)
    /\ CreateGoes(c, "insert", "created")
    /\ AddRow(NewRow(nextId, Stored(c), creation[c].form.key, {}))
    /\ UNCHANGED <<cache, req, seed, edits>>

(* A unique index refuses the row, or a call fails: HTTP 500. *)
InsertRefused(c) ==
    /\ CodeTaken(Stored(c)) \/ KeyTaken(creation[c].form.key)
    /\ CreateGoes(c, "insert", "error")
    /\ UNCHANGED <<db, cache, req, seed, edits>>

FailCreate(c) ==
    /\ \E from \in {"idle", "key", "insert"} : CreateGoes(c, from, "error")
    /\ UNCHANGED <<db, cache, req, seed, edits>>

CreateStep(c) ==
    \/ CheckCode(c) \/ CheckKey(c) \/ Insert(c) \/ InsertRefused(c) \/ FailCreate(c)
-----------------------------------------------------------------------------
(* A request: ApiKeyGuard, IpWhitelistGuard, TransactionService.create. *)

ReqGoes(s, from, r) == req[s].pc = from /\ req' = [req EXCEPT ![s] = r]
Answered(s, from, pc) == ReqGoes(s, from, Slate(pc))

Arrive(s) ==
    /\ req[s].pc \notin InFlight
    /\ \E k \in Sent :
          req' = [req EXCEPT ![s] = [Slate("get") EXCEPT !.key = k, !.known = KeyActive(k)]]
    /\ UNCHANGED <<db, cache, creation, seed, edits>>

ArriveWithoutKey(s) ==
    /\ req[s].pc \notin InFlight
    /\ req' = [req EXCEPT ![s] = Slate("401")]
    /\ UNCHANGED <<db, cache, creation, seed, edits>>

(* What the guards decide follows at once: they await nothing more. *)
Decide(s, from, found) ==
    \E i \in Ip :
        LET d == Decision(found, i)
        IN  ReqGoes(s, from,
                IF d = "lookup" THEN [req[s] EXCEPT !.pc = d, !.found = found]
                ELSE [req[s] EXCEPT !.pc = d, !.found = {}, !.ip = i])

HitRefreshed(s) ==           \* slip: a hit is written back with a new TTL
    /\ \E v \in cache[CacheKey(req[s].key)] :
          IsHit(v) /\ ReqGoes(s, "get", [req[s] EXCEPT !.found = v, !.pc = "fill"])
    /\ UNCHANGED <<db, cache, creation, seed, edits>>
Hit(s) ==
    /\ \E v \in cache[CacheKey(req[s].key)] : IsHit(v) /\ Decide(s, "get", v)
    /\ UNCHANGED <<db, cache, creation, seed, edits>>

(* Nothing there, a null there, or Redis does not answer. *)
Miss(s) ==
    /\ ReqGoes(s, "get", [req[s] EXCEPT !.pc = "query"])
    /\ UNCHANGED <<db, cache, creation, seed, edits>>

(* findFirst, an active row of the key. *)
Query(s) ==
    /\ \E f \in {{a} : a \in Active(table, req[s].key)} \cup {{}} :
          /\ f = {} => ~KeyActive(req[s].key)
          /\ ReqGoes(s, "query", [req[s] EXCEPT !.found = f, !.pc = "fill"])
    /\ UNCHANGED <<db, cache, creation, seed, edits>>

(* set never throws: it may leave the key as it was. *)
Fill(s) ==
    /\ Decide(s, "fill", req[s].found)
    /\ \/ cache' = [cache EXCEPT ![CacheKey(req[s].key)] = {req[s].found}]
       \/ cache' = cache
    /\ UNCHANGED <<db, creation, seed, edits>>

(* The rate limit, the validation of the body, or isReady. *)
TurnAway(s) ==
    /\ Answered(s, "lookup", "turnedAway")
    /\ UNCHANGED <<db, cache, creation, seed, edits>>

(* The row of the processor that the body names, if there is one. *)
FindProcessor(s) ==
    /\ \E p \in {{i} : i \in Ids} \cup {{}} :
          ReqGoes(s, "lookup", [req[s] EXCEPT !.proc = p, !.pc = "record"])
    /\ UNCHANGED <<db, cache, creation, seed, edits>>

(* transaction.create refers to both applications by foreign keys. *)
RefersTo(s) == {a.id : a \in req[s].found} \cup req[s].proc

Record(s) ==
    /\ RefersTo(s) \subseteq Ids
    /\ Answered(s, "record", "recorded")
    /\ owners' = owners \cup {a.id : a \in req[s].found}
    /\ UNCHANGED <<table, nextId, cache, creation, seed, edits>>

RecordRefused(s) ==
    /\ ~ RefersTo(s) \subseteq Ids
    /\ Answered(s, "record", "500")
    /\ UNCHANGED <<db, cache, creation, seed, edits>>

FailRequest(s) ==
    /\ \E from \in {"query", "lookup", "record"} : Answered(s, from, "500")
    /\ UNCHANGED <<db, cache, creation, seed, edits>>

RequestStep(s) ==
    \/ Hit(s) \/ Miss(s) \/ Query(s) \/ Fill(s) \/ TurnAway(s)
    \/ FindProcessor(s) \/ Record(s) \/ RecordRefused(s)
-----------------------------------------------------------------------------
(* Redis, the operator and prisma/seed.ts. *)

(* The TTL ends, or Redis evicts or loses the key. *)
Expire(k) ==
    /\ cache[k] # {}
    /\ cache' = [cache EXCEPT ![k] = {}]
    /\ UNCHANGED <<db, creation, req, seed, edits>>

(* A request is of a known key while that key has had an active row since the
   request arrived. *)
Watch(t) ==
    req' = [s \in Slot |->
              [req[s] EXCEPT !.known = @ /\ Active(t, req[s].key) # {}]]

(* Nothing in src changes a row; who does, does it in the database. *)
Edit(a, b) ==
    /\ edits < MaxEdits
    /\ edits' = edits + 1
    /\ table' = (table \ {a}) \cup {b}
    /\ Watch(table')
    /\ UNCHANGED <<nextId, owners, cache, creation, seed>>

SetActive(a)  == Edit(a, [a EXCEPT !.active = ~@])
SetIps(a)     == \E f \in Form : a.ips # f.ips /\ Edit(a, [a EXCEPT !.ips = f.ips])

ClearTransactions ==
    /\ seeding = "idle"
    /\ seeding' = "applications"
    /\ owners' = {}
    /\ UNCHANGED <<table, nextId, cache, creation, req, unseeded, edits>>

ClearApplications ==
    /\ seeding = "applications"
    /\ owners = {}
    /\ seeding' = "rows"
    /\ table' = {}
    /\ unseeded' = Seed
    /\ Watch({})
    /\ UNCHANGED <<nextId, owners, cache, creation, edits>>

SeedTaken(x) == CodeTaken(x.code) \/ KeyTaken(x.key)

(* The creates of Promise.all come in any order. *)
SeedRow(x) ==
    /\ ~SeedTaken(x)
    /\ unseeded' = unseeded \ {x}
    /\ AddRow(NewRow(nextId, x.code, x.key, x.ips))
    /\ UNCHANGED <<cache, creation, req, seeding, edits>>

(* A transaction recorded in the meantime keeps its application from being
   deleted, an application registered in the meantime takes a code or a key:
   the script ends, though creates it has sent may still be done. *)
SeedFails ==
    /\ \/ seeding = "applications" /\ owners # {}
       \/ seeding = "rows" /\ \E x \in unseeded : SeedTaken(x)
    /\ seeding' = "failed"
    /\ UNCHANGED <<db, cache, creation, req, unseeded, edits>>
-----------------------------------------------------------------------------
Next ==
    \/ \E c \in Creation : CreateStep(c)
    \/ \E s \in Slot :
          Arrive(s) \/ ArriveWithoutKey(s) \/ RequestStep(s) \/ FailRequest(s)
    \/ \E k \in Key : Expire(k)
    \/ \E a \in table : SetActive(a) \/ SetIps(a)
    \/ ClearTransactions \/ ClearApplications \/ SeedFails
    \/ \E x \in unseeded : SeedRow(x)

Spec == Init /\ [][Next]_vars

(* A call to the database or to Redis ends (ioredis gives a command up after
   its reconnection attempts), and so does a TTL.  Callers owe nothing. *)
Fairness ==
    /\ \A s \in Slot : WF_vars(RequestStep(s))
    /\ \A k \in Key : WF_vars(Expire(k))

FairSpec == Spec /\ Fairness
-----------------------------------------------------------------------------
(* Properties. *)

(* Rows, cached values, requests and calls of create keep their types, codes
   are stored as Sanitize leaves them, and ids are never used again. *)
TypeOK ==
    /\ table    \subseteq Row /\ \A a \in table : a.id < nextId
    /\ nextId   \in Nat
    /\ owners   \subseteq Nat
    /\ cache    \in [Key -> SUBSET SUBSET Row]
    /\ creation \in [Creation -> [pc : CreateStage, form : Form]]
    /\ req      \in [Slot -> Request]
    /\ seeding  \in {"idle", "applications", "rows", "failed"}
    /\ unseeded \subseteq Seed
    /\ edits    \in 0..MaxEdits

(* No interleaving of calls of create, of prisma/seed.ts and of an operator
   leaves two applications with one code, one id or, as the database compares
   them, one API key. *)
ApplicationsDistinct ==
    \A a, b \in table : a.code = b.code \/ SameKey(a.key, b.key) \/ a.id = b.id => a = b

(* A request past the guards acts for an application that was registered with
   the API key it came with, as the database compares keys, whatever was
   cached, edited, deleted or created again in between; without one it does
   not pass them. *)
ActsForKeyOwner ==
    \A s \in Slot :
        /\ \A a \in req[s].found : SameKey(a.key, req[s].key) /\ a.active
        /\ req[s].pc \in {"lookup", "record"} => req[s].found # {}

(* A request whose key belonged to an active application from its arrival on
   is never answered "Invalid API key": a null cached before the application
   was registered, seeded or activated again does not outlive it. *)
KnownKeyAccepted ==
    \A s \in Slot : req[s].pc = "401" => ~req[s].known

(* What the bridge still acts on: the cached rows, and those that requests
   under way have read. *)
Believed == UNION {UNION cache[k] : k \in Key}
              \cup UNION {req[s].found : s \in {z \in Slot : req[z].pc \in InFlight}}

(* Every application the bridge believes in is, from some time on, a row as
   the table has it, and active: a fill that raced an edit, a seeding or a
   deactivation writes its old row back only for so long. *)
StalenessEnds == <>[](\A a \in Believed : a \in table /\ a.active)

(* "Allowed IP addresses (IPv4/IPv6)" (create-application.dto.ts): a client
   that registered with the address it calls from, in an application nobody
   has touched since, is not refused for its address. *)
RegisteredIpIsAllowed ==
    \A c \in Creation, s \in Slot :
        /\ creation[c].pc = "created" /\ edits = 0 /\ seeding = "idle"
        /\ req[s].key = creation[c].form.key
        /\ IsIpAllowed(req[s].ip, creation[c].form.ips)
        => req[s].pc # "403"
=============================================================================
