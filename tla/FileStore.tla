------------------------------ MODULE FileStore -------------------------------
(***************************************************************************)
(* Files in a storage medium (filestore/): worker processes share a root   *)
(* directory, a blob table or a bucket, and take uploads, deletes, reads,  *)
(* listings and signed downloads one request at a time.                    *)
(*                                                                         *)
(* The local medium's steps are its file-system calls, and another worker  *)
(* may come between any two; the others' are their statements or calls.    *)
(***************************************************************************)
EXTENDS Integers, FiniteSetsExt

CONSTANTS
  Worker,
  Key, Temp,         \* the names of files: numbers in their order, temporary ones last
  Absent, Idle,
  Asked,             \* the reads, signed reads and deletes of a path that clients ask for
  PageSize,
  Ttl,               \* download_url_ttl_seconds
  Kid,               \* the encryption keys' ids, in the order of their use
  MaxTime, MaxRequests, MaxFaults \* bounds

Media == {"local", "sql", "s3"}
Path == Key \cup Temp

ASSUME FilesAssumption ==
  /\ Path \cup Kid \subseteq Nat \ {0} /\ \A k \in Key, t \in Temp : k < t
  /\ IsFiniteSet(Path) /\ Key # {} /\ Kid # {} /\ Idle \notin Path
  /\ Absent \notin [of : Key, part : {"nothing", "data", "meta"}]
  /\ Asked \subseteq {"read", "download", "content", "signed", "delete"} \X Path
  /\ PageSize \in Nat \ {0} /\ Ttl \in Nat \ {0}
  /\ MaxTime \in Nat /\ MaxRequests \in Nat /\ MaxFaults \in Nat

VARIABLES
  medium,
  files,     \* what each path holds
  metas,     \* the keys whose metadata is beside them
  job,       \* the request of each worker
  used,      \* the keys uuid4 has given
  acked,     \* the keys whose upload was answered 201
  deleting,  \* the paths of which a delete was asked
  early,     \* a delete was asked of a file whose upload was not answered
  faults,    \* bound
  now,
  kids,      \* the keys a process encrypts with, and accepts
  minted,    \* the capabilities given out
  walk,      \* a client's walk through the pages
  got,       \* the answer just given, if one was
  requests   \* bound

vars == <<medium, files, metas, job, used, acked, deleting, early, faults, now, kids, minted,
          walk, got, requests>>

store == <<files, metas>>
ledger == <<used, acked, deleting, early>>
world == <<medium, faults, now, kids>>

-----------------------------------------------------------------------------
(* Contents: nothing yet, the bytes of an upload, its metadata *)

Nothing(k) == [of |-> k, part |-> "nothing"]
Data(k) == [of |-> k, part |-> "data"]
Meta(k) == [of |-> k, part |-> "meta"]

(* `todo` is the paths whose head is to be asked yet, `found` what the others' was. *)
Request(op, id, at) ==
  [op |-> op, id |-> id, at |-> at, todo |-> {}, found |-> <<>>, bytes |-> Absent,
   named |-> FALSE, temp |-> Idle]

NoRequest == Request("none", Idle, "idle")

Unseen == [p \in Path |-> 0]

Init ==
  /\ medium \in Media
  /\ \E k \in SUBSET Key :
       /\ files = [p \in Path |-> IF p \in k THEN Data(p) ELSE Absent]
       /\ metas = k /\ used = k /\ acked = k
  /\ job = [w \in Worker |-> NoRequest]
  /\ deleting = {} /\ early = FALSE /\ faults = 0 /\ now = 0
  /\ kids = [signing |-> Min(Kid), accepted |-> {Min(Kid)}]
  /\ minted = {}
  /\ walk = [at |-> "start", after |-> 0, kid |-> Idle, seen |-> Unseen, must |-> {},
             thinned |-> FALSE]
  /\ got = Idle
  /\ requests = 0

Serving(w, at) == job[w].at = at

Begin(w, r) ==
  /\ Serving(w, "idle")
  /\ requests < MaxRequests
  /\ requests' = requests + 1
  /\ job' = [job EXCEPT ![w] = r]
  /\ got' = Idle
  /\ UNCHANGED world

Step(w, r) ==
  /\ job' = [job EXCEPT ![w] = r]
  /\ got' = Idle
  /\ UNCHANGED <<world, requests>>

Goto(w, at) == Step(w, [job[w] EXCEPT !.at = at])

Answer(w, status, body) ==
  /\ job' = [job EXCEPT ![w] = NoRequest]
  /\ got' = [op |-> job[w].op, id |-> job[w].id, status |-> status, body |-> body]
  /\ UNCHANGED <<world, requests>>

-----------------------------------------------------------------------------
(* FileService.create and put *)

(* An upload over the cap is refused before anything is written. *)
Oversize(w) ==
  /\ Serving(w, "idle")
  /\ requests < MaxRequests
  /\ requests' = requests + 1
  /\ got' = [op |-> "create", id |-> Idle, status |-> 400, body |-> Absent]
  /\ UNCHANGED <<world, store, ledger, job, minted, walk>>

Upload(w, k) ==
  /\ k \notin used
  /\ Begin(w, Request("create", k, "put"))
  /\ used' = used \cup {k}
  /\ UNCHANGED <<store, acked, deleting, early, minted, walk>>

Acknowledge(w) ==
  /\ Answer(w, 201, job[w].id)
  /\ acked' = acked \cup {job[w].id}
  /\ UNCHANGED <<used, deleting, early>>

(* SqlFileStore.put, in one transaction. *)
PutBlob(w) ==
  /\ medium = "sql" /\ Serving(w, "put")
  /\ files' = [files EXCEPT ![job[w].id] = Data(job[w].id)]
  /\ metas' = metas \cup {job[w].id}
  /\ Acknowledge(w)
  /\ UNCHANGED <<minted, walk>>

(* S3FileStore.put: the object, with its metadata, and then its head. *)
PutObject(w) ==
  /\ medium = "s3" /\ Serving(w, "put")
  /\ files' = [files EXCEPT ![job[w].id] = Data(job[w].id)]
  /\ metas' = metas \cup {job[w].id}
  /\ Goto(w, "stat")
  /\ UNCHANGED <<ledger, minted, walk>>

(* The object just written is described from the call's own arguments if it is gone. *)
DescribeObject(w) ==
  /\ medium = "s3" /\ Serving(w, "stat") /\ job[w].op = "create"
  /\ Acknowledge(w)
  /\ UNCHANGED <<store, minted, walk>>

(* Mutant: the bytes are written in place. *)
TempFor_InPlace(w) == {job[w].id}

(* Mutant: the temporary file always has the same name. *)
TempFor_Shared(w) == {Min(Temp)}

(* mkstemp: a new name beside the file. *)
TempFor(w) ==
  {t \in Temp : files[t] = Absent /\ \A v \in Worker : job[v].temp # t}

(* LocalFileStore.put: a temporary file is made, *)
MakeTemp(w) ==
  /\ medium = "local" /\ (Serving(w, "put") \/ Serving(w, "put meta"))
  /\ \E t \in TempFor(w) :
       /\ files' = [files EXCEPT ![t] = Nothing(job[w].id)]
       /\ Step(w, [job[w] EXCEPT !.temp = t, !.at = IF @ = "put" THEN "write" ELSE "write meta"])
  /\ UNCHANGED <<metas, ledger, minted, walk>>

(* written (through its descriptor, even if its name is gone by now), *)
WriteTemp(w) ==
  /\ Serving(w, "write") \/ Serving(w, "write meta")
  /\ files' = [files EXCEPT ![job[w].temp] =
                 IF @ = Absent THEN Absent
                 ELSE IF job[w].at = "write" THEN Data(job[w].id) ELSE Meta(job[w].id)]
  /\ Goto(w, IF job[w].at = "write" THEN "replace" ELSE "replace meta")
  /\ UNCHANGED <<metas, ledger, minted, walk>>

Moved(w) ==
  [p \in Path |-> IF p = job[w].id THEN files[job[w].temp]
                  ELSE IF p = job[w].temp THEN Absent ELSE files[p]]

(* and moved into place: the data, *)
ReplaceData(w) ==
  /\ Serving(w, "replace") /\ files[job[w].temp] # Absent
  /\ files' = Moved(w)
  /\ Step(w, [job[w] EXCEPT !.temp = Idle, !.at = "put meta"])
  /\ UNCHANGED <<metas, ledger, minted, walk>>

(* then, the same way, the metadata. *)
ReplaceMeta(w) ==
  /\ Serving(w, "replace meta") /\ files[job[w].temp] # Absent
  /\ files' = [files EXCEPT ![job[w].temp] = Absent]
  /\ metas' = metas \cup {job[w].id}
  /\ Step(w, [job[w] EXCEPT !.temp = Idle, !.at = "stat"])
  /\ UNCHANGED <<ledger, minted, walk>>

(* _stored reads the time of the file, which somebody may have deleted. *)
StatUploaded(w) ==
  /\ medium = "local" /\ Serving(w, "stat") /\ job[w].op = "create"
  /\ IF files[job[w].id] # Absent THEN Acknowledge(w)
     ELSE Answer(w, 500, Absent) /\ UNCHANGED ledger
  /\ UNCHANGED <<store, minted, walk>>

(* An error in between, as when the temporary file is gone, removes only that file. *)
PutFails(w) ==
  /\ \E at \in {"write", "replace", "write meta", "replace meta"} : Serving(w, at)
  /\ IF job[w].at \in {"replace", "replace meta"} /\ files[job[w].temp] = Absent
     THEN UNCHANGED faults
     ELSE faults < MaxFaults /\ faults' = faults + 1
  /\ files' = [files EXCEPT ![job[w].temp] = Absent]
  /\ job' = [job EXCEPT ![w] = NoRequest]
  /\ got' = [op |-> "create", id |-> job[w].id, status |-> 500, body |-> Absent]
  /\ UNCHANGED <<metas, ledger, medium, now, kids, minted, walk, requests>>

-----------------------------------------------------------------------------
(* head, of the paths a request has to do, in their order *)

Due(w) == Min(job[w].todo)

Info(named) == IF named THEN "named" ELSE "unnamed"

Headed(w, info) ==
  [job[w] EXCEPT !.found = [p \in DOMAIN @ \cup {Due(w)} |-> IF p = Due(w) THEN info ELSE @[p]],
                 !.todo = @ \ {Due(w)}, !.named = FALSE,
                 !.at = IF job[w].todo = {Due(w)} THEN "headed" ELSE "head"]

(* SqlFileStore.head, S3FileStore.head *)
HeadAtOnce(w) ==
  /\ medium # "local" /\ Serving(w, "head")
  /\ Step(w, Headed(w, IF files[Due(w)] = Absent THEN "absent" ELSE Info(Due(w) \in metas)))
  /\ UNCHANGED <<store, ledger, minted, walk>>

(* LocalFileStore.head: is it a file, *)
HeadIsFile(w) ==
  /\ medium = "local" /\ Serving(w, "head")
  /\ IF files[Due(w)] = Absent
     THEN /\ Step(w, Headed(w, "absent"))
          /\ walk' = [walk EXCEPT !.thinned = @ \/ job[w].op = "search"]
     ELSE Goto(w, "head bytes") /\ UNCHANGED walk
  /\ UNCHANGED <<store, ledger, minted>>

(* its bytes, *)
HeadBytes(w) ==
  /\ Serving(w, "head bytes") /\ files[Due(w)] # Absent
  /\ Goto(w, "head meta")
  /\ UNCHANGED <<store, ledger, minted, walk>>

(* its metadata, if they are there, *)
HeadMeta(w) ==
  /\ Serving(w, "head meta")
  /\ Step(w, [job[w] EXCEPT !.named = Due(w) \in metas, !.at = "head stat"])
  /\ UNCHANGED <<store, ledger, minted, walk>>

(* and its time. *)
HeadStat(w) ==
  /\ Serving(w, "head stat") /\ files[Due(w)] # Absent
  /\ Step(w, Headed(w, Info(job[w].named)))
  /\ UNCHANGED <<store, ledger, minted, walk>>

(* The file was deleted since it was seen: FileNotFoundError leaves the handler. *)
Vanished(w) ==
  /\ \/ (Serving(w, "head bytes") \/ Serving(w, "head stat")) /\ files[Due(w)] = Absent
     \/ (Serving(w, "get bytes") \/ Serving(w, "unlink")) /\ files[job[w].id] = Absent
     \/ Serving(w, "unlink meta") /\ job[w].id \notin metas
  /\ Answer(w, 500, Absent)
  /\ walk' = IF job[w].op = "search" THEN [walk EXCEPT !.at = "start"] ELSE walk
  /\ UNCHANGED <<store, ledger, minted>>

-----------------------------------------------------------------------------
(* Reads of one file: read, download, content *)

Read(w, op, p) ==
  /\ op \in {"read", "download", "content"}
  /\ Begin(w, [Request(op, p, "head") EXCEPT !.todo = {p}])
  /\ UNCHANGED <<store, ledger, minted, walk>>

(* What the head of the one path was. *)
Found(w) == job[w].found[job[w].id]

(* service.read: an object without its metadata is no FileDTO. *)
Missing(w) ==
  /\ Serving(w, "headed") /\ job[w].op \in {"read", "download", "content"}
  /\ \/ Found(w) = "absent" /\ Answer(w, 404, Absent)
     \/ Found(w) = "unnamed" /\ Answer(w, 500, Absent)
  /\ UNCHANGED <<store, ledger, minted, walk>>

FoundIt(w, op) ==
  Serving(w, "headed") /\ job[w].op = op /\ Found(w) = "named"

ReadAnswer(w) ==
  /\ FoundIt(w, "read")
  /\ Answer(w, 200, Found(w))
  /\ UNCHANGED <<store, ledger, minted, walk>>

(* The capability of one key, for Ttl seconds, under the key that signs now. *)
Mint(p) == [key |-> p, exp |-> now + Ttl, kid |-> kids.signing, at |-> now]

Download(w) ==
  /\ FoundIt(w, "download") /\ medium # "s3"
  /\ Answer(w, 200, Mint(job[w].id))
  /\ minted' = minted \cup {Mint(job[w].id)}
  /\ UNCHANGED <<store, ledger, walk>>

(* S3's own signed URL, also where content redirects to. *)
Presigned(w) ==
  /\ FoundIt(w, "download") \/ FoundIt(w, "content")
  /\ medium = "s3"
  /\ Answer(w, IF job[w].op = "content" THEN 307 ELSE 200, job[w].id)
  /\ UNCHANGED <<store, ledger, minted, walk>>

Content(w) ==
  /\ FoundIt(w, "content") /\ medium # "s3"
  /\ Goto(w, "get")
  /\ UNCHANGED <<store, ledger, minted, walk>>

(* The answer of content; the signed route asks for the head first. *)
HasBytes(w) ==
  IF job[w].op = "content" THEN Answer(w, 200, files[job[w].id])
  ELSE Step(w, [job[w] EXCEPT !.bytes = files[job[w].id], !.todo = {job[w].id}, !.at = "head"])

(* SqlFileStore.get and LocalFileStore.get, which looks first. *)
Get(w) ==
  /\ Serving(w, "get")
  /\ IF files[job[w].id] = Absent THEN Answer(w, 404, Absent)
     ELSE IF medium = "local" THEN Goto(w, "get bytes")
     ELSE HasBytes(w)
  /\ UNCHANGED <<store, ledger, minted, walk>>

GetBytes(w) ==
  /\ Serving(w, "get bytes") /\ files[job[w].id] # Absent
  /\ HasBytes(w)
  /\ UNCHANGED <<store, ledger, minted, walk>>

-----------------------------------------------------------------------------
(* The signed route of the local and the SQL medium *)

(* verify_signed_url and _verify: the codec's key, the expiry, the object. *)
Verified(token, p) == now < token.exp /\ token.kid \in kids.accepted /\ token.key = p

SignedGet(w, token, p) ==
  /\ medium # "s3" /\ token \in minted
  /\ IF Verified(token, p)
     THEN Begin(w, Request("signed", p, "get"))
     ELSE /\ Serving(w, "idle") /\ requests < MaxRequests /\ requests' = requests + 1
          /\ got' = [op |-> "signed", id |-> p, status |-> 400, body |-> Absent]
          /\ UNCHANGED <<world, job>>
  /\ UNCHANGED <<store, ledger, minted, walk>>

(* The bytes, after a head whose outcome decides only the content type. *)
SignedAnswer(w) ==
  /\ Serving(w, "headed") /\ job[w].op = "signed"
  /\ Answer(w, 200, job[w].bytes)
  /\ UNCHANGED <<store, ledger, minted, walk>>

-----------------------------------------------------------------------------
(* FileService.delete, and a Delete of apply_edits *)

Delete(w, p) ==
  /\ Begin(w, [Request("delete", p, "head") EXCEPT !.todo = {p}])
  /\ deleting' = deleting \cup {p}
  /\ early' = (early \/ p \notin acked)
  /\ walk' = [walk EXCEPT !.must = @ \ {p}]
  /\ UNCHANGED <<store, used, acked, minted>>

DeleteFound(w) ==
  /\ Serving(w, "headed") /\ job[w].op = "delete"
  /\ IF Found(w) = "absent" THEN Answer(w, 204, FALSE) ELSE Goto(w, "delete")
  /\ UNCHANGED <<store, ledger, minted, walk>>

DeleteAtOnce(w) ==
  /\ medium # "local" /\ Serving(w, "delete")
  /\ files' = [files EXCEPT ![job[w].id] = Absent]
  /\ metas' = metas \ {job[w].id}
  /\ Answer(w, 204, TRUE)
  /\ UNCHANGED <<ledger, minted, walk>>

DeleteIsFile(w) ==
  /\ medium = "local" /\ Serving(w, "delete")
  /\ Goto(w, IF files[job[w].id] # Absent THEN "unlink" ELSE "delete meta")
  /\ UNCHANGED <<store, ledger, minted, walk>>

Unlink(w) ==
  /\ Serving(w, "unlink") /\ files[job[w].id] # Absent
  /\ files' = [files EXCEPT ![job[w].id] = Absent]
  /\ Goto(w, "delete meta")
  /\ UNCHANGED <<metas, ledger, minted, walk>>

DeleteHasMeta(w) ==
  /\ Serving(w, "delete meta")
  /\ IF job[w].id \in metas THEN Goto(w, "unlink meta") ELSE Answer(w, 204, TRUE)
  /\ UNCHANGED <<store, ledger, minted, walk>>

(* Mutant: the metadata stay. *)
MetasWithout_None(p) == metas

MetasWithout(p) == metas \ {p}

UnlinkMeta(w) ==
  /\ Serving(w, "unlink meta") /\ job[w].id \in metas
  /\ metas' = MetasWithout(job[w].id)
  /\ Answer(w, 204, TRUE)
  /\ UNCHANGED <<files, ledger, minted, walk>>

-----------------------------------------------------------------------------
(* FileService.search and batch_read *)

(* A listing, or a page, is in the order of the names: it is the set of them. *)
Listed(after) == {p \in Path : files[p] # Absent /\ p > after}

(* The n first names of a listing. *)
Firsts(names, n) == {p \in names : Cardinality({q \in names : q < p}) < n}

(* Mutant: only as many names as the page has. *)
Names_Page(after) == Firsts(Listed(after), PageSize)

(* One more than the page has. *)
Names(after) == Firsts(Listed(after), PageSize + 1)

(* The next page of the walk, or its first; a cursor under a key that is dropped is bad. *)
Search(w) ==
  /\ walk.at \in {"start", "more"}
  /\ IF walk.at = "more" /\ walk.kid \notin kids.accepted
     THEN /\ Serving(w, "idle") /\ requests < MaxRequests /\ requests' = requests + 1
          /\ got' = [op |-> "search", id |-> Idle, status |-> 400, body |-> Absent]
          /\ walk' = [walk EXCEPT !.at = "start"]
          /\ UNCHANGED <<world, job>>
     ELSE /\ Begin(w, Request("search", Idle, "list"))
          /\ walk' = IF walk.at = "more" THEN [walk EXCEPT !.at = "waiting"]
                     ELSE [at |-> "waiting", after |-> 0, kid |-> Idle, seen |-> Unseen,
                           must |-> acked \ deleting, thinned |-> FALSE]
  /\ UNCHANGED <<store, ledger, minted>>

(* list_objects: of the SQL and S3 media at once, *)
ListAtOnce(w) ==
  /\ medium # "local" /\ Serving(w, "list")
  /\ Step(w, [job[w] EXCEPT !.at = "headed", !.found = [p \in Names(walk.after) |-> "named"]])
  /\ UNCHANGED <<store, ledger, minted, walk>>

(* of the local one the names in the directory, and then the head of each. *)
ListNames(w) ==
  /\ medium = "local" /\ Serving(w, "list")
  /\ Step(w, [job[w] EXCEPT !.todo = Names(walk.after),
                            !.at = IF Names(walk.after) = {} THEN "headed" ELSE "head"])
  /\ UNCHANGED <<store, ledger, minted, walk>>

(* The names that are still files make the page. *)
Still(w) == {p \in DOMAIN job[w].found : job[w].found[p] # "absent"}

Page(w) ==
  /\ Serving(w, "headed") /\ job[w].op = "search"
  /\ LET page == Firsts(Still(w), PageSize)
         more == Cardinality(Still(w)) > PageSize
     IN  /\ walk' = [walk EXCEPT !.seen = [p \in Path |-> IF p \in page THEN @[p] + 1 ELSE @[p]],
                                 !.at = IF more THEN "more" ELSE "over",
                                 !.after = IF more THEN Max(page) ELSE 0,
                                 !.kid = IF more THEN kids.signing ELSE Idle]
         /\ Answer(w, 200, page)
  /\ UNCHANGED <<store, ledger, minted>>

(* count_objects: every file that is no metadata file. *)
Count(w) ==
  /\ Serving(w, "idle") /\ requests < MaxRequests /\ requests' = requests + 1
  /\ got' = [op |-> "count", id |-> Idle, status |-> 200,
             body |-> Cardinality({p \in Path : files[p] # Absent})]
  /\ UNCHANGED <<world, store, ledger, job, minted, walk>>

BatchRead(w) ==
  /\ Begin(w, [Request("batch", Idle, "head") EXCEPT !.todo = Key])
  /\ UNCHANGED <<store, ledger, minted, walk>>

BatchAnswer(w) ==
  /\ Serving(w, "headed") /\ job[w].op = "batch"
  /\ IF \E p \in Key : job[w].found[p] = "unnamed"
     THEN Answer(w, 500, Absent) ELSE Answer(w, 200, job[w].found)
  /\ UNCHANGED <<store, ledger, minted, walk>>

-----------------------------------------------------------------------------
(* A worker dies. *)
Crash(w) ==
  /\ ~Serving(w, "idle") /\ faults < MaxFaults
  /\ faults' = faults + 1
  /\ job' = [job EXCEPT ![w] = NoRequest]
  /\ walk' = IF job[w].op = "search" THEN [walk EXCEPT !.at = "start"] ELSE walk
  /\ got' = Idle
  /\ UNCHANGED <<medium, now, kids, store, ledger, minted, requests>>

(* The deployment restarts with another key; the old ones may still decrypt. *)
Redeploy(kid, kept) ==
  /\ \A w \in Worker : Serving(w, "idle")
  /\ kid > kids.signing /\ kept \subseteq kids.accepted
  /\ kids' = [signing |-> kid, accepted |-> kept \cup {kid}]
  /\ got' = Idle
  /\ UNCHANGED <<medium, faults, now, store, ledger, job, minted, walk, requests>>

Tick ==
  /\ now < MaxTime /\ now' = now + 1
  /\ got' = Idle
  /\ UNCHANGED <<medium, faults, kids, store, ledger, job, minted, walk, requests>>

Put(w) ==
  \/ PutBlob(w) \/ PutObject(w) \/ DescribeObject(w)
  \/ MakeTemp(w) \/ WriteTemp(w) \/ ReplaceData(w) \/ ReplaceMeta(w)
  \/ StatUploaded(w) \/ PutFails(w)

HeadObject(w) ==
  HeadAtOnce(w) \/ HeadIsFile(w) \/ HeadBytes(w) \/ HeadMeta(w) \/ HeadStat(w) \/ Vanished(w)

Reply(w) ==
  \/ Missing(w) \/ ReadAnswer(w) \/ Download(w) \/ Presigned(w) \/ Content(w)
  \/ Get(w) \/ GetBytes(w) \/ SignedAnswer(w) \/ Page(w) \/ BatchAnswer(w)

Deletion(w) ==
  \/ DeleteFound(w) \/ DeleteAtOnce(w) \/ DeleteIsFile(w) \/ Unlink(w)
  \/ DeleteHasMeta(w) \/ UnlinkMeta(w)

Next ==
  \/ \E w \in Worker :
       \/ Put(w) \/ HeadObject(w) \/ Reply(w) \/ Deletion(w) \/ ListAtOnce(w) \/ ListNames(w)
       \/ Oversize(w) \/ Search(w) \/ Count(w) \/ BatchRead(w) \/ Crash(w)
       \/ \E k \in Key : Upload(w, k)
       \/ \E ask \in Asked :
            \/ Read(w, ask[1], ask[2])
            \/ ask[1] = "delete" /\ Delete(w, ask[2])
            \/ ask[1] = "signed" /\ \E token \in minted : SignedGet(w, token, ask[2])
  \/ \E kid \in Kid, kept \in SUBSET Kid : Redeploy(kid, kept)
  \/ Tick

Spec == Init /\ [][Next]_vars

-----------------------------------------------------------------------------
Contents == {Absent} \cup {[of |-> k, part |-> p] : k \in Key, p \in {"nothing", "data", "meta"}}

(* Every variable stays in its range; what is beside a key is that key's. *)
TypeOK ==
  /\ medium \in Media /\ now \in 0 .. MaxTime /\ faults \in 0 .. MaxFaults
  /\ files \in [Path -> Contents] /\ metas \subseteq Key
  /\ acked \subseteq used /\ used \subseteq Key /\ deleting \subseteq Path
  /\ \A w \in Worker :
       /\ job[w].temp \in Temp \cup {Idle} /\ job[w].id \in Path \cup {Idle}
       /\ job[w].at \in {"write", "replace", "write meta", "replace meta"} <=> job[w].temp # Idle
       /\ job[w].at \in {"head", "head bytes", "head meta", "head stat"} <=> job[w].todo # {}
  /\ kids.signing \in kids.accepted /\ kids.accepted \subseteq Kid
  /\ \A m \in minted : m.key \in Path /\ m.exp = m.at + Ttl

(* "so a concurrent reader never sees a truncated file": whoever reads a file by its   *)
(* key, by content or by a capability, is given all the bytes of that file's upload.    *)
ReadersSeeWholeFiles ==
  got # Idle /\ got.op \in {"content", "signed"} /\ got.status = 200 /\ got.id \in Key =>
    got.body = Data(got.id)

(* "a key is readable exactly when create has run for it and delete has not": the file *)
(* of every upload that was answered is there, with its metadata, until a delete of it.  *)
UploadedIsThere == \A k \in acked \ deleting : files[k] = Data(k) /\ k \in metas

(* Every file is whole, in the store and in every answer, whatever the other worker   *)
(* of its host, a crash or a failing medium does between the steps of a put.             *)
WholeFiles == ReadersSeeWholeFiles /\ UploadedIsThere

(* "so no orphan remains": between requests nothing is left of an upload or a deleted   *)
(* file, unless a worker failed, or a delete named a file that was not uploaded yet.     *)
NoOrphans ==
  (\A w \in Worker : Serving(w, "idle")) /\ faults = 0 /\ ~early =>
    /\ \A t \in Temp : files[t] = Absent
    /\ metas = {k \in Key : files[k] # Absent}

(* A walk through the pages lists no file twice, and in the end every one that was there *)
(* all the time, unless a local listing lost one of its names to a delete on the way.     *)
PagesComplete ==
  /\ \A p \in Path : walk.seen[p] <= 1
  /\ walk.at = "over" /\ ~walk.thinned => \A p \in walk.must : walk.seen[p] = 1

=============================================================================
