------------------------ MODULE RegistryServerProofs ------------------------
(***************************************************************************)
(* What RegistryServer promises of repositories in which no delete         *)
(* overlapped, for any number of handlers and repositories, any manifests, *)
(* and transactions taken apart into statements.                           *)
(***************************************************************************)
EXTENDS RegistryServer, FiniteSetTheorems, TLAPS

USE DEF Digest, ManifestTypes, ObjectTypes

-----------------------------------------------------------------------------
(* The strengthened invariant *)

RequestRow == [step: PutSteps \cup DeleteSteps \cup {"credit", "owner", "store"},
               repo: Repo, digest: Digest, tag: Tag \cup {NoTag},
               todo: SUBSET Digest, rows: SUBSET Digest, untag: SUBSET Tag,
               charge: BOOLEAN]

\* What a handler has found of the objects that do not go away.
PutKnows(q) ==
    LET m == requests[q].digest
        D == requests[q].todo
    IN  Putting(q) =>
        /\ m \in Manifest
        /\ At(q, "track") => D \subseteq BlobRefs[m] /\ \A b \in BlobRefs[m] \ D : objects[b] # "absent"
        /\ ~At(q, "track") => \A b \in BlobRefs[m] : objects[b] # "absent"
        /\ At(q, "children") => D \subseteq ChildRefs[m]
        /\ ~At(q, "insert") => requests[q].rows = {}
        /\ At(q, "insert") => D \subseteq BlobRefs[m] /\ requests[q].rows \subseteq {m} \cup BlobRefs[m]

\* What it has found in a repository that no delete disturbs.
PutHolds(q) ==
    LET m == requests[q].digest
        D == requests[q].todo
        r == requests[q].repo
    IN  Putting(q) /\ r \in Undisturbed =>
        /\ At(q, "children") => ChildRefs[m] \ D \subseteq repoObjects[r]
        /\ At(q, "insert") =>
              /\ ChildRefs[m] \subseteq repoObjects[r]
              /\ {m} \cup (BlobRefs[m] \ D) \subseteq repoObjects[r] \cup requests[q].rows

\* What a delete of d has taken when it comes to a step.
Taken(step, d, rows, untag) ==
    /\ step \in {"guard", "present", "untag"} => untag = {}
    /\ step \in {"guard", "present", "untag", "delete"} => rows = {}
    /\ step = "sweep" => rows \subseteq {d}
    /\ step = "blobs" => rows \subseteq Manifest
    /\ step \in {"blobs", "tenants", "leave"} =>
          rows \cap Manifest \subseteq {d} \cup Catalog!Named({d})
    /\ step \in {"tenants", "leave"} =>
          rows \cap Blob \subseteq Catalog!Named({d} \cup (rows \cap Manifest))

\* Deletes and uploads work on digests of their kind.
OtherKnows(q) ==
    /\ Taken(requests[q].step, requests[q].digest, requests[q].rows, requests[q].untag)
    /\ Deleting(q) => requests[q].digest \in Manifest
    /\ At(q, "owner") \/ At(q, "store") => requests[q].digest \in Blob
    /\ At(q, "tenants") \/ At(q, "leave") \/ At(q, "credit") => requests[q].todo \subseteq Blob

Deleted(q) == {requests[q].digest} \cup requests[q].rows
Staying(q) == repoObjects[requests[q].repo] \ requests[q].rows

\* A delete that is alone takes only what nothing that stays pins, and all of it.
DeleteHolds(q) ==
    LET r == requests[q].repo
        d == requests[q].digest
    IN  Deleting(q) /\ r \in Undisturbed =>
        /\ ~At(q, "guard") =>
              \A p \in Staying(q) \cap Manifest : Pins(p) \cap Deleted(q) = {}
        /\ At(q, "untag") \/ At(q, "delete") => d \in repoObjects[r]
        /\ At(q, "delete") \/ At(q, "sweep") \/ At(q, "blobs") \/ At(q, "tenants") \/ At(q, "leave") =>
              requests[q].untag = {t \in Tag : tags[r][t] = d}
        /\ At(q, "sweep") \/ At(q, "blobs") \/ At(q, "tenants") \/ At(q, "leave") =>
              /\ d \in requests[q].rows /\ requests[q].rows \subseteq repoObjects[r]
              /\ \A x \in requests[q].rows \ {d} : Referenced(x, Digest)
        /\ At(q, "tenants") \/ At(q, "leave") =>
              \A b \in Staying(q) \cap Blob : Referenced(b, Staying(q) \cap Manifest)

\* Two handlers of which one deletes are known to overlap.
Alone ==
    \A p, q \in Request :
        p # q /\ Deleting(q) /\ (Putting(p) \/ Deleting(p)) =>
            {requests[q].repo, requests[p].repo} \in overlaps

RequestsOK ==
    /\ DOMAIN requests = Request
    /\ \A q \in Request : requests[q] = Idle \/ requests[q] \in RequestRow
    /\ \A q \in Request : PutKnows(q) /\ OtherKnows(q)

\* What is not a table of the index keeps to its domain.
Books ==
    /\ stored \in SUBSET Blob
    /\ ledger \in [Tenant -> [Blob -> Int]]
    /\ asked \in 0..MaxRequests
    /\ overlaps \in SUBSET {{r, s} : r, s \in Repo}
    /\ awaited \in SUBSET (Tenant \X Blob)
    /\ excused \in SUBSET (Tenant \X Blob)

Tables == TypeOK /\ IndexConsistent /\ Books

Holds == Alone /\ \A q \in Request : PutHolds(q) /\ DeleteHolds(q)

-----------------------------------------------------------------------------
(* The rows of requests *)

Others(q) == \A p \in Request : p # q => requests'[p] = requests[p]

\* The row of a request after a step, and those of the others.
LEMMA RowAfter ==
    ASSUME RequestsOK, NEW q \in Request, NEW w, requests' = [requests EXCEPT ![q] = w]
    PROVE  requests'[q] = w /\ Others(q) /\ DOMAIN requests' = Request
  BY DEF RequestsOK, Others

\* The same when the request ends.
LEMMA ReplyAfter ==
    ASSUME RequestsOK, NEW q \in Request, Reply(q)
    PROVE  /\ requests'[q] = Idle /\ requests'[q].step = "idle"
           /\ Others(q) /\ DOMAIN requests' = Request
  BY RowAfter DEF Reply, Idle

\* The fields that a handler changes, and those that it does not.
Edited(q, step, todo, rows, untag, charge) ==
    /\ requests'[q] \in RequestRow
    /\ requests'[q].step = step /\ requests'[q].todo = todo /\ requests'[q].rows = rows
    /\ requests'[q].untag = untag /\ requests'[q].charge = charge
    /\ requests'[q].repo = requests[q].repo /\ requests'[q].digest = requests[q].digest
    /\ requests'[q].tag = requests[q].tag
    /\ Others(q) /\ DOMAIN requests' = Request

\* The row w with other fields.
Row(w, step, todo, rows, untag, charge) ==
    [step |-> step, repo |-> w.repo, digest |-> w.digest, tag |-> w.tag,
     todo |-> todo, rows |-> rows, untag |-> untag, charge |-> charge]

\* A request with its new fields.
LEMMA EditedAfter ==
    ASSUME RequestsOK, NEW q \in Request, requests[q] \in RequestRow,
           NEW step \in PutSteps \cup DeleteSteps \cup {"credit", "owner", "store"},
           NEW todo \in SUBSET Digest, NEW rows \in SUBSET Digest, NEW untag \in SUBSET Tag,
           NEW charge \in BOOLEAN,
           requests' = [requests EXCEPT ![q] = Row(requests[q], step, todo, rows, untag, charge)]
    PROVE  Edited(q, step, todo, rows, untag, charge)
<1> DEFINE w == Row(requests[q], step, todo, rows, untag, charge)
<1>1. requests'[q] = w /\ Others(q) /\ DOMAIN requests' = Request
  BY RowAfter
<1>2. w \in RequestRow
  BY DEF RequestRow, Row
<1> QED
  BY <1>1, <1>2 DEF Edited, Row

\* A request with some of its fields changed.
Change(q, step, todo, rows, untag, charge) ==
    \/ /\ requests' = [requests EXCEPT ![q].step = step]
       /\ todo = requests[q].todo /\ rows = requests[q].rows
       /\ untag = requests[q].untag /\ charge = requests[q].charge
    \/ /\ requests' = [requests EXCEPT ![q].todo = todo]
       /\ step = requests[q].step /\ rows = requests[q].rows
       /\ untag = requests[q].untag /\ charge = requests[q].charge
    \/ /\ requests' = [requests EXCEPT ![q].step = step, ![q].todo = todo]
       /\ rows = requests[q].rows /\ untag = requests[q].untag /\ charge = requests[q].charge
    \/ /\ requests' = [requests EXCEPT ![q].step = step, ![q].todo = todo, ![q].rows = rows]
       /\ untag = requests[q].untag /\ charge = requests[q].charge
    \/ /\ requests' = [requests EXCEPT ![q].step = step, ![q].rows = rows, ![q].todo = todo]
       /\ untag = requests[q].untag /\ charge = requests[q].charge
    \/ /\ requests' = [requests EXCEPT ![q].step = step, ![q].rows = rows]
       /\ todo = requests[q].todo /\ untag = requests[q].untag /\ charge = requests[q].charge
    \/ /\ requests' = [requests EXCEPT ![q].step = step, ![q].untag = untag]
       /\ todo = requests[q].todo /\ rows = requests[q].rows /\ charge = requests[q].charge
    \/ /\ requests' = [requests EXCEPT ![q].step = step, ![q].charge = charge]
       /\ todo = requests[q].todo /\ rows = requests[q].rows /\ untag = requests[q].untag

\* The ways in which handlers change their rows.
LEMMA Edits ==
    ASSUME RequestsOK, NEW q \in Request, requests[q] # Idle,
           NEW step \in PutSteps \cup DeleteSteps \cup {"credit", "owner", "store"},
           NEW todo \in SUBSET Digest, NEW rows \in SUBSET Digest, NEW untag \in SUBSET Tag,
           NEW charge \in BOOLEAN,
           Change(q, step, todo, rows, untag, charge)
    PROVE  Edited(q, step, todo, rows, untag, charge)
<1>1. requests[q] \in RequestRow
  BY DEF RequestsOK
<1>2. PICK w \in RequestRow : w = requests[q]
  BY <1>1
<1>3. PICK v : v = [w EXCEPT !.step = step]
  OBVIOUS
<1>4. v = Row(w, step, w.todo, w.rows, w.untag, w.charge)
  BY <1>3 DEF RequestRow, Row
<1>5. PICK u : u = [v EXCEPT !.todo = todo]
  OBVIOUS
<1>6. u = Row(w, step, todo, w.rows, w.untag, w.charge)
  BY <1>4, <1>5 DEF Row
<1>7. PICK x : x = [v EXCEPT !.rows = rows]
  OBVIOUS
<1>8. x = Row(w, step, w.todo, rows, w.untag, w.charge)
  BY <1>4, <1>7 DEF Row
<1>9. [w EXCEPT !.step = step, !.todo = todo] = u
  BY <1>3, <1>5
<1>10. [w EXCEPT !.step = step, !.rows = rows] = x
  BY <1>3, <1>7
<1>11. [u EXCEPT !.rows = rows] = Row(w, step, todo, rows, w.untag, w.charge)
  BY <1>6 DEF Row
<1>12. [w EXCEPT !.step = step, !.todo = todo, !.rows = rows] = [u EXCEPT !.rows = rows]
  BY <1>3, <1>5
<1>13. [x EXCEPT !.todo = todo] = Row(w, step, todo, rows, w.untag, w.charge)
  BY <1>8 DEF Row
<1>14. [w EXCEPT !.step = step, !.rows = rows, !.todo = todo] = [x EXCEPT !.todo = todo]
  BY <1>3, <1>7
<1>15. [v EXCEPT !.untag = untag] = Row(w, step, w.todo, w.rows, untag, w.charge)
  BY <1>4 DEF Row
<1>16. [w EXCEPT !.step = step, !.untag = untag] = [v EXCEPT !.untag = untag]
  BY <1>3
<1>17. [v EXCEPT !.charge = charge] = Row(w, step, w.todo, w.rows, w.untag, charge)
  BY <1>4 DEF Row
<1>18. [w EXCEPT !.step = step, !.charge = charge] = [v EXCEPT !.charge = charge]
  BY <1>3
<1>19. [w EXCEPT !.todo = todo] = Row(w, w.step, todo, w.rows, w.untag, w.charge)
  BY DEF RequestRow, Row
<1>20. requests' = [requests EXCEPT ![q] = Row(w, step, todo, rows, untag, charge)]
  <2>1. CASE /\ requests' = [requests EXCEPT ![q].step = step]
             /\ todo = requests[q].todo /\ rows = requests[q].rows
             /\ untag = requests[q].untag /\ charge = requests[q].charge
    <3>1. requests' = [requests EXCEPT ![q] = [w EXCEPT !.step = step]]
      BY <1>2, <2>1
    <3>2. [w EXCEPT !.step = step] = Row(w, step, todo, rows, untag, charge)
      BY <1>2, <2>1, <1>3, <1>4
    <3> QED
      BY <3>1, <3>2
  <2>2. CASE /\ requests' = [requests EXCEPT ![q].todo = todo]
             /\ step = requests[q].step /\ rows = requests[q].rows
             /\ untag = requests[q].untag /\ charge = requests[q].charge
    <3>1. requests' = [requests EXCEPT ![q] = [w EXCEPT !.todo = todo]]
      BY <1>2, <2>2
    <3>2. [w EXCEPT !.todo = todo] = Row(w, step, todo, rows, untag, charge)
      BY <1>2, <2>2, <1>19
    <3> QED
      BY <3>1, <3>2
  <2>3. CASE /\ requests' = [requests EXCEPT ![q].step = step, ![q].todo = todo]
             /\ rows = requests[q].rows /\ untag = requests[q].untag /\ charge = requests[q].charge
    <3>1. requests' = [requests EXCEPT ![q] = [w EXCEPT !.step = step, !.todo = todo]]
      BY <1>2, <2>3
    <3>2. [w EXCEPT !.step = step, !.todo = todo] = Row(w, step, todo, rows, untag, charge)
      BY <1>2, <2>3, <1>6, <1>9
    <3> QED
      BY <3>1, <3>2
  <2>4. CASE /\ requests' = [requests EXCEPT ![q].step = step, ![q].todo = todo, ![q].rows = rows]
             /\ untag = requests[q].untag /\ charge = requests[q].charge
    <3>1. requests' = [requests EXCEPT ![q] = [w EXCEPT !.step = step, !.todo = todo, !.rows = rows]]
      BY <1>2, <2>4
    <3>2. [w EXCEPT !.step = step, !.todo = todo, !.rows = rows] = Row(w, step, todo, rows, untag, charge)
      BY <1>2, <2>4, <1>11, <1>12
    <3> QED
      BY <3>1, <3>2
  <2>5. CASE /\ requests' = [requests EXCEPT ![q].step = step, ![q].rows = rows, ![q].todo = todo]
             /\ untag = requests[q].untag /\ charge = requests[q].charge
    <3>1. requests' = [requests EXCEPT ![q] = [w EXCEPT !.step = step, !.rows = rows, !.todo = todo]]
      BY <1>2, <2>5
    <3>2. [w EXCEPT !.step = step, !.rows = rows, !.todo = todo] = Row(w, step, todo, rows, untag, charge)
      BY <1>2, <2>5, <1>13, <1>14
    <3> QED
      BY <3>1, <3>2
  <2>6. CASE /\ requests' = [requests EXCEPT ![q].step = step, ![q].rows = rows]
             /\ todo = requests[q].todo /\ untag = requests[q].untag /\ charge = requests[q].charge
    <3>1. requests' = [requests EXCEPT ![q] = [w EXCEPT !.step = step, !.rows = rows]]
      BY <1>2, <2>6
    <3>2. [w EXCEPT !.step = step, !.rows = rows] = Row(w, step, todo, rows, untag, charge)
      BY <1>2, <2>6, <1>8, <1>10
    <3> QED
      BY <3>1, <3>2
  <2>7. CASE /\ requests' = [requests EXCEPT ![q].step = step, ![q].untag = untag]
             /\ todo = requests[q].todo /\ rows = requests[q].rows /\ charge = requests[q].charge
    <3>1. requests' = [requests EXCEPT ![q] = [w EXCEPT !.step = step, !.untag = untag]]
      BY <1>2, <2>7
    <3>2. [w EXCEPT !.step = step, !.untag = untag] = Row(w, step, todo, rows, untag, charge)
      BY <1>2, <2>7, <1>15, <1>16
    <3> QED
      BY <3>1, <3>2
  <2>8. CASE /\ requests' = [requests EXCEPT ![q].step = step, ![q].charge = charge]
             /\ todo = requests[q].todo /\ rows = requests[q].rows /\ untag = requests[q].untag
    <3>1. requests' = [requests EXCEPT ![q] = [w EXCEPT !.step = step, !.charge = charge]]
      BY <1>2, <2>8
    <3>2. [w EXCEPT !.step = step, !.charge = charge] = Row(w, step, todo, rows, untag, charge)
      BY <1>2, <2>8, <1>17, <1>18
    <3> QED
      BY <3>1, <3>2
  <2> QED
    BY <2>1, <2>2, <2>3, <2>4, <2>5, <2>6, <2>7, <2>8 DEF Change
<1> QED
  BY <1>1, <1>2, <1>20, EditedAfter

-----------------------------------------------------------------------------
(* What the others keep *)

\* What a step never does.
Grow ==
    /\ overlaps \subseteq overlaps'
    /\ graph \subseteq graph'
    /\ \A d \in Digest : objects[d] # "absent" => objects'[d] # "absent"

\* A step leaves what p has found in its repository, if no delete disturbs it.
Spares(p) ==
    LET r == requests[p].repo
    IN  r \in Undisturbed' =>
        /\ Putting(p) => repoObjects[r] \subseteq repoObjects'[r]
        /\ Deleting(p) => repoObjects'[r] = repoObjects[r]
        /\ At(p, "delete") \/ At(p, "sweep") \/ At(p, "blobs") \/ At(p, "tenants") \/ At(p, "leave") =>
              \A t \in Tag : tags'[r][t] = requests[p].digest <=> tags[r][t] = requests[p].digest

IInv ==
    /\ Tables /\ RequestsOK /\ Holds
    /\ WholeUnlessDisturbed /\ TidyUnlessDisturbed

\* Fewer and fewer repositories are undisturbed.
LEMMA Disturbed ==
    ASSUME Grow
    PROVE  Undisturbed' \subseteq Undisturbed
  BY DEF Grow, Undisturbed

\* A step that leaves the rows of repositories alone spares everyone.
LEMMA SparesAll ==
    ASSUME UNCHANGED <<repoObjects, tags>>, NEW p \in Request
    PROVE  Spares(p)
  BY DEF Spares

\* A handler that does not move and is spared still knows and holds what it did.
LEMMA Kept ==
    ASSUME IInv, Grow, NEW p \in Request, requests'[p] = requests[p], Spares(p)
    PROVE  PutKnows(p)' /\ OtherKnows(p)' /\ PutHolds(p)' /\ DeleteHolds(p)'
<1> DEFINE r == requests[p].repo
           m == requests[p].digest
<1>1. PutKnows(p) /\ OtherKnows(p) /\ PutHolds(p) /\ DeleteHolds(p)
  BY DEF IInv, RequestsOK, Holds
<1>2. PutKnows(p)'
  <2>1. Putting(p) => m \in Manifest /\ BlobRefs[m] \subseteq Digest
    BY <1>1, BodiesAssumption DEF PutKnows
  <2> QED
    BY <1>1, <2>1 DEF Grow, PutKnows, Putting, At
<1>3. OtherKnows(p)'
  BY <1>1 DEF OtherKnows, Taken, Deleting, At
<1>4. r \in Undisturbed' => r \in Undisturbed
  BY Disturbed
<1>5. PutHolds(p)'
  BY <1>1, <1>4 DEF PutHolds, Spares, Putting, PutSteps, At
<1>6. DeleteHolds(p)'
  <2> SUFFICES ASSUME r \in Undisturbed' PROVE DeleteHolds(p)'
    BY DEF DeleteHolds
  <2>1. Deleting(p) => repoObjects'[r] = repoObjects[r]
    BY DEF Spares
  <2>2. Deleting(p) => Staying(p)' = Staying(p) /\ Deleted(p)' = Deleted(p)
    BY <2>1 DEF Staying, Deleted
  <2>3. \A x, S : Referenced(x, S) => Referenced(x, S)'
    BY DEF Referenced, Grow
  <2>4. Deleting(p)' => Deleting(p)
    BY DEF Deleting, At
  <2>5. At(p, "delete") \/ At(p, "sweep") \/ At(p, "blobs") \/ At(p, "tenants") \/ At(p, "leave") =>
           {t \in Tag : tags'[r][t] = m} = {t \in Tag : tags[r][t] = m}
    BY DEF Spares
  <2> QED
    BY <1>1, <1>4, <2>1, <2>2, <2>3, <2>4, <2>5 DEF DeleteHolds, Deleting, DeleteSteps, At
<1> QED
  BY <1>2, <1>3, <1>5, <1>6

\* Handlers that stay where they are, all of them.
LEMMA NobodyMoves ==
    ASSUME IInv, Grow, requests' = requests, \A p \in Request : Spares(p)
    PROVE  RequestsOK' /\ Holds'
<1>1. \A p \in Request : PutKnows(p)' /\ OtherKnows(p)' /\ PutHolds(p)' /\ DeleteHolds(p)'
  BY Kept
<1>2. Alone'
  BY DEF IInv, Holds, Alone, Grow, Deleting, Putting, At
<1> QED
  BY <1>1, <1>2 DEF IInv, RequestsOK, Holds, RequestRow

\* One handler acts, and overlaps are known.
LEMMA OneActs ==
    ASSUME IInv, Grow, NEW q \in Request, Others(q), DOMAIN requests' = Request,
           requests'[q] = Idle \/ requests'[q] \in RequestRow,
           \A p \in Request \ {q} : Spares(p), Alone',
           PutKnows(q)', OtherKnows(q)', PutHolds(q)', DeleteHolds(q)'
    PROVE  RequestsOK' /\ Holds'
<1>1. \A p \in Request \ {q} : requests'[p] = requests[p]
  BY DEF Others
<1>2. \A p \in Request : PutKnows(p)' /\ OtherKnows(p)' /\ PutHolds(p)' /\ DeleteHolds(p)'
  BY <1>1, Kept
<1>3. \A p \in Request : requests'[p] = Idle \/ requests'[p] \in RequestRow
  BY <1>1 DEF IInv, RequestsOK
<1> QED
  BY <1>2, <1>3 DEF RequestsOK, Holds, RequestRow

\* One handler moves, within the request that it has.
LEMMA OneMoves ==
    ASSUME IInv, Grow, NEW q \in Request, Others(q), DOMAIN requests' = Request,
           requests'[q] = Idle \/ requests'[q] \in RequestRow,
           \A p \in Request \ {q} : Spares(p),
           Putting(q)' => Putting(q) /\ requests'[q].repo = requests[q].repo,
           Deleting(q)' => Deleting(q) /\ requests'[q].repo = requests[q].repo,
           PutKnows(q)', OtherKnows(q)', PutHolds(q)', DeleteHolds(q)'
    PROVE  RequestsOK' /\ Holds'
<1>1. \A p \in Request \ {q} : /\ Putting(p)' => Putting(p)
                               /\ Deleting(p)' => Deleting(p)
                               /\ requests'[p].repo = requests[p].repo
  BY DEF Others, Putting, Deleting, At
<1>2. Alone'
  BY <1>1 DEF IInv, Holds, Alone, Grow
<1> QED
  BY <1>2, OneActs

\* A handler that has answered.
LEMMA Ends ==
    ASSUME IInv, Grow, NEW q \in Request, Reply(q), \A p \in Request \ {q} : Spares(p)
    PROVE  RequestsOK' /\ Holds'
<1>1. requests'[q] = Idle /\ requests'[q].step = "idle" /\ Others(q) /\ DOMAIN requests' = Request
  BY ReplyAfter DEF IInv
<1>2. PutKnows(q)' /\ OtherKnows(q)' /\ PutHolds(q)' /\ DeleteHolds(q)' /\ ~Putting(q)' /\ ~Deleting(q)'
  BY <1>1 DEF PutKnows, OtherKnows, Taken, PutHolds, DeleteHolds, Putting, Deleting, PutSteps, DeleteSteps, At
<1> QED
  BY <1>1, <1>2, OneMoves

-----------------------------------------------------------------------------
(* Steps of a push *)

\* A handler at a step has a request.
LEMMA HasRequest ==
    ASSUME IInv, NEW q \in Request, NEW step, At(q, step), step # "idle"
    PROVE  requests[q] # Idle /\ requests[q] \in RequestRow
<1>1. requests[q] # Idle
  BY DEF At, Idle
<1> QED
  BY <1>1 DEF IInv, RequestsOK

\* Its columns keep to their domains.
LEMMA HasColumns ==
    ASSUME NEW w \in RequestRow
    PROVE  /\ w.repo \in Repo /\ w.digest \in Digest
           /\ w.todo \in SUBSET Digest /\ w.rows \in SUBSET Digest /\ w.untag \in SUBSET Tag
           /\ w.charge \in BOOLEAN
  BY DEF RequestRow

\* Pushes and deletes are in some repository.
LEMMA InARepo ==
    ASSUME IInv, NEW p \in Request, Putting(p) \/ Deleting(p)
    PROVE  requests[p].repo \in Repo
<1>1. requests[p] # Idle
  BY DEF Putting, Deleting, PutSteps, DeleteSteps, Idle
<1> QED
  BY <1>1 DEF IInv, RequestsOK, RequestRow

\* What holds of q.
LEMMA HoldsOf ==
    ASSUME IInv, NEW q \in Request
    PROVE  PutKnows(q) /\ OtherKnows(q) /\ PutHolds(q) /\ DeleteHolds(q)
  BY DEF IInv, RequestsOK, Holds

\* A handler that goes on with a push.
LEMMA PutGoes ==
    ASSUME IInv, Grow, NEW q \in Request, Putting(q), \A p \in Request \ {q} : Spares(p),
           NEW step \in PutSteps, NEW todo, NEW rows, NEW untag, NEW charge,
           Edited(q, step, todo, rows, untag, charge),
           PutKnows(q)', PutHolds(q)'
    PROVE  RequestsOK' /\ Holds'
<1>1. ~Deleting(q)' /\ requests'[q].step = step
  BY DEF Edited, Deleting, PutSteps, DeleteSteps, At
<1>2. OtherKnows(q)' /\ DeleteHolds(q)'
  BY <1>1 DEF OtherKnows, Taken, DeleteHolds, Deleting, PutSteps, At
<1> QED
  BY <1>1, <1>2, OneMoves DEF Edited

\* A blob that has its row is found; with the last one, children are next.
LEMMA TrackBlobHolds ==
    ASSUME IInv, NEW q \in Request, NEW b \in Blob, TrackBlob(q, b)
    PROVE  Grow /\ RequestsOK' /\ Holds'
<1> DEFINE w == requests[q]
           m == requests[q].digest
<1>1. w # Idle /\ w \in RequestRow /\ At(q, "track") /\ Putting(q)
  BY HasRequest DEF TrackBlob, Putting, PutSteps, At
<1>2. PutKnows(q)
  BY HoldsOf
<1>3. m \in Manifest /\ BlobRefs[m] \subseteq Blob /\ ChildRefs[m] \subseteq Digest
  BY <1>1, <1>2, BodiesAssumption DEF PutKnows
<1>4. /\ \A d \in Digest : objects[d] # "absent" => objects'[d] # "absent"
      /\ objects'[b] # "absent"
  BY DEF TrackBlob, UpsertObjectBlob, IInv, Tables, TypeOK
<1>5. Grow
  BY <1>4 DEF Grow, TrackBlob, UpsertObjectBlob
<1>6. \A p \in Request : Spares(p)
  BY SparesAll DEF TrackBlob, UpsertObjectBlob
<1>7. w.rows = {}
  BY <1>1, <1>2 DEF PutKnows, At
<1>8. CASE w.todo # {b}
  <2>1. Change(q, "track", w.todo \ {b}, w.rows, w.untag, w.charge)
    BY <1>1, <1>8 DEF TrackBlob, Change, At
  <2>2. Edited(q, "track", w.todo \ {b}, w.rows, w.untag, w.charge)
    BY <1>1, <2>1, Edits DEF IInv, RequestRow, PutSteps
  <2>3. PutKnows(q)'
    BY <1>1, <1>2, <1>3, <1>4, <1>7, <2>2 DEF PutKnows, Edited, At
  <2>4. PutHolds(q)'
    BY <2>2 DEF PutHolds, Edited, At
  <2> QED
    BY <1>1, <1>5, <1>6, <2>2, <2>3, <2>4, PutGoes DEF PutSteps
<1>9. CASE w.todo = {b}
  <2>1. Change(q, "children", ChildRefs[m], w.rows, w.untag, w.charge)
    BY <1>1, <1>9 DEF TrackBlob, Change, At
  <2>2. Edited(q, "children", ChildRefs[m], w.rows, w.untag, w.charge)
    BY <1>1, <1>3, <2>1, Edits DEF IInv, RequestRow, PutSteps
  <2>3. PutKnows(q)'
    BY <1>1, <1>2, <1>3, <1>4, <1>7, <1>9, <2>2 DEF PutKnows, Edited, At
  <2>4. PutHolds(q)'
    BY <2>2 DEF PutHolds, Edited, At
  <2> QED
    BY <1>1, <1>5, <1>6, <2>2, <2>3, <2>4, PutGoes DEF PutSteps
<1> QED
  BY <1>8, <1>9

\* A child that is found stays where no delete disturbs it; a missing one ends the push.
LEMMA CheckChildHolds ==
    ASSUME IInv, NEW q \in Request, NEW c \in Digest, CheckChild(q, c)
    PROVE  Grow /\ RequestsOK' /\ Holds'
<1> DEFINE w == requests[q]
           m == requests[q].digest
<1>1. w # Idle /\ w \in RequestRow /\ At(q, "children") /\ Putting(q)
  BY HasRequest DEF CheckChild, Putting, PutSteps, At
<1>2. PutKnows(q) /\ PutHolds(q)
  BY HoldsOf
<1>3. m \in Manifest /\ BlobRefs[m] \subseteq Blob
  BY <1>1, <1>2, BodiesAssumption DEF PutKnows
<1>4. Grow /\ UNCHANGED <<objects, repoObjects, overlaps>>
  BY DEF CheckChild, Grow, vars
<1>5. \A p \in Request : Spares(p)
  BY SparesAll DEF CheckChild, vars
<1>6. CASE ~ChildKnown(w.repo, c)
  BY <1>4, <1>5, <1>6, Ends DEF CheckChild
<1>7. CASE ChildKnown(w.repo, c)
  <2>1. Change(q, "children", w.todo \ {c}, w.rows, w.untag, w.charge)
    BY <1>1, <1>7 DEF CheckChild, Change, At
  <2>2. Edited(q, "children", w.todo \ {c}, w.rows, w.untag, w.charge)
    BY <1>1, <2>1, Edits DEF IInv, RequestRow, PutSteps
  <2>3. PutKnows(q)'
    BY <1>1, <1>2, <1>3, <1>4, <2>2 DEF PutKnows, Putting, PutSteps, Edited, At
  <2>4. PutHolds(q)'
    BY <1>1, <1>2, <1>4, <1>7, <2>2 DEF PutHolds, Undisturbed, ChildKnown, Edited, At
  <2> QED
    BY <1>1, <1>4, <1>5, <2>2, <2>3, <2>4, PutGoes DEF PutSteps
<1> QED
  BY <1>6, <1>7

\* The transaction starts with all children found.
LEMMA BeginUpsertHolds ==
    ASSUME IInv, NEW q \in Request, BeginUpsert(q)
    PROVE  Grow /\ RequestsOK' /\ Holds'
<1> DEFINE w == requests[q]
           m == requests[q].digest
           rows == requests[q].rows \cup ({requests[q].digest} \ repoObjects[requests[q].repo])
<1>1. w # Idle /\ w \in RequestRow /\ At(q, "children") /\ w.todo = {} /\ Putting(q)
  BY HasRequest DEF BeginUpsert, Checked, Putting, PutSteps, At
<1>2. PutKnows(q) /\ PutHolds(q)
  BY HoldsOf
<1>3. m \in Manifest /\ BlobRefs[m] \subseteq Blob
  BY <1>1, <1>2, BodiesAssumption DEF PutKnows
<1>4. Grow /\ UNCHANGED <<objects, repoObjects, overlaps>>
  BY DEF BeginUpsert, InsertRow, Grow, vars
<1>5. \A p \in Request : Spares(p)
  BY SparesAll DEF BeginUpsert, InsertRow, vars
<1>6. Change(q, "insert", BlobRefs[m], rows, w.untag, w.charge)
  BY <1>1 DEF BeginUpsert, InsertRow, Change
<1>7. Edited(q, "insert", BlobRefs[m], rows, w.untag, w.charge)
  BY <1>1, <1>3, <1>6, Edits DEF IInv, RequestRow, PutSteps
<1>8. w.rows = {}
  BY <1>1, <1>2 DEF PutKnows, At
<1>9. PutKnows(q)'
  BY <1>1, <1>2, <1>3, <1>4, <1>7, <1>8 DEF PutKnows, Putting, PutSteps, Edited, At
<1>10. PutHolds(q)'
  BY <1>1, <1>2, <1>4, <1>7 DEF PutHolds, Undisturbed, Edited, At
<1> QED
  BY <1>1, <1>4, <1>5, <1>7, <1>9, <1>10, PutGoes DEF PutSteps

\* Each blob is in the repository or among the rows of the transaction.
LEMMA InsertBlobHolds ==
    ASSUME IInv, NEW q \in Request, NEW b \in Blob, InsertBlob(q, b)
    PROVE  Grow /\ RequestsOK' /\ Holds'
<1> DEFINE w == requests[q]
           m == requests[q].digest
           rows == requests[q].rows \cup ({b} \ repoObjects[requests[q].repo])
<1>1. w # Idle /\ w \in RequestRow /\ At(q, "insert") /\ b \in w.todo /\ Putting(q)
  BY HasRequest DEF InsertBlob, Putting, PutSteps, At
<1>2. PutKnows(q) /\ PutHolds(q)
  BY HoldsOf
<1>3. m \in Manifest /\ BlobRefs[m] \subseteq Blob
  BY <1>1, <1>2, BodiesAssumption DEF PutKnows
<1>4. Grow /\ UNCHANGED <<objects, repoObjects, overlaps>>
  BY DEF InsertBlob, InsertRow, Grow, vars
<1>5. \A p \in Request : Spares(p)
  BY SparesAll DEF InsertBlob, InsertRow, vars
<1>6. Change(q, "insert", w.todo \ {b}, rows, w.untag, w.charge)
  BY <1>1 DEF InsertBlob, InsertRow, Change
<1>7. Edited(q, "insert", w.todo \ {b}, rows, w.untag, w.charge)
  BY <1>1, <1>3, <1>6, Edits DEF IInv, RequestRow, PutSteps
<1>8. PutKnows(q)'
  BY <1>1, <1>2, <1>3, <1>4, <1>7 DEF PutKnows, Putting, PutSteps, Edited, At
<1>9. PutHolds(q)'
  BY <1>1, <1>2, <1>4, <1>7 DEF PutHolds, Undisturbed, Edited, At
<1> QED
  BY <1>1, <1>4, <1>5, <1>7, <1>8, <1>9, PutGoes DEF PutSteps

\* A push into a registry that is gone ends.
LEMMA RegistryGoneHolds ==
    ASSUME IInv, NEW q \in Request, RegistryGone(q)
    PROVE  Grow /\ RequestsOK' /\ Holds'
<1>1. Grow /\ \A p \in Request : Spares(p)
  BY SparesAll DEF RegistryGone, Grow, vars
<1> QED
  BY <1>1, Ends DEF RegistryGone

\* What the commit of a push changes.
LEMMA CommitUpsertEffect ==
    ASSUME IInv, NEW q \in Request, CommitUpsert(q)
    PROVE  LET r == requests[q].repo
               m == requests[q].digest
           IN  /\ r \in Repo /\ m \in Manifest /\ requests[q].rows \subseteq Digest
               /\ requests[q].rows \subseteq {m} \cup BlobRefs[m]
               /\ \A b \in BlobRefs[m] : objects[b] # "absent"
               /\ BlobRefs[m] \subseteq Blob /\ ChildRefs[m] \subseteq Digest
               /\ repoObjects' = [repoObjects EXCEPT ![r] = @ \cup requests[q].rows]
               /\ bodies' = bodies \cup {m}
               /\ graph' = graph \cup Edges(m) \cup SubjectEdges(m)
               /\ subjects' = subjects \cup SubjectEdges(m)
               /\ objects'[m] = IF objects[m] = "absent" THEN ObjectType(m) ELSE objects[m]
               /\ ObjectType(m) \in ManifestTypes
               /\ \A d \in Digest \ {m} : objects'[d] = objects[d]
               /\ r \in Undisturbed => ChildRefs[m] \subseteq repoObjects[r]
               /\ r \in Undisturbed =>
                     {m} \cup BlobRefs[m] \subseteq repoObjects[r] \cup requests[q].rows
               /\ UNCHANGED <<overlaps, registries>>
<1>1. requests[q] \in RequestRow /\ At(q, "insert") /\ requests[q].todo = {} /\ Putting(q)
  BY HasRequest DEF CommitUpsert, Putting, PutSteps, At
<1>2. PutKnows(q) /\ PutHolds(q)
  BY HoldsOf
<1>3. requests[q].digest \in Manifest
  BY <1>1, <1>2 DEF PutKnows
<1>4. objects \in [Digest -> ObjectTypes \cup {"absent"}]
  BY DEF IInv, Tables, TypeOK
<1>5. /\ requests[q].rows \subseteq {requests[q].digest} \cup BlobRefs[requests[q].digest]
      /\ \A b \in BlobRefs[requests[q].digest] : objects[b] # "absent"
  BY <1>1, <1>2 DEF PutKnows, At
<1>6. requests[q].repo \in Undisturbed =>
         /\ ChildRefs[requests[q].digest] \subseteq repoObjects[requests[q].repo]
         /\ {requests[q].digest} \cup BlobRefs[requests[q].digest]
               \subseteq repoObjects[requests[q].repo] \cup requests[q].rows
  BY <1>1, <1>2 DEF PutHolds
<1> QED
  BY <1>1, <1>3, <1>4, <1>5, <1>6, BodiesAssumption DEF CommitUpsert, RequestRow, ObjectType

\* Where two handlers of which one deletes are in one repository, it is disturbed.
LEMMA NotAlone ==
    ASSUME IInv, Grow, NEW p \in Request, NEW q \in Request, p # q, Deleting(q) \/ Deleting(p),
           Putting(p) \/ Deleting(p), Putting(q) \/ Deleting(q),
           requests[p].repo = requests[q].repo
    PROVE  requests[p].repo \notin Undisturbed'
<1>1. {requests[p].repo} \in overlaps
  BY DEF IInv, Holds, Alone
<1> QED
  BY <1>1 DEF Grow, Undisturbed

\* A commit disturbs no delete that holds anything: they overlap.
LEMMA CommitUpsertHolds ==
    ASSUME IInv, NEW q \in Request, CommitUpsert(q)
    PROVE  Grow /\ RequestsOK' /\ Holds'
<1> DEFINE r == requests[q].repo
           m == requests[q].digest
<1>1. Grow
  <2>1. \A d \in Digest : objects[d] # "absent" => objects'[d] # "absent"
    <3>1. ObjectType(m) # "absent"
      BY DEF ObjectType
    <3> QED
      BY <3>1, CommitUpsertEffect
  <2> QED
    BY <2>1, CommitUpsertEffect DEF Grow
<1>2. ASSUME NEW p \in Request \ {q} PROVE Spares(p)
  <2>1. PICK x : x = requests[p].repo
    OBVIOUS
  <2>2. repoObjects \in [Repo -> SUBSET Digest] /\ tags \in [Repo -> [Tag -> Manifest \cup {NoDigest}]]
    BY DEF IInv, Tables, TypeOK
  <2>3. CASE ~(Putting(p) \/ Deleting(p))
    BY <2>3 DEF Spares, Deleting, DeleteSteps, At
  <2>4. CASE Putting(p)
    <3>1. x \in Repo /\ ~Deleting(p)
      BY <2>1, <2>4, InARepo DEF Putting, Deleting, PutSteps, DeleteSteps
    <3>2. repoObjects[x] \subseteq repoObjects'[x]
      BY <2>2, <3>1, CommitUpsertEffect
    <3>3. ~(At(p, "delete") \/ At(p, "sweep") \/ At(p, "blobs") \/ At(p, "tenants") \/ At(p, "leave"))
      BY <3>1 DEF Deleting, DeleteSteps, At
    <3> QED
      BY <2>1, <3>1, <3>2, <3>3 DEF Spares
  <2>5. CASE Deleting(p)
    <3>1. x \in Repo /\ ~Putting(p)
      BY <2>1, <2>5, InARepo DEF Putting, Deleting, PutSteps, DeleteSteps
    <3>2. Putting(q)
      BY DEF CommitUpsert, Putting, PutSteps, At
    <3>3. x \in Undisturbed' => x # r
      BY <1>1, <2>1, <2>5, <3>2, NotAlone
    <3>4. x # r => repoObjects'[x] = repoObjects[x] /\ tags'[x] = tags[x]
      BY <2>2, <3>1 DEF CommitUpsert
    <3> QED
      BY <2>1, <3>1, <3>3, <3>4 DEF Spares
  <2> QED
    BY <2>3, <2>4, <2>5
<1>3. Reply(q)
  BY DEF CommitUpsert
<1> QED
  BY <1>1, <1>2, <1>3, Ends

-----------------------------------------------------------------------------
(* Steps of a delete *)

\* A handler that goes on with a delete.
LEMMA DeleteGoes ==
    ASSUME IInv, Grow, NEW q \in Request, Deleting(q), \A p \in Request \ {q} : Spares(p),
           NEW step \in DeleteSteps, NEW todo, NEW rows, NEW untag, NEW charge,
           Edited(q, step, todo, rows, untag, charge),
           step \in {"tenants", "leave"} => todo \subseteq Blob,
           Taken(step, requests[q].digest, rows, untag), DeleteHolds(q)'
    PROVE  RequestsOK' /\ Holds'
<1>1. ~Putting(q)' /\ requests'[q].step = step
  BY DEF Edited, Putting, PutSteps, DeleteSteps, At
<1>2. PutKnows(q)' /\ PutHolds(q)'
  BY <1>1 DEF PutKnows, PutHolds, Putting, PutSteps, At
<1>3. requests[q].digest \in Manifest
  BY HoldsOf DEF OtherKnows
<1>4. OtherKnows(q)'
  BY <1>1, <1>3 DEF OtherKnows, DeleteSteps, Edited, At
<1> QED
  BY <1>1, <1>2, <1>4, OneMoves DEF Edited

\* What a manifest of a repository pins has a row of the graph that no subject made.
LEMMA PinsAreRows ==
    ASSUME IInv, NEW r \in Repo, NEW p \in repoObjects[r] \cap Manifest, NEW c \in Pins(p)
    PROVE  c \in Digest /\ <<p, c>> \in graph \ subjects
<1>1. p \in bodies /\ c \in Digest
  BY BodiesAssumption DEF IInv, Tables, IndexConsistent, Pins, Refs
<1> QED
  BY <1>1 DEF IInv, Tables, IndexConsistent, Pins, Edges

\* The guard: no manifest of the repository pins the digest.
LEMMA GuardDeleteHolds ==
    ASSUME IInv, NEW q \in Request, GuardDelete(q)
    PROVE  Grow /\ RequestsOK' /\ Holds'
<1> DEFINE w == requests[q]
           r == requests[q].repo
           d == requests[q].digest
<1>1. w # Idle /\ w \in RequestRow /\ At(q, "guard") /\ Deleting(q)
  BY HasRequest DEF GuardDelete, Deleting, DeleteSteps, At
<1>2. DeleteHolds(q)
  BY HoldsOf
<1>3. Grow /\ UNCHANGED <<repoObjects, tags, overlaps>>
  BY DEF GuardDelete, Grow, vars
<1>4. \A p \in Request : Spares(p)
  BY SparesAll DEF GuardDelete, vars
<1>5. CASE ~(r \in repositories /\ ~HasParent(r, d))
  BY <1>3, <1>4, <1>5, Ends DEF GuardDelete
<1>6. CASE r \in repositories /\ ~HasParent(r, d)
  <2>1. Change(q, "present", w.todo, w.rows, w.untag, w.charge)
    BY <1>6 DEF GuardDelete, Goto, Change
  <2>2. Edited(q, "present", w.todo, w.rows, w.untag, w.charge)
    BY <1>1, <2>1, HasColumns, Edits DEF IInv, DeleteSteps
  <2>3. DeleteHolds(q)'
    <3> SUFFICES ASSUME r \in Undisturbed PROVE DeleteHolds(q)'
      BY <1>3, <2>2 DEF DeleteHolds, Undisturbed, Edited
    <3>1. w.rows = {} /\ r \in Repo
      BY <1>1, HoldsOf DEF OtherKnows, Taken, RequestRow, At
    <3>2. Deleted(q)' = {d} /\ Staying(q)' = repoObjects[r]
      BY <1>3, <2>2, <3>1 DEF Deleted, Staying, Edited
    <3>3. ASSUME NEW p \in repoObjects[r] \cap Manifest PROVE d \notin Pins(p)
      BY <1>6, <3>1, PinsAreRows DEF HasParent
    <3> QED
      BY <1>3, <2>2, <3>1, <3>2, <3>3 DEF DeleteHolds, Edited, At
  <2>4. Taken("present", d, w.rows, w.untag)
    BY <1>1, HoldsOf DEF OtherKnows, Taken, At
  <2> QED
    BY <1>1, <1>3, <1>4, <2>2, <2>3, <2>4, DeleteGoes DEF DeleteSteps
<1> QED
  BY <1>5, <1>6

\* The digest is there.
LEMMA CheckPresentHolds ==
    ASSUME IInv, NEW q \in Request, CheckPresent(q)
    PROVE  Grow /\ RequestsOK' /\ Holds'
<1> DEFINE w == requests[q]
           r == requests[q].repo
           d == requests[q].digest
<1>1. w # Idle /\ w \in RequestRow /\ At(q, "present") /\ Deleting(q)
  BY HasRequest DEF CheckPresent, Deleting, DeleteSteps, At
<1>2. DeleteHolds(q)
  BY HoldsOf
<1>3. Grow /\ UNCHANGED <<repoObjects, tags, overlaps>>
  BY DEF CheckPresent, Grow, vars
<1>4. \A p \in Request : Spares(p)
  BY SparesAll DEF CheckPresent, vars
<1>5. CASE d \notin repoObjects[r]
  BY <1>3, <1>4, <1>5, Ends DEF CheckPresent
<1>6. CASE d \in repoObjects[r]
  <2>1. Change(q, "untag", w.todo, w.rows, w.untag, w.charge)
    BY <1>6 DEF CheckPresent, Goto, Change
  <2>2. Edited(q, "untag", w.todo, w.rows, w.untag, w.charge)
    BY <1>1, <2>1, HasColumns, Edits DEF IInv, DeleteSteps
  <2>3. Deleted(q)' = Deleted(q) /\ Staying(q)' = Staying(q)
    BY <1>3, <2>2 DEF Deleted, Staying, Edited
  <2>4. DeleteHolds(q)'
    BY <1>1, <1>2, <1>3, <1>6, <2>2, <2>3
       DEF DeleteHolds, Deleting, DeleteSteps, Undisturbed, Edited, At
  <2>5. Taken("untag", d, w.rows, w.untag)
    BY <1>1, HoldsOf DEF OtherKnows, Taken, At
  <2> QED
    BY <1>1, <1>3, <1>4, <2>2, <2>4, <2>5, DeleteGoes DEF DeleteSteps
<1> QED
  BY <1>5, <1>6

\* All tags of the digest, and no others, are going.
LEMMA DeleteTagsHolds ==
    ASSUME IInv, NEW q \in Request, DeleteTags(q)
    PROVE  Grow /\ RequestsOK' /\ Holds'
<1> DEFINE w == requests[q]
           r == requests[q].repo
           U == {t \in Tag : tags[r][t] = requests[q].digest}
<1>1. w # Idle /\ w \in RequestRow /\ At(q, "untag") /\ Deleting(q)
  BY HasRequest DEF DeleteTags, Deleting, DeleteSteps, At
<1>2. DeleteHolds(q)
  BY HoldsOf
<1>3. Grow /\ UNCHANGED <<repoObjects, tags, overlaps>>
  BY DEF DeleteTags, Grow, vars
<1>4. \A p \in Request : Spares(p)
  BY SparesAll DEF DeleteTags, vars
<1>5. Change(q, "delete", w.todo, w.rows, U, w.charge)
  BY DEF DeleteTags, Change
<1>6. Edited(q, "delete", w.todo, w.rows, U, w.charge)
  BY <1>1, <1>5, HasColumns, Edits DEF IInv, DeleteSteps
<1>7. Deleted(q)' = Deleted(q) /\ Staying(q)' = Staying(q)
  BY <1>3, <1>6 DEF Deleted, Staying, Edited
<1>8. DeleteHolds(q)'
  BY <1>1, <1>2, <1>3, <1>6, <1>7
     DEF DeleteHolds, Deleting, DeleteSteps, Undisturbed, Edited, At
<1>9. Taken("delete", w.digest, w.rows, U)
  BY <1>1, HoldsOf DEF OtherKnows, Taken, At
<1> QED
  BY <1>1, <1>3, <1>4, <1>6, <1>8, <1>9, DeleteGoes DEF DeleteSteps

\* The row of the digest is going.
LEMMA DeleteRowHolds ==
    ASSUME IInv, NEW q \in Request, DeleteRow(q)
    PROVE  Grow /\ RequestsOK' /\ Holds'
<1> DEFINE w == requests[q]
           r == requests[q].repo
           d == requests[q].digest
           rows == {requests[q].digest} \cap repoObjects[requests[q].repo]
<1>1. w # Idle /\ w \in RequestRow /\ At(q, "delete") /\ Deleting(q)
  BY HasRequest DEF DeleteRow, Deleting, DeleteSteps, At
<1>2. DeleteHolds(q)
  BY HoldsOf
<1>3. Grow /\ UNCHANGED <<repoObjects, tags, overlaps>>
  BY DEF DeleteRow, Grow, vars
<1>4. \A p \in Request : Spares(p)
  BY SparesAll DEF DeleteRow, vars
<1>5. Change(q, "sweep", w.todo, rows, w.untag, w.charge)
  BY DEF DeleteRow, Change
<1>6. Edited(q, "sweep", w.todo, rows, w.untag, w.charge)
  BY <1>1, <1>5, HasColumns, Edits DEF IInv, DeleteSteps
<1>7. DeleteHolds(q)'
  <2> SUFFICES ASSUME r \in Undisturbed PROVE DeleteHolds(q)'
    BY <1>3, <1>6 DEF DeleteHolds, Undisturbed, Edited
  <2>1. w.rows = {} /\ d \in repoObjects[r] /\ rows = {d}
    <3>1. w.rows = {}
      BY <1>1, HoldsOf DEF OtherKnows, Taken, At
    <3>2. d \in repoObjects[r]
      BY <1>1, <1>2 DEF DeleteHolds
    <3> QED
      BY <3>1, <3>2
  <2>2. Deleted(q)' = Deleted(q) /\ Staying(q)' \subseteq Staying(q)
    BY <1>3, <1>6, <2>1 DEF Deleted, Staying, Edited
  <2> QED
    BY <1>1, <1>2, <1>3, <1>6, <2>1, <2>2
       DEF DeleteHolds, Deleting, DeleteSteps, Edited, At
<1>8. Taken("sweep", d, rows, w.untag)
  BY DEF Taken
<1> QED
  BY <1>1, <1>3, <1>4, <1>6, <1>7, <1>8, DeleteGoes DEF DeleteSteps

\* A sweep marks rows of its own repository.
LEMMA SweepAfter ==
    ASSUME IInv, NEW q \in Request, NEW step \in DeleteSteps, NEW swept \in SUBSET Digest,
           NEW next \in DeleteSteps, Sweep(q, step, swept, next)
    PROVE  /\ Grow /\ UNCHANGED <<repoObjects, tags, overlaps>>
           /\ \A p \in Request : Spares(p)
           /\ requests[q] \in RequestRow /\ At(q, step) /\ Deleting(q)
           /\ Edited(q, next, swept, requests[q].rows \cup swept, requests[q].untag, requests[q].charge)
<1> DEFINE w == requests[q]
<1>1. w # Idle /\ w \in RequestRow /\ At(q, step) /\ Deleting(q)
  BY HasRequest DEF Sweep, Deleting, DeleteSteps, At
<1>2. Grow /\ UNCHANGED <<repoObjects, tags, overlaps>>
  BY DEF Sweep, Grow, vars
<1>3. \A p \in Request : Spares(p)
  BY SparesAll DEF Sweep, vars
<1>4. Change(q, next, swept, w.rows \cup swept, w.untag, w.charge)
  BY DEF Sweep, Change
<1>5. Edited(q, next, swept, w.rows \cup swept, w.untag, w.charge)
  BY <1>1, <1>4, HasColumns, Edits DEF IInv
<1> QED
  BY <1>1, <1>2, <1>3, <1>5

\* What a graph row of a digest in S leads to, S names.
LEMMA RowsName ==
    ASSUME IInv, NEW S \in SUBSET Digest, NEW c \in Digest, \E p \in S : <<p, c>> \in graph
    PROVE  c \in Catalog!Named(S)
<1>1. PICK p \in S : <<p, c>> \in graph
  OBVIOUS
<1>2. p \in Manifest /\ c \in BlobRefs[p] \cup ChildRefs[p] \cup {Subject[p]}
  BY <1>1 DEF IInv, Tables, TypeOK, IndexConsistent, Refs
<1> QED
  BY <1>1, <1>2 DEF Catalog!Named

\* Children that go are manifests.
LEMMA ChildrenAreManifests ==
    ASSUME IInv, NEW q \in Request, At(q, "sweep")
    PROVE  ChildrenToSweep(q) \in SUBSET Manifest /\ ChildrenToSweep(q) \in SUBSET Digest
<1>1. requests[q].repo \in Repo /\ repoObjects[requests[q].repo] \subseteq Digest
  BY HasRequest, HasColumns DEF IInv, Tables, TypeOK
<1>2. \A b \in Blob : objects[b] \notin ManifestTypes
  BY DEF IInv, Tables, IndexConsistent
<1> QED
  BY <1>1, <1>2 DEF ChildrenToSweep, OrphanChildManifests

\* The children that go are pinned by nothing that stays.
LEMMA SweepChildrenHolds ==
    ASSUME IInv, NEW q \in Request, SweepChildren(q)
    PROVE  Grow /\ RequestsOK' /\ Holds'
<1> DEFINE w == requests[q]
           r == requests[q].repo
           d == requests[q].digest
           C == ChildrenToSweep(q)
<1>1. w \in RequestRow /\ At(q, "sweep")
  BY HasRequest DEF SweepChildren, Sweep
<1>2. r \in Repo /\ repoObjects[r] \subseteq Digest /\ d \in Digest
  BY <1>1, HasColumns DEF IInv, Tables, TypeOK
<1>3. C \in SUBSET Manifest /\ C \in SUBSET Digest
  BY <1>1, ChildrenAreManifests
<1>4. Sweep(q, "sweep", C, "blobs")
  BY DEF SweepChildren
<1>5. /\ Grow /\ UNCHANGED <<repoObjects, tags, overlaps>>
      /\ \A p \in Request : Spares(p)
      /\ Deleting(q)
      /\ Edited(q, "blobs", C, w.rows \cup C, w.untag, w.charge)
  BY <1>3, <1>4, SweepAfter DEF DeleteSteps
<1>6. DeleteHolds(q)
  BY HoldsOf
<1>7. DeleteHolds(q)'
  <2> SUFFICES ASSUME r \in Undisturbed PROVE DeleteHolds(q)'
    BY <1>5 DEF DeleteHolds, Undisturbed, Edited
  <2>1. /\ d \in w.rows /\ w.rows \subseteq repoObjects[r]
        /\ \A x \in w.rows \ {d} : Referenced(x, Digest)
        /\ w.untag = {t \in Tag : tags[r][t] = d}
        /\ \A p \in Staying(q) \cap Manifest : Pins(p) \cap Deleted(q) = {}
    BY <1>1, <1>5, <1>6 DEF DeleteHolds, At
  <2>2. C = OrphanChildManifests(r, d)
    BY <2>1 DEF ChildrenToSweep
  <2>3. C \subseteq repoObjects[r] /\ \A x \in C : Referenced(x, Digest)
    BY <1>2, <2>2 DEF OrphanChildManifests, Referenced
  <2>4. Deleted(q)' = Deleted(q) \cup C /\ Staying(q)' = Staying(q) \ C
    BY <1>5 DEF Deleted, Staying, Edited
  <2>5. ASSUME NEW p \in (Staying(q) \ C) \cap Manifest, NEW c \in Pins(p) PROVE c \notin C
    <3>1. p \in repoObjects[r] \ {d} /\ <<p, c>> \in graph
      BY <1>2, <2>1, PinsAreRows DEF Staying
    <3> QED
      BY <2>2, <3>1 DEF OrphanChildManifests, Referenced
  <2>6. \A p \in Staying(q)' \cap Manifest : Pins(p) \cap Deleted(q)' = {}
    BY <2>1, <2>4, <2>5
  <2>7. \A x \in (w.rows \cup C) \ {d} : Referenced(x, Digest)'
    BY <2>1, <2>3, <1>5 DEF Referenced, Grow
  <2> QED
    BY <1>5, <2>1, <2>3, <2>6, <2>7 DEF DeleteHolds, Edited, At
<1>8. Taken("blobs", d, w.rows \cup C, w.untag)
  <2>1. d \in Manifest /\ w.rows \subseteq {d}
    BY <1>1, <1>5, HoldsOf DEF OtherKnows, Taken, At
  <2>2. \A c \in C : <<d, c>> \in graph
    BY DEF ChildrenToSweep, OrphanChildManifests
  <2>3. C \subseteq Catalog!Named({d})
    BY <1>3, <2>1, <2>2, RowsName
  <2>4. w.rows \cup C \subseteq {d} \cup Catalog!Named({d}) /\ w.rows \cup C \subseteq Manifest
    BY <1>3, <2>1, <2>3
  <2> QED
    BY <2>4 DEF Taken
<1> QED
  BY <1>5, <1>7, <1>8, DeleteGoes DEF DeleteSteps

\* Nor are the blobs; and those that stay have a manifest that stays.
LEMMA SweepBlobsHolds ==
    ASSUME IInv, NEW q \in Request, SweepBlobs(q)
    PROVE  Grow /\ RequestsOK' /\ Holds'
<1> DEFINE w == requests[q]
           r == requests[q].repo
           d == requests[q].digest
           K == repoObjects[r] \ w.rows
           B == BlobsToSweep(q)
           next == IF B = {} THEN "leave" ELSE "tenants"
<1>1. w \in RequestRow /\ At(q, "blobs")
  BY HasRequest DEF SweepBlobs, Sweep
<1>2. r \in Repo /\ repoObjects[r] \subseteq Digest /\ d \in Digest /\ w.rows \subseteq Digest
  BY <1>1, HasColumns DEF IInv, Tables, TypeOK
<1>3. B \subseteq Blob /\ B = OrphanBlobs({d} \cup w.rows, K) /\ B \subseteq K
  BY <1>2 DEF BlobsToSweep, OrphanBlobs, IInv, Tables, IndexConsistent
<1>4. Sweep(q, "blobs", B, next)
  BY DEF SweepBlobs
<1>5. next \in {"leave", "tenants"} /\ next \in DeleteSteps
  BY DEF DeleteSteps
<1> HIDE DEF next
<1>6. /\ Grow /\ UNCHANGED <<repoObjects, tags, overlaps>>
      /\ \A p \in Request : Spares(p)
      /\ Deleting(q)
      /\ Edited(q, next, B, w.rows \cup B, w.untag, w.charge)
  BY <1>3, <1>4, <1>5, SweepAfter DEF DeleteSteps
<1>7. DeleteHolds(q)
  BY HoldsOf
<1>8. DeleteHolds(q)'
  <2> SUFFICES ASSUME r \in Undisturbed PROVE DeleteHolds(q)'
    BY <1>6 DEF DeleteHolds, Undisturbed, Edited
  <2>1. /\ d \in w.rows /\ w.rows \subseteq repoObjects[r]
        /\ \A x \in w.rows \ {d} : Referenced(x, Digest)
        /\ w.untag = {t \in Tag : tags[r][t] = d}
        /\ \A p \in Staying(q) \cap Manifest : Pins(p) \cap Deleted(q) = {}
    BY <1>1, <1>6, <1>7 DEF DeleteHolds, At
  <2>2. B \subseteq repoObjects[r] /\ \A x \in B : Referenced(x, Digest)
    BY <1>2, <1>3 DEF OrphanBlobs, Referenced
  <2>3. Deleted(q)' = Deleted(q) \cup B /\ Staying(q)' = K \ B /\ Staying(q) = K
    BY <1>6 DEF Deleted, Staying, Edited
  <2>4. ASSUME NEW p \in (K \ B) \cap Manifest, NEW c \in Pins(p) PROVE c \notin B
    <3>1. <<p, c>> \in graph
      BY <1>2, PinsAreRows
    <3> QED
      BY <1>3, <3>1 DEF OrphanBlobs, Referenced
  <2>5. \A p \in Staying(q)' \cap Manifest : Pins(p) \cap Deleted(q)' = {}
    BY <2>1, <2>3, <2>4
  <2>6. \A x \in (w.rows \cup B) \ {d} : Referenced(x, Digest)'
    BY <2>1, <2>2, <1>6 DEF Referenced, Grow
  <2>7. ASSUME NEW b \in (K \ B) \cap Blob
        PROVE  \E p \in (K \ B) \cap Manifest : <<p, b>> \in graph
    <3>1. b \in repoObjects[r] /\ objects[b] = "blob"
      BY <1>2 DEF IInv, Tables, IndexConsistent
    <3>2. PICK p \in repoObjects[r] \cap Manifest : <<p, b>> \in graph
      BY <1>2, <3>1 DEF IInv, TidyUnlessDisturbed, Referenced
    <3>3. \A x \in K : <<x, b>> \in graph => x \in Manifest
      BY <1>2 DEF IInv, Tables, TypeOK, IndexConsistent
    <3>4. CASE p \in K
      BY <1>3, <3>2, <3>4, KindsAssumption
    <3>5. CASE p \in w.rows
      <4>1. Referenced(b, {d} \cup w.rows)
        BY <3>2, <3>5 DEF Referenced
      <4>2. Referenced(b, K)
        BY <1>3, <3>1, <4>1 DEF OrphanBlobs
      <4> QED
        BY <1>3, <3>3, <4>2, KindsAssumption DEF Referenced
    <3> QED
      BY <3>2, <3>4, <3>5
  <2>8. \A b \in Staying(q)' \cap Blob : Referenced(b, Staying(q) \cap Manifest)'
    BY <1>6, <2>3, <2>7 DEF Referenced, Grow
  <2> QED
    BY <1>5, <1>6, <2>1, <2>2, <2>5, <2>6, <2>8 DEF DeleteHolds, Edited, At
<1>9. Taken(next, d, w.rows \cup B, w.untag)
  <2>1. Taken("blobs", d, w.rows, w.untag)
    BY <1>1, HoldsOf DEF OtherKnows, At
  <2>2. w.rows \subseteq Manifest /\ w.rows \subseteq {d} \cup Catalog!Named({d}) /\ d \in Manifest
    BY <1>6, <2>1, HoldsOf DEF Taken, OtherKnows
  <2>3. (w.rows \cup B) \cap Manifest = w.rows /\ (w.rows \cup B) \cap Blob = B
    BY <1>3, <2>2, KindsAssumption
  <2>4. \A b \in B : \E p \in {d} \cup w.rows : <<p, b>> \in graph
    BY <1>3 DEF OrphanBlobs, Referenced
  <2>5. B \subseteq Catalog!Named({d} \cup w.rows)
    BY <1>2, <1>3, <2>4, RowsName
  <2> QED
    BY <1>5, <2>2, <2>3, <2>5 DEF Taken
<1> QED
  BY <1>3, <1>5, <1>6, <1>8, <1>9, DeleteGoes

\* What to credit is among what went.
LEMMA FindTenantOrphansHolds ==
    ASSUME IInv, NEW q \in Request, FindTenantOrphans(q)
    PROVE  Grow /\ RequestsOK' /\ Holds'
<1> DEFINE w == requests[q]
           O == OrphanedAtTenant(TenantOfRepo(w.repo), w.repo, w.todo)
<1>1. w # Idle /\ w \in RequestRow /\ At(q, "tenants") /\ Deleting(q)
  BY HasRequest DEF FindTenantOrphans, Deleting, DeleteSteps, At
<1>2. DeleteHolds(q) /\ OtherKnows(q)
  BY HoldsOf
<1>3. Grow /\ UNCHANGED <<repoObjects, tags, overlaps>>
  BY DEF FindTenantOrphans, Grow, vars
<1>4. \A p \in Request : Spares(p)
  BY SparesAll DEF FindTenantOrphans, vars
<1>5. O \subseteq Blob
  BY <1>1, <1>2 DEF OrphanedAtTenant, OtherKnows
<1>6. Change(q, "leave", O, w.rows, w.untag, w.charge)
  BY DEF FindTenantOrphans, Change
<1> HIDE DEF O
<1>7. Edited(q, "leave", O, w.rows, w.untag, w.charge)
  BY <1>1, <1>5, <1>6, HasColumns, Edits DEF IInv, DeleteSteps
<1>8. Deleted(q)' = Deleted(q) /\ Staying(q)' = Staying(q)
  BY <1>3, <1>7 DEF Deleted, Staying, Edited
<1>9. \A x, S : Referenced(x, S) => Referenced(x, S)'
  BY <1>3 DEF Referenced, Grow
<1>10. DeleteHolds(q)'
  BY <1>1, <1>2, <1>3, <1>7, <1>8, <1>9
     DEF DeleteHolds, Deleting, DeleteSteps, Undisturbed, Edited, At
<1>11. Taken("leave", w.digest, w.rows, w.untag)
  BY <1>1, <1>2 DEF OtherKnows, Taken, At
<1> QED
  BY <1>1, <1>3, <1>4, <1>5, <1>7, <1>10, <1>11, DeleteGoes DEF DeleteSteps

\* A handler that has nothing open any more.
LEMMA Leaves ==
    ASSUME IInv, Grow, NEW q \in Request, \A p \in Request \ {q} : Spares(p),
           NEW step \in {"credit", "owner", "store"}, NEW todo, NEW rows, NEW untag, NEW charge,
           Edited(q, step, todo, rows, untag, charge), OtherKnows(q)'
    PROVE  RequestsOK' /\ Holds'
<1>1. ~Putting(q)' /\ ~Deleting(q)' /\ requests'[q].step = step
  BY DEF Edited, Putting, Deleting, PutSteps, DeleteSteps, At
<1>2. PutKnows(q)' /\ PutHolds(q)' /\ DeleteHolds(q)'
  BY <1>1 DEF PutKnows, PutHolds, DeleteHolds, Putting, Deleting, PutSteps, At
<1> QED
  BY <1>1, <1>2, OneMoves DEF Edited

\* A commit takes from nobody but those that overlap.
LEMMA CommitDeleteHolds ==
    ASSUME IInv, NEW q \in Request, CommitDelete(q)
    PROVE  Grow /\ RequestsOK' /\ Holds'
<1> DEFINE w == requests[q]
           r == requests[q].repo
<1>1. w # Idle /\ w \in RequestRow /\ At(q, "leave") /\ Deleting(q)
  BY HasRequest DEF CommitDelete, Deleting, DeleteSteps, At
<1>2. Grow
  BY DEF CommitDelete, Grow
<1>3. ASSUME NEW p \in Request \ {q} PROVE Spares(p)
  <2>1. (Putting(p) \/ Deleting(p)) /\ requests[p].repo \in Undisturbed' => requests[p].repo # r
    BY <1>1, <1>2, NotAlone
  <2>2. repoObjects \in [Repo -> SUBSET Digest] /\ tags \in [Repo -> [Tag -> Manifest \cup {NoDigest}]]
    BY DEF IInv, Tables, TypeOK
  <2>3. \A x \in Repo : x # r => repoObjects'[x] = repoObjects[x] /\ tags'[x] = tags[x]
    BY <2>2 DEF CommitDelete
  <2>4. Putting(p) \/ Deleting(p) => requests[p].repo \in Repo
    BY InARepo
  <2> QED
    BY <2>1, <2>3, <2>4 DEF Spares, Deleting, DeleteSteps, At
<1>4. CASE w.todo = {}
  BY <1>2, <1>3, <1>4, Ends DEF CommitDelete
<1>5. CASE w.todo # {}
  <2>1. Change(q, "credit", w.todo, w.rows, w.untag, w.charge)
    BY <1>5 DEF CommitDelete, Goto, Change
  <2>2. Edited(q, "credit", w.todo, w.rows, w.untag, w.charge)
    BY <1>1, <2>1, HasColumns, Edits DEF IInv
  <2>3. w.todo \subseteq Blob
    BY <1>1, HoldsOf DEF OtherKnows
  <2>4. OtherKnows(q)'
    BY <2>2, <2>3 DEF OtherKnows, Taken, Deleting, DeleteSteps, Edited, At
  <2> QED
    BY <1>2, <1>3, <2>2, <2>4, Leaves
<1> QED
  BY <1>4, <1>5

\* Credits are for blobs.
LEMMA EmitCreditHolds ==
    ASSUME IInv, NEW q \in Request, NEW b \in Blob, EmitCredit(q, b)
    PROVE  Grow /\ RequestsOK' /\ Holds'
<1> DEFINE w == requests[q]
<1>1. w # Idle /\ w \in RequestRow /\ At(q, "credit")
  BY HasRequest DEF EmitCredit, At
<1>2. Grow
  BY DEF EmitCredit, Grow, vars
<1>3. \A p \in Request : Spares(p)
  BY SparesAll DEF EmitCredit, vars
<1>4. CASE w.todo = {b}
  BY <1>2, <1>3, <1>4, Ends DEF EmitCredit
<1>5. CASE w.todo # {b}
  <2>1. Change(q, "credit", w.todo \ {b}, w.rows, w.untag, w.charge)
    BY <1>1, <1>5 DEF EmitCredit, Change, At
  <2>2. Edited(q, "credit", w.todo \ {b}, w.rows, w.untag, w.charge)
    BY <1>1, <2>1, HasColumns, Edits DEF IInv
  <2>3. w.todo \subseteq Blob
    BY <1>1, HoldsOf DEF OtherKnows
  <2>4. OtherKnows(q)'
    BY <2>2, <2>3 DEF OtherKnows, Taken, Deleting, DeleteSteps, Edited, At
  <2> QED
    BY <1>2, <1>3, <2>2, <2>4, Leaves
<1> QED
  BY <1>4, <1>5

-----------------------------------------------------------------------------
(* Steps of an upload, and ends *)

\* An upload goes on with its blob.
LEMMA CheckOwnerHolds ==
    ASSUME IInv, NEW q \in Request, CheckOwner(q)
    PROVE  Grow /\ RequestsOK' /\ Holds'
<1> DEFINE w == requests[q]
<1>1. w # Idle /\ w \in RequestRow /\ At(q, "owner")
  BY HasRequest DEF CheckOwner, At
<1>2. Grow
  BY DEF CheckOwner, Grow, vars
<1>3. \A p \in Request : Spares(p)
  BY SparesAll DEF CheckOwner, vars
<1>4. PICK c \in BOOLEAN : SetCharge(q, c)
  BY DEF CheckOwner, MustCharge
<1>5. Change(q, "store", w.todo, w.rows, w.untag, c)
  BY <1>4 DEF SetCharge, Change
<1>6. Edited(q, "store", w.todo, w.rows, w.untag, c)
  BY <1>1, <1>5, HasColumns, Edits DEF IInv
<1>7. w.digest \in Blob
  BY <1>1, HoldsOf DEF OtherKnows
<1>8. OtherKnows(q)'
  BY <1>6, <1>7 DEF OtherKnows, Taken, Deleting, DeleteSteps, Edited, At
<1> QED
  BY <1>2, <1>3, <1>6, <1>8, Leaves

\* It ends with a blob more.
LEMMA CompleteUploadHolds ==
    ASSUME IInv, NEW q \in Request, CompleteUpload(q)
    PROVE  Grow /\ RequestsOK' /\ Holds'
<1>1. \A d \in Digest : objects[d] # "absent" => objects'[d] # "absent"
  BY DEF CompleteUpload, UpsertObjectBlob, IInv, Tables, TypeOK
<1>2. Grow
  BY <1>1 DEF Grow, CompleteUpload, UpsertObjectBlob
<1>3. \A p \in Request : Spares(p)
  BY SparesAll DEF CompleteUpload, UpsertObjectBlob
<1> QED
  BY <1>2, <1>3, Ends DEF CompleteUpload

\* A handler that fails ends.
LEMMA FailHolds ==
    ASSUME IInv, NEW q \in Request, Fail(q)
    PROVE  Grow /\ RequestsOK' /\ Holds'
<1>1. Grow /\ \A p \in Request : Spares(p)
  BY SparesAll DEF Fail, Grow, vars
<1> QED
  BY <1>1, Ends DEF Fail

-----------------------------------------------------------------------------
(* Requests that begin *)

\* The row of a request that has begun.
Began(q, step, r, d, t, todo) ==
    /\ requests[q] = Idle
    /\ requests'[q] \in RequestRow
    /\ requests'[q].step = step /\ requests'[q].repo = r /\ requests'[q].digest = d
    /\ requests'[q].tag = t /\ requests'[q].todo = todo
    /\ requests'[q].rows = {} /\ requests'[q].untag = {}
    /\ Others(q) /\ DOMAIN requests' = Request

\* Begin writes such a row.
LEMMA BeginAfter ==
    ASSUME IInv, NEW q \in Request, NEW r \in Repo, NEW d \in Digest, NEW t \in Tag \cup {NoTag},
           NEW todo \in SUBSET Digest, NEW step \in PutSteps \cup DeleteSteps \cup {"owner"},
           Begin(q, step, r, d, t, todo)
    PROVE  Began(q, step, r, d, t, todo)
<1> DEFINE w == [step |-> step, repo |-> r, digest |-> d, tag |-> t, todo |-> todo,
                 rows |-> {}, untag |-> {}, charge |-> FALSE]
<1>1. requests'[q] = w /\ Others(q) /\ DOMAIN requests' = Request
  BY RowAfter DEF Begin, IInv
<1>2. w \in RequestRow
  BY DEF RequestRow
<1> QED
  BY <1>1, <1>2 DEF Begin, Began

\* It joins those that overlap.
LEMMA OneStarts ==
    ASSUME IInv, Grow, UNCHANGED <<repoObjects, tags>>, NEW q \in Request,
           NEW step, NEW r, NEW d, NEW t, NEW todo, Began(q, step, r, d, t, todo),
           Putting(q)' => PutOverlaps(r) \subseteq overlaps',
           Deleting(q)' => DeleteOverlaps(r) \subseteq overlaps',
           PutKnows(q)', OtherKnows(q)', PutHolds(q)', DeleteHolds(q)'
    PROVE  RequestsOK' /\ Holds'
<1>1. \A p \in Request \ {q} : /\ Putting(p)' <=> Putting(p)
                               /\ Deleting(p)' <=> Deleting(p)
                               /\ requests'[p].repo = requests[p].repo
  BY DEF Began, Others, Putting, Deleting, At
<1>2. requests'[q].repo = r
  BY DEF Began
<1>3. ~(Putting(q)' /\ Deleting(q)')
  BY DEF Putting, Deleting, PutSteps, DeleteSteps
<1>4. ASSUME NEW p \in Request \ {q}, Deleting(p)', Putting(q)' \/ Deleting(q)'
      PROVE  {requests'[p].repo, requests'[q].repo} \in overlaps'
  <2>1. {r, requests[p].repo} \in PutOverlaps(r) \cap DeleteOverlaps(r)
    BY <1>1, <1>4 DEF PutOverlaps, DeleteOverlaps
  <2>2. {r, requests[p].repo} \in overlaps'
    BY <1>4, <2>1
  <2>3. {requests'[p].repo, requests'[q].repo} = {r, requests[p].repo}
    BY <1>1, <1>2
  <2> QED
    BY <2>2, <2>3
<1>5. ASSUME NEW p \in Request \ {q}, Deleting(q)', Putting(p)' \/ Deleting(p)'
      PROVE  {requests'[q].repo, requests'[p].repo} \in overlaps'
  <2>1. {r, requests[p].repo} \in DeleteOverlaps(r)
    BY <1>1, <1>5 DEF DeleteOverlaps
  <2> QED
    BY <1>1, <1>2, <1>5, <2>1
<1>6. Alone'
  <2> SUFFICES ASSUME NEW p \in Request, NEW u \in Request, p # u, Deleting(u)',
                      Putting(p)' \/ Deleting(p)'
               PROVE  {requests'[u].repo, requests'[p].repo} \in overlaps'
    BY DEF Alone
  <2>1. CASE p = q
    BY <2>1, <1>4
  <2>2. CASE u = q
    BY <2>2, <1>5
  <2>3. CASE p # q /\ u # q
    BY <2>3, <1>1 DEF IInv, Holds, Alone, Grow
  <2> QED
    BY <2>1, <2>2, <2>3
<1>7. \A p \in Request : Spares(p)
  BY SparesAll
<1> QED
  BY <1>6, <1>7, OneActs DEF Began

\* A push starts with nothing found, and with the deletes that run known.
LEMMA PutManifestHolds ==
    ASSUME IInv, NEW q \in Request, NEW r \in Repo, NEW m \in Manifest, NEW t \in Tag \cup {NoTag},
           PutManifest(q, r, m, t)
    PROVE  Grow /\ RequestsOK' /\ Holds'
<1>1. Grow /\ UNCHANGED <<repoObjects, tags, objects>>
  BY DEF PutManifest, Grow, vars
<1>2. PutOverlaps(r) \subseteq overlaps'
  BY DEF PutManifest
<1>3. BlobRefs[m] \subseteq Blob /\ ChildRefs[m] \subseteq Digest
  BY BodiesAssumption
<1>4. CASE BlobRefs[m] = {}
  <2>1. Began(q, "children", r, m, t, ChildRefs[m])
    BY <1>3, <1>4, BeginAfter DEF PutManifest, PutSteps
  <2>2. PutKnows(q)' /\ PutHolds(q)'
    BY <2>1, <1>4 DEF Began, PutKnows, PutHolds, Putting, PutSteps, At
  <2>3. OtherKnows(q)' /\ DeleteHolds(q)' /\ ~Deleting(q)'
    BY <2>1 DEF Began, OtherKnows, Taken, DeleteHolds, Deleting, DeleteSteps, At
  <2> QED
    BY <1>1, <1>2, <2>1, <2>2, <2>3, OneStarts
<1>5. CASE BlobRefs[m] # {}
  <2>1. Began(q, "track", r, m, t, BlobRefs[m])
    BY <1>3, <1>5, BeginAfter DEF PutManifest, PutSteps
  <2>2. PutKnows(q)' /\ PutHolds(q)'
    BY <2>1 DEF Began, PutKnows, PutHolds, Putting, PutSteps, At
  <2>3. OtherKnows(q)' /\ DeleteHolds(q)' /\ ~Deleting(q)'
    BY <2>1 DEF Began, OtherKnows, Taken, DeleteHolds, Deleting, DeleteSteps, At
  <2> QED
    BY <1>1, <1>2, <2>1, <2>2, <2>3, OneStarts
<1> QED
  BY <1>4, <1>5

\* A delete starts with all that runs known.
LEMMA DeleteManifestHolds ==
    ASSUME IInv, NEW q \in Request, NEW r \in Repo, NEW d \in Manifest, DeleteManifest(q, r, d)
    PROVE  Grow /\ RequestsOK' /\ Holds'
<1>1. Grow /\ UNCHANGED <<repoObjects, tags>>
  BY DEF DeleteManifest, Grow, vars
<1>2. DeleteOverlaps(r) \subseteq overlaps'
  BY DEF DeleteManifest
<1>3. Began(q, "guard", r, d, NoTag, {})
  BY BeginAfter DEF DeleteManifest, DeleteSteps
<1>4. PutKnows(q)' /\ PutHolds(q)' /\ ~Putting(q)'
  BY <1>3 DEF Began, PutKnows, PutHolds, Putting, PutSteps, At
<1>5. OtherKnows(q)' /\ DeleteHolds(q)'
  BY <1>3 DEF Began, OtherKnows, Taken, DeleteHolds, Deleting, DeleteSteps, At
<1> QED
  BY <1>1, <1>2, <1>3, <1>4, <1>5, OneStarts

\* An upload starts with a blob.
LEMMA UploadBlobHolds ==
    ASSUME IInv, NEW q \in Request, NEW r \in Repo, NEW b \in Blob, UploadBlob(q, r, b)
    PROVE  Grow /\ RequestsOK' /\ Holds'
<1>1. Grow /\ UNCHANGED <<repoObjects, tags>>
  BY DEF UploadBlob, Grow, vars
<1>2. Began(q, "owner", r, b, NoTag, {})
  BY BeginAfter DEF UploadBlob
<1>3. PutKnows(q)' /\ PutHolds(q)' /\ ~Putting(q)'
  BY <1>2 DEF Began, PutKnows, PutHolds, Putting, PutSteps, At
<1>4. OtherKnows(q)' /\ DeleteHolds(q)' /\ ~Deleting(q)'
  BY <1>2 DEF Began, OtherKnows, Taken, DeleteHolds, Deleting, DeleteSteps, At
<1> QED
  BY <1>1, <1>2, <1>3, <1>4, OneStarts

-----------------------------------------------------------------------------
(* What surrounds the handlers *)

\* Another tenant's blob is an object more.
LEMMA UploadElsewhereHolds ==
    ASSUME IInv, NEW b \in Blob, UploadElsewhere(b)
    PROVE  Grow /\ RequestsOK' /\ Holds'
<1>1. \A d \in Digest : objects[d] # "absent" => objects'[d] # "absent"
  BY DEF UploadElsewhere, UpsertObjectBlob, IInv, Tables, TypeOK
<1>2. Grow
  BY <1>1 DEF Grow, UploadElsewhere, UpsertObjectBlob
<1>3. \A p \in Request : Spares(p)
  BY SparesAll DEF UploadElsewhere, UpsertObjectBlob
<1> QED
  BY <1>2, <1>3, NobodyMoves DEF UploadElsewhere

\* A tag that a delete takes is not untagged under it.
LEMMA UntagHolds ==
    ASSUME IInv, NEW r \in Repo, NEW t \in Tag, Untag(r, t)
    PROVE  Grow /\ RequestsOK' /\ Holds'
<1>1. Grow /\ UNCHANGED <<repoObjects, overlaps>>
  BY DEF Untag, DeleteManifestReference, Grow
<1>2. ASSUME NEW p \in Request PROVE Spares(p)
  <2> DEFINE x == requests[p].repo
             d == requests[p].digest
  <2> SUFFICES ASSUME x \in Undisturbed, NEW u \in Tag,
                      At(p, "delete") \/ At(p, "sweep") \/ At(p, "blobs") \/ At(p, "tenants") \/ At(p, "leave")
               PROVE  tags'[x][u] = d <=> tags[x][u] = d
    BY <1>1 DEF Spares, Undisturbed
  <2>1. Deleting(p)
    BY DEF Deleting, DeleteSteps, At
  <2>2. requests[p].untag = {v \in Tag : tags[x][v] = d} /\ d \in Manifest
    BY <2>1, HoldsOf DEF DeleteHolds, OtherKnows
  <2>3. CASE x # r \/ u # t
    BY <2>3 DEF Untag, DeleteManifestReference, IInv, Tables, TypeOK
  <2>4. CASE x = r /\ u = t
    <3>1. t \notin requests[p].untag
      BY <2>1, <2>4 DEF Untag, TagsGoing
    <3>2. tags[x][u] # d
      BY <2>2, <2>4, <3>1
    <3>3. tags'[x][u] = NoDigest
      BY <2>4 DEF Untag, DeleteManifestReference, IInv, Tables, TypeOK
    <3> QED
      BY <2>2, <3>2, <3>3, BodiesAssumption
  <2> QED
    BY <2>3, <2>4
<1> QED
  BY <1>1, <1>2, NobodyMoves DEF Untag

\* Repositories that go, with the handlers in them.
LEMMA DropHolds ==
    ASSUME IInv, NEW R \in SUBSET Repo, DropRepositories(R), Drop(R)
    PROVE  Grow /\ RequestsOK' /\ Holds'
<1>1. Grow
  BY DEF DropRepositories, Drop, Grow
<1>2. ASSUME NEW p \in Request PROVE Spares(p)
  <2> DEFINE x == requests[p].repo
  <2>1. CASE ~(Putting(p) \/ Deleting(p))
    BY <2>1 DEF Spares, Deleting, DeleteSteps, At
  <2>2. CASE Putting(p) \/ Deleting(p)
    <3>1. x \in Repo
      BY <2>2, InARepo
    <3>2. CASE x \in R
      <4>1. {x, x} \in DeleteOverlaps(x)
        BY <2>2 DEF DeleteOverlaps
      <4>2. {x} \in overlaps'
        BY <3>2, <4>1 DEF Drop
      <4> QED
        BY <4>2 DEF Spares, Undisturbed
    <3>3. CASE x \notin R
      BY <3>1, <3>3 DEF Spares, DropRepositories
    <3> QED
      BY <3>2, <3>3
  <2> QED
    BY <2>1, <2>2
<1> QED
  BY <1>1, <1>2, NobodyMoves DEF Drop

\* What a drop does before its commit, or when it rolls back.
Dropping ==
    /\ UNCHANGED <<vars, stored, requests, ledger, overlaps, awaited, excused>>
    /\ \/ asked' = asked
       \/ asked < MaxRequests /\ asked' = asked + 1

\* Drops take rows, or they commit.
LEMMA DropsOnly ==
    ASSUME IInv, NEW x \in Dropper, DropNext(x)
    PROVE  \/ Dropping
           \/ \E R \in SUBSET Repo : DropRepositories(R) /\ registries' \subseteq registries /\ Drop(R)
<1>1. CASE \E g \in Registry : DropRegistry(x, g)
  BY <1>1 DEF DropRegistry, BeginDrop, Dropping
<1>2. ASSUME NEW r \in Repo, DropRepository(x, r) PROVE Dropping
  BY <1>2 DEF DropRepository, BeginDrop, Dropping
<1>3. ASSUME NEW r, NEW t, NEW d,
             CascadeRepository(x, r) \/ CascadeTag(x, r, t) \/ CascadeRow(x, r, d)
      PROVE  Dropping
  BY <1>3 DEF CascadeRepository, CascadeTag, CascadeRow, Take, Dropping
<1>4. CASE RollBackDrop(x)
  BY <1>4 DEF RollBackDrop, Dropping
<1>5. ASSUME NEW g, DeleteRegistryByIDAndOrg(g), Drop({r \in Repo : RegistryOf[r] = g})
      PROVE  \E R \in SUBSET Repo : DropRepositories(R) /\ registries' \subseteq registries /\ Drop(R)
  BY <1>5 DEF DeleteRegistryByIDAndOrg
<1>6. ASSUME NEW r, DeleteRepositoryByIDAndRegistryID(r), Drop({r})
      PROVE  \E R \in SUBSET Repo : DropRepositories(R) /\ registries' \subseteq registries /\ Drop(R)
  <2>1. {r} \in SUBSET Repo /\ DropRepositories({r}) /\ registries' \subseteq registries
    BY <1>6 DEF DeleteRepositoryByIDAndRegistryID, IInv, Tables, TypeOK
  <2> QED
    BY <1>6, <2>1
<1>7. CASE CommitDrop(x)
  <2>1. CASE \E g \in drops[x].registry :
                DeleteRegistryByIDAndOrg(g) /\ Drop({r \in Repo : RegistryOf[r] = g})
    BY <1>5, <2>1
  <2>2. CASE \E r \in drops[x].repos : DeleteRepositoryByIDAndRegistryID(r) /\ Drop({r})
    BY <1>6, <2>2
  <2> QED
    BY <1>7, <2>1, <2>2, Zenon DEF CommitDrop
<1> QED
  BY <1>1, <1>2, <1>3, <1>4, <1>7 DEF DropNext

\* Whatever happens, handlers know and hold what they should.
LEMMA HandlersHold ==
    ASSUME IInv, ServerNext
    PROVE  Grow /\ RequestsOK' /\ Holds'
<1>1. ASSUME NEW q \in Request, Arrive(q) PROVE Grow /\ RequestsOK' /\ Holds'
  BY <1>1, PutManifestHolds, DeleteManifestHolds, UploadBlobHolds DEF Arrive
<1>2. ASSUME NEW q \in Request, Handle(q) PROVE Grow /\ RequestsOK' /\ Holds'
  BY <1>2, TrackBlobHolds, InsertBlobHolds, EmitCreditHolds, CheckChildHolds, BeginUpsertHolds,
     RegistryGoneHolds, CommitUpsertHolds, GuardDeleteHolds, CheckPresentHolds, DeleteTagsHolds,
     DeleteRowHolds, SweepChildrenHolds, SweepBlobsHolds, FindTenantOrphansHolds,
     CommitDeleteHolds, CheckOwnerHolds, CompleteUploadHolds
     DEF Handle
<1>3. CASE HandlersNext
  BY <1>1, <1>2, <1>3, FailHolds, UploadElsewhereHolds, UntagHolds DEF HandlersNext
<1>4. CASE Dropping
  <2>1. Grow /\ (\A p \in Request : Spares(p)) /\ requests' = requests
    BY <1>4, SparesAll DEF Dropping, vars, Grow
  <2> QED
    BY <2>1, NobodyMoves
<1>5. ASSUME NEW R \in SUBSET Repo, DropRepositories(R), Drop(R)
      PROVE  Grow /\ RequestsOK' /\ Holds'
  BY <1>5, DropHolds
<1> QED
  BY <1>3, <1>4, <1>5, DropsOnly DEF ServerNext

-----------------------------------------------------------------------------
(* The tables *)

\* Tables that do not change stay consistent.
LEMMA UnchangedTables ==
    ASSUME IInv, UNCHANGED vars
    PROVE  TypeOK' /\ IndexConsistent'
  BY DEF IInv, Tables, TypeOK, IndexConsistent, Edges, vars

\* An object more.
LEMMA TrackedTables ==
    ASSUME IInv, NEW b \in Blob, UpsertObjectBlob(b)
    PROVE  TypeOK' /\ IndexConsistent'
<1>1. TypeOK'
  BY DEF IInv, Tables, TypeOK, UpsertObjectBlob
<1>2. IndexConsistent'
  BY KindsAssumption DEF IInv, Tables, TypeOK, UpsertObjectBlob, IndexConsistent, Edges
<1> QED
  BY <1>1, <1>2

\* A tag less.
LEMMA UntaggedTables ==
    ASSUME IInv, NEW r \in Repo, NEW t \in Tag, DeleteManifestReference(r, t)
    PROVE  TypeOK' /\ IndexConsistent'
  BY DEF IInv, Tables, TypeOK, DeleteManifestReference, IndexConsistent, Edges

\* Repositories less.
LEMMA DroppedTables ==
    ASSUME IInv, NEW R \in SUBSET Repo, DropRepositories(R), registries' \subseteq registries
    PROVE  TypeOK' /\ IndexConsistent'
<1>1. TypeOK'
  BY DEF IInv, Tables, TypeOK, DropRepositories
<1>2. IndexConsistent'
  BY DEF IInv, Tables, TypeOK, DropRepositories, IndexConsistent, Edges
<1> QED
  BY <1>1, <1>2

\* The commit of a push: all that it refers to has been found.
LEMMA PushedTables ==
    ASSUME IInv, NEW q \in Request, CommitUpsert(q)
    PROVE  TypeOK' /\ IndexConsistent'
<1> DEFINE r == requests[q].repo
           m == requests[q].digest
<1>1. TypeOK /\ IndexConsistent
  BY DEF IInv, Tables
<1>2. r \in Repo /\ m \in Manifest /\ requests[q].rows \subseteq Digest
  BY CommitUpsertEffect
<1>3. BlobRefs[m] \subseteq Blob /\ Refs(m) \subseteq Digest
  BY CommitUpsertEffect DEF Refs
<1>4. Edges(m) \subseteq Digest \X Digest /\ SubjectEdges(m) \subseteq Digest \X Digest
  BY <1>2, <1>3 DEF Edges, SubjectEdges
<1>5. TypeOK'
  <2>1. objects' \in [Digest -> ObjectTypes \cup {"absent"}]
    BY <1>1, <1>2, CommitUpsertEffect DEF CommitUpsert, TypeOK
  <2>2. tags' \in [Repo -> [Tag -> Manifest \cup {NoDigest}]]
    BY <1>1, <1>2 DEF CommitUpsert, TypeOK
  <2>3. repoObjects' \in [Repo -> SUBSET Digest]
    BY <1>1, <1>2 DEF CommitUpsert, TypeOK
  <2>4. graph' \in SUBSET (Digest \X Digest) /\ subjects' \in SUBSET graph'
    BY <1>1, <1>4, CommitUpsertEffect DEF TypeOK
  <2>5. repositories' \in SUBSET Repo /\ bodies' \in SUBSET Manifest /\ registries' \in SUBSET Registry
    BY <1>1, <1>2 DEF CommitUpsert, TypeOK
  <2> QED
    BY <2>1, <2>2, <2>3, <2>4, <2>5, Zenon DEF TypeOK
<1>6. \A n \in bodies' : Edges(n) \subseteq graph'
  BY <1>1, CommitUpsertEffect DEF IndexConsistent
<1>7. \A p \in Digest, c \in Digest :
         <<p, c>> \in graph' => p \in bodies' /\ c \in Refs(p) \cup {Subject[p]}
  BY <1>1, CommitUpsertEffect DEF IndexConsistent, Edges, SubjectEdges
<1>8. \A p \in Digest, c \in Digest : <<p, c>> \in subjects' => c = Subject[p]
  BY <1>1, CommitUpsertEffect DEF IndexConsistent, SubjectEdges
<1>9. \A n \in Manifest : objects'[n] # "blob" /\ (objects'[n] = "absent" <=> n \notin bodies')
  BY <1>1, CommitUpsertEffect DEF IndexConsistent
<1>10. \A b \in Blob : objects'[b] \in {"blob", "absent"}
  BY <1>1, CommitUpsertEffect, KindsAssumption DEF IndexConsistent
<1>11. \A x \in Repo : \A d \in repoObjects'[x] : objects'[d] # "absent"
  <2> SUFFICES ASSUME NEW x \in Repo, NEW d \in repoObjects'[x]
               PROVE  objects'[d] # "absent"
    OBVIOUS
  <2>1. d \in repoObjects[x] \/ d = m \/ d \in BlobRefs[m]
    BY <1>1, CommitUpsertEffect DEF TypeOK
  <2>2. objects[d] # "absent" \/ d = m
    BY <1>1, <2>1, CommitUpsertEffect DEF IndexConsistent
  <2>3. d \in Digest
    BY <1>1, <1>2, <1>3, <2>1 DEF TypeOK
  <2> QED
    BY <2>2, <2>3, CommitUpsertEffect
<1>12. IndexConsistent'
  BY <1>6, <1>7, <1>8, <1>9, <1>10, <1>11 DEF IndexConsistent, Edges, Refs
<1> QED
  BY <1>5, <1>12

\* The commit of a delete.
LEMMA DeletedTables ==
    ASSUME IInv, NEW q \in Request, CommitDelete(q)
    PROVE  TypeOK' /\ IndexConsistent'
<1>1. requests[q].repo \in Repo
  BY HasRequest, HasColumns DEF CommitDelete
<1>2. TypeOK'
  BY <1>1 DEF IInv, Tables, TypeOK, CommitDelete
<1>3. IndexConsistent'
  BY <1>1 DEF IInv, Tables, TypeOK, CommitDelete, IndexConsistent, Edges
<1> QED
  BY <1>2, <1>3

\* Overlaps are between repositories.
LEMMA OverlapsTyped ==
    ASSUME IInv, NEW r \in Repo
    PROVE  /\ DeleteOverlaps(r) \subseteq {{x, y} : x, y \in Repo}
           /\ PutOverlaps(r) \subseteq {{x, y} : x, y \in Repo}
  BY InARepo DEF DeleteOverlaps, PutOverlaps

\* Repositories have tenants.
LEMMA TenantTyped ==
    ASSUME NEW r \in Repo
    PROVE  TenantOfRepo(r) \in Tenant
  BY NamesAssumption, ServerAssumption DEF TenantOfRepo

\* Requests are counted up to the bound.
LEMMA ArriveBooks ==
    ASSUME IInv, NEW q \in Request, Arrive(q)
    PROVE  TypeOK' /\ IndexConsistent' /\ Books'
<1>1. Books /\ MaxRequests \in Nat
  BY ServerAssumption DEF IInv, Tables, Books
<1>2. ASSUME asked < MaxRequests, asked' = asked + 1
      PROVE  asked' \in 0..MaxRequests
  BY <1>1, <1>2 DEF Books
<1>3. ASSUME NEW r \in Repo, NEW m \in Manifest, NEW t \in Tag \cup {NoTag}, PutManifest(q, r, m, t)
      PROVE  TypeOK' /\ IndexConsistent' /\ Books'
  <2>1. asked' \in 0..MaxRequests
    BY <1>2, <1>3 DEF PutManifest, Begin
  <2> QED
    BY <1>1, <1>3, <2>1, OverlapsTyped, UnchangedTables DEF PutManifest, Books
<1>4. ASSUME NEW r \in Repo, NEW d \in Manifest, DeleteManifest(q, r, d)
      PROVE  TypeOK' /\ IndexConsistent' /\ Books'
  BY <1>1, <1>2, <1>4, OverlapsTyped, UnchangedTables DEF DeleteManifest, Begin, Books
<1>5. ASSUME NEW r \in Repo, NEW b \in Blob, UploadBlob(q, r, b)
      PROVE  TypeOK' /\ IndexConsistent' /\ Books'
  BY <1>1, <1>2, <1>5, UnchangedTables DEF UploadBlob, Begin, Books
<1> QED
  BY <1>3, <1>4, <1>5 DEF Arrive

\* Handlers leave tables consistent and books typed.
LEMMA HandleBooks ==
    ASSUME IInv, NEW q \in Request, Handle(q)
    PROVE  TypeOK' /\ IndexConsistent' /\ Books'
<1>1. Books
  BY DEF IInv, Tables, Books
<1>2. ASSUME UNCHANGED <<vars, stored, ledger, asked, overlaps, awaited, excused>>
      PROVE  TypeOK' /\ IndexConsistent' /\ Books'
  BY <1>1, <1>2, UnchangedTables DEF Books
<1>3. ASSUME NEW b \in Blob, TrackBlob(q, b) PROVE TypeOK' /\ IndexConsistent' /\ Books'
  BY <1>1, <1>3, TrackedTables DEF TrackBlob, Books
<1>4. ASSUME NEW b \in Blob, InsertBlob(q, b) PROVE TypeOK' /\ IndexConsistent' /\ Books'
  BY <1>2, <1>4 DEF InsertBlob, InsertRow
<1>5. ASSUME NEW b \in Blob, EmitCredit(q, b) PROVE TypeOK' /\ IndexConsistent' /\ Books'
  <2>1. requests[q].repo \in Repo
    BY <1>5, HasRequest, HasColumns DEF EmitCredit
  <2>2. TenantOfRepo(requests[q].repo) \in Tenant
    BY <2>1, TenantTyped
  <2>3. PICK t \in Tenant : t = TenantOfRepo(requests[q].repo)
    BY <2>2
  <2>4. Emit(requests[q].repo, t, b, -1)
    BY <1>5, <2>3 DEF EmitCredit
  <2>5. ledger' \in [Tenant -> [Blob -> Int]]
    BY <1>1, <2>4 DEF Emit, Books
  <2>6. excused' \in SUBSET (Tenant \X Blob)
    BY <1>1, <2>4 DEF Emit, Books
  <2> QED
    BY <1>1, <1>5, <2>5, <2>6, UnchangedTables DEF EmitCredit, Books
<1>6. ASSUME NEW c \in Digest, CheckChild(q, c) PROVE TypeOK' /\ IndexConsistent' /\ Books'
  BY <1>2, <1>6 DEF CheckChild
<1>7. CASE BeginUpsert(q)
  BY <1>2, <1>7 DEF BeginUpsert, InsertRow
<1>8. CASE RegistryGone(q)
  BY <1>2, <1>8 DEF RegistryGone
<1>9. CASE CommitUpsert(q)
  <2>1. TenantOfRepo(requests[q].repo) \in Tenant
    BY <1>9, CommitUpsertEffect, TenantTyped
  <2>2. ASSUME NEW t \in Tenant, NEW B \in SUBSET Blob
        PROVE  Miscounted(t, B) \subseteq Tenant \X Blob
    <3>1. \A b \in B : <<t, b>> \in Tenant \X Blob
      OBVIOUS
    <3> QED
      BY <3>1 DEF Miscounted
  <2>3. /\ excused' = excused \cup Miscounted(TenantOfRepo(requests[q].repo), requests[q].rows \cap Blob)
        /\ awaited' \subseteq awaited
        /\ UNCHANGED <<stored, ledger, asked, overlaps>>
    BY <1>9 DEF CommitUpsert
  <2>4. Books'
    BY <1>1, <2>1, <2>2, <2>3 DEF Books
  <2> QED
    BY <1>9, <2>4, PushedTables
<1>10. CASE GuardDelete(q)
  BY <1>2, <1>10 DEF GuardDelete
<1>11. CASE CheckPresent(q)
  BY <1>2, <1>11 DEF CheckPresent
<1>12. CASE DeleteTags(q)
  BY <1>2, <1>12 DEF DeleteTags
<1>13. CASE DeleteRow(q)
  BY <1>2, <1>13 DEF DeleteRow
<1>14. CASE SweepChildren(q)
  BY <1>2, <1>14 DEF SweepChildren, Sweep
<1>15. CASE SweepBlobs(q)
  BY <1>2, <1>15 DEF SweepBlobs, Sweep
<1>16. CASE FindTenantOrphans(q)
  BY <1>2, <1>16 DEF FindTenantOrphans
<1>17. CASE CommitDelete(q)
  <2>1. UNCHANGED <<stored, ledger, asked, overlaps, awaited, excused>>
    BY <1>17 DEF CommitDelete
  <2> QED
    BY <1>1, <1>17, <2>1, DeletedTables DEF Books
<1>18. CASE CheckOwner(q)
  <2> DEFINE x == <<TenantOfRepo(requests[q].repo), requests[q].digest>>
  <2>1. requests[q].repo \in Repo /\ At(q, "owner")
    BY <1>18, HasRequest, HasColumns DEF CheckOwner
  <2>2. x \in Tenant \X Blob
    BY <2>1, TenantTyped, HoldsOf DEF OtherKnows
  <2>3. UNCHANGED <<vars, stored, ledger, asked, overlaps, awaited>>
        /\ (excused' = excused \/ excused' = excused \cup {x})
    BY <1>18 DEF CheckOwner
  <2> HIDE DEF x
  <2> QED
    BY <1>1, <2>2, <2>3, UnchangedTables DEF Books
<1>19. CASE CompleteUpload(q)
  <2> DEFINE b == requests[q].digest
             t == TenantOfRepo(requests[q].repo)
  <2>1. requests[q].repo \in Repo /\ At(q, "store")
    BY <1>19, HasRequest, HasColumns DEF CompleteUpload
  <2>2. t \in Tenant /\ b \in Blob
    BY <2>1, TenantTyped, HoldsOf DEF OtherKnows
  <2>3. TypeOK' /\ IndexConsistent'
    BY <1>19, <2>2, TrackedTables DEF CompleteUpload
  <2>4. \/ UNCHANGED <<ledger, awaited, excused>>
        \/ excused' = excused \cup {<<t, b>>} /\ UNCHANGED <<ledger, awaited>>
        \/ /\ ledger' = [ledger EXCEPT ![t][b] = @ + 1] /\ awaited' = awaited \cup {<<t, b>>}
           /\ (excused' = excused \cup {<<t, b>>}) \/ (excused' = excused)
    BY <1>19 DEF CompleteUpload
  <2> HIDE DEF b, t
  <2>5. ledger' \in [Tenant -> [Blob -> Int]]
    BY <1>1, <2>2, <2>4 DEF Books
  <2>6. awaited' \in SUBSET (Tenant \X Blob) /\ excused' \in SUBSET (Tenant \X Blob)
    BY <1>1, <2>2, <2>4 DEF Books
  <2>7. stored' = stored \cup {b} /\ UNCHANGED <<asked, overlaps>>
    BY <1>19 DEF CompleteUpload, b
  <2> QED
    BY <1>1, <2>2, <2>3, <2>5, <2>6, <2>7 DEF Books
<1> QED
  BY <1>3, <1>4, <1>5, <1>6, <1>7, <1>8, <1>9, <1>10, <1>11, <1>12, <1>13, <1>14, <1>15, <1>16,
     <1>17, <1>18, <1>19, Zenon DEF Handle

\* So do those who drop repositories.
LEMMA DropBooks ==
    ASSUME IInv, NEW R \in SUBSET Repo, Drop(R)
    PROVE  Books'
<1>1. Books
  BY DEF IInv, Tables, Books
<1>2. overlaps' \in SUBSET {{r, s} : r, s \in Repo}
  BY <1>1, OverlapsTyped DEF Drop, Books
<1>3. HeldOnlyIn(R) \subseteq Tenant \X Blob
  BY DEF HeldOnlyIn
<1> QED
  BY <1>1, <1>2, <1>3 DEF Drop, Books

\* Tables and books, whatever happens.
LEMMA TablesHold ==
    ASSUME IInv, ServerNext
    PROVE  Tables'
<1>1. Books /\ MaxRequests \in Nat
  BY ServerAssumption DEF IInv, Tables, Books
<1>2. ASSUME NEW q \in Request, Fail(q) PROVE TypeOK' /\ IndexConsistent' /\ Books'
  <2>1. excused' \in SUBSET (Tenant \X Blob)
    <3>1. CASE At(q, "credit")
      <4>1. requests[q].repo \in Repo /\ requests[q].todo \subseteq Blob
        BY <3>1, HasRequest, HasColumns, HoldsOf DEF OtherKnows
      <4>2. TenantOfRepo(requests[q].repo) \in Tenant
        BY <4>1, TenantTyped
      <4> QED
        BY <1>1, <1>2, <3>1, <4>1, <4>2 DEF Fail, Books
    <3>2. CASE ~At(q, "credit")
      BY <1>1, <1>2, <3>2 DEF Fail, Books
    <3> QED
      BY <3>1, <3>2
  <2> QED
    BY <1>1, <1>2, <2>1, UnchangedTables DEF Fail, Books
<1>3. ASSUME NEW b \in Blob, UploadElsewhere(b) PROVE TypeOK' /\ IndexConsistent' /\ Books'
  <2>1. asked' \in 0..MaxRequests
    BY <1>1, <1>3 DEF UploadElsewhere, Books
  <2> QED
    BY <1>1, <1>3, <2>1, TrackedTables DEF UploadElsewhere, Books
<1>4. ASSUME NEW r \in Repo, NEW t \in Tag, Untag(r, t) PROVE TypeOK' /\ IndexConsistent' /\ Books'
  BY <1>1, <1>4, UntaggedTables DEF Untag, Books
<1>5. ASSUME Dropping PROVE TypeOK' /\ IndexConsistent' /\ Books'
  <2>1. asked' \in 0..MaxRequests
    BY <1>1, <1>5 DEF Dropping, Books
  <2> QED
    BY <1>1, <1>5, <2>1, UnchangedTables DEF Dropping, Books
<1>6. ASSUME NEW R \in SUBSET Repo, DropRepositories(R), registries' \subseteq registries, Drop(R)
      PROVE  TypeOK' /\ IndexConsistent' /\ Books'
  BY <1>6, DroppedTables, DropBooks
<1>7. ASSUME HandlersNext PROVE TypeOK' /\ IndexConsistent' /\ Books'
  BY <1>2, <1>3, <1>4, <1>7, ArriveBooks, HandleBooks DEF HandlersNext
<1>8. TypeOK' /\ IndexConsistent' /\ Books'
  BY <1>5, <1>6, <1>7, DropsOnly DEF ServerNext
<1> QED
  BY <1>8 DEF Tables, Books

-----------------------------------------------------------------------------
(* What clients see *)

\* The client's view of repoObjects.
Images == [r \in Repo |-> repoObjects[r] \cap Manifest]
Available == [r \in Repo |-> repoObjects[r] \cap Blob]

\* What the catalogue allows, or a change where a delete overlapped.
CatalogStep ==
    Catalog!CatalogNext \/ \E r \in Repo \ Undisturbed' :
        repoObjects'[r] # repoObjects[r] \/ tags'[r] # tags[r]

\* The two invariants, in one repository.
WholeIn(r) ==
    \A m \in repoObjects[r] \cap Manifest : Refs(m) \ {Subject[m]} \subseteq repoObjects[r]
TidyIn(r) ==
    /\ \A b \in repoObjects[r] \cap Blob : Referenced(b, repoObjects[r] \cap Manifest)
    /\ \A t \in Tag : tags[r][t] \in Digest /\ ~Referenced(tags[r][t], Digest)
          => tags[r][t] \in repoObjects[r]

\* What the invariants say of a repository that stays undisturbed.
LEMMA WholeAndTidy ==
    ASSUME IInv, Grow, NEW r \in Repo, r \in Undisturbed'
    PROVE  r \in Undisturbed /\ WholeIn(r) /\ TidyIn(r)
  BY Disturbed DEF IInv, WholeUnlessDisturbed, TidyUnlessDisturbed, WholeIn, TidyIn

\* Only commits, untagging and dropping change what clients see.
LEMMA Visible ==
    ASSUME IInv, ServerNext
    PROVE  \/ UNCHANGED <<repoObjects, tags>>
           \/ \E q \in Request : CommitUpsert(q) \/ CommitDelete(q)
           \/ \E r \in Repo, t \in Tag : Untag(r, t)
           \/ \E R \in SUBSET Repo : DropRepositories(R) /\ Drop(R)
<1>1. ASSUME NEW q \in Request, Arrive(q) PROVE UNCHANGED <<repoObjects, tags>>
  BY <1>1 DEF Arrive, PutManifest, DeleteManifest, UploadBlob, vars
<1>2. ASSUME NEW q \in Request, Handle(q)
      PROVE  UNCHANGED <<repoObjects, tags>> \/ CommitUpsert(q) \/ CommitDelete(q)
  BY <1>2 DEF Handle, TrackBlob, UpsertObjectBlob, InsertBlob, InsertRow, EmitCredit, CheckChild,
     BeginUpsert, RegistryGone, GuardDelete, CheckPresent, DeleteTags, DeleteRow, SweepChildren,
     SweepBlobs, Sweep, FindTenantOrphans, CheckOwner, CompleteUpload, vars
<1>3. ASSUME NEW q \in Request, Fail(q) PROVE UNCHANGED <<repoObjects, tags>>
  BY <1>3 DEF Fail, vars
<1>4. ASSUME NEW b \in Blob, UploadElsewhere(b) PROVE UNCHANGED <<repoObjects, tags>>
  BY <1>4 DEF UploadElsewhere, UpsertObjectBlob
<1>5. Dropping => UNCHANGED <<repoObjects, tags>>
  BY DEF Dropping, vars
<1> QED
  BY <1>1, <1>2, <1>3, <1>4, <1>5, DropsOnly DEF ServerNext, HandlersNext

\* What is referenced stays so.
LEMMA StaysReferenced ==
    ASSUME Grow, NEW x, NEW S, NEW T, S \subseteq T, Referenced(x, S)
    PROVE  \E p \in T : <<p, x>> \in graph'
  BY DEF Grow, Referenced

\* Where nothing changes, what was whole and tidy still is.
LEMMA UnchangedIn ==
    ASSUME IInv, Grow, NEW r \in Repo, r \in Undisturbed', repoObjects'[r] = repoObjects[r],
           \A t \in Tag : tags'[r][t] = tags[r][t] \/ tags'[r][t] = NoDigest
    PROVE  WholeIn(r)' /\ TidyIn(r)'
<1>1. WholeIn(r) /\ TidyIn(r)
  BY WholeAndTidy
<1>2. WholeIn(r)'
  BY <1>1 DEF WholeIn
<1>3. \A b \in repoObjects'[r] \cap Blob : \E p \in repoObjects'[r] \cap Manifest : <<p, b>> \in graph'
  BY <1>1, StaysReferenced DEF TidyIn
<1>4. ASSUME NEW t \in Tag, tags'[r][t] \in Digest, ~\E p \in Digest : <<p, tags'[r][t]>> \in graph'
      PROVE  tags'[r][t] \in repoObjects'[r]
  <2>1. tags'[r][t] = tags[r][t]
    BY <1>4, BodiesAssumption
  <2>2. ~Referenced(tags[r][t], Digest)
    BY <1>4, <2>1, StaysReferenced
  <2> QED
    BY <1>1, <1>4, <2>1, <2>2 DEF TidyIn
<1>5. TidyIn(r)'
  BY <1>3, <1>4 DEF TidyIn, Referenced
<1> QED
  BY <1>2, <1>5

\* A push adds a manifest with all that it names.
LEMMA PushedIn ==
    ASSUME IInv, Grow, NEW q \in Request, CommitUpsert(q), NEW r \in Repo, r \in Undisturbed'
    PROVE  WholeIn(r)' /\ TidyIn(r)'
<1> DEFINE m == requests[q].digest
<1>1. WholeIn(r) /\ TidyIn(r) /\ r \in Undisturbed
  BY WholeAndTidy
<1>2. repoObjects \in [Repo -> SUBSET Digest] /\ tags \in [Repo -> [Tag -> Manifest \cup {NoDigest}]]
  BY DEF IInv, Tables, TypeOK
<1>3. CASE r # requests[q].repo
  <2>1. repoObjects'[r] = repoObjects[r] /\ tags'[r] = tags[r]
    BY <1>2, <1>3 DEF CommitUpsert
  <2> QED
    BY <2>1, UnchangedIn
<1>4. CASE r = requests[q].repo
  <2>1. /\ m \in Manifest /\ BlobRefs[m] \subseteq Blob
        /\ ChildRefs[m] \subseteq repoObjects[r]
        /\ graph' = graph \cup Edges(m) \cup SubjectEdges(m)
    BY <1>1, <1>4, CommitUpsertEffect
  <2>2. repoObjects'[r] = repoObjects[r] \cup {m} \cup BlobRefs[m]
    BY <1>1, <1>2, <1>4, CommitUpsertEffect
  <2>3. \A t \in Tag : tags'[r][t] = tags[r][t] \/ tags'[r][t] = m
    BY <1>2, <1>4 DEF CommitUpsert
  <2>4. WholeIn(r)'
    BY <1>1, <2>1, <2>2, KindsAssumption DEF WholeIn, Refs
  <2>5. ASSUME NEW b \in repoObjects'[r] \cap Blob
        PROVE  \E p \in repoObjects'[r] \cap Manifest : <<p, b>> \in graph'
    <3>1. CASE b \in repoObjects[r]
      <4>1. Referenced(b, repoObjects[r] \cap Manifest)
        BY <1>1, <3>1 DEF TidyIn
      <4>2. repoObjects[r] \cap Manifest \subseteq repoObjects'[r] \cap Manifest
        BY <2>2
      <4> QED
        BY <4>1, <4>2, StaysReferenced
    <3>2. CASE b \in BlobRefs[m]
      BY <2>1, <2>2, <3>2 DEF Edges, Refs
    <3> QED
      BY <2>1, <2>2, <3>1, <3>2, KindsAssumption
  <2>6. ASSUME NEW t \in Tag, tags'[r][t] \in Digest, ~\E p \in Digest : <<p, tags'[r][t]>> \in graph'
        PROVE  tags'[r][t] \in repoObjects'[r]
    <3>1. CASE tags'[r][t] = m
      BY <2>2, <3>1
    <3>2. CASE tags'[r][t] = tags[r][t]
      <4>1. ~Referenced(tags[r][t], Digest)
        BY <2>6, <3>2, StaysReferenced
      <4> QED
        BY <1>1, <2>2, <2>6, <3>2, <4>1 DEF TidyIn
    <3> QED
      BY <2>3, <3>1, <3>2
  <2>7. TidyIn(r)'
    BY <2>5, <2>6 DEF TidyIn, Referenced
  <2> QED
    BY <2>4, <2>7
<1> QED
  BY <1>3, <1>4

\* What the commit of a delete takes from a repository where it was alone.
LEMMA CommitDeleteEffect ==
    ASSUME IInv, NEW q \in Request, CommitDelete(q), requests[q].repo \in Undisturbed
    PROVE  LET r == requests[q].repo
               d == requests[q].digest
           IN  /\ r \in Repo /\ d \in Manifest
               /\ d \in requests[q].rows /\ requests[q].rows \subseteq repoObjects[r]
               /\ \A x \in requests[q].rows \ {d} : Referenced(x, Digest)
               /\ \A p \in Staying(q) \cap Manifest : Pins(p) \cap Deleted(q) = {}
               /\ \A b \in Staying(q) \cap Blob : Referenced(b, Staying(q) \cap Manifest)
               /\ requests[q].untag = {t \in Tag : tags[r][t] = d}
<1>1. requests[q].repo \in Repo /\ At(q, "leave") /\ Deleting(q) /\ ~At(q, "guard")
  BY HasRequest, HasColumns DEF CommitDelete, Deleting, DeleteSteps, At
<1>2. DeleteHolds(q) /\ requests[q].digest \in Manifest
  BY <1>1, HoldsOf DEF OtherKnows
<1> QED
  BY <1>1, <1>2 DEF DeleteHolds

\* A delete takes what nothing that stays needs, and all of it.
LEMMA DeletedIn ==
    ASSUME IInv, Grow, NEW q \in Request, CommitDelete(q), NEW r \in Repo, r \in Undisturbed'
    PROVE  WholeIn(r)' /\ TidyIn(r)'
<1> DEFINE d == requests[q].digest
<1>1. WholeIn(r) /\ TidyIn(r) /\ r \in Undisturbed
  BY WholeAndTidy
<1>2. repoObjects \in [Repo -> SUBSET Digest] /\ tags \in [Repo -> [Tag -> Manifest \cup {NoDigest}]]
  BY DEF IInv, Tables, TypeOK
<1>3. CASE r # requests[q].repo
  <2>1. repoObjects'[r] = repoObjects[r] /\ tags'[r] = tags[r]
    BY <1>2, <1>3 DEF CommitDelete
  <2> QED
    BY <2>1, UnchangedIn
<1>4. CASE r = requests[q].repo
  <2>1. /\ d \in requests[q].rows /\ requests[q].rows \subseteq repoObjects[r]
        /\ \A x \in requests[q].rows \ {d} : Referenced(x, Digest)
        /\ \A p \in Staying(q) \cap Manifest : Pins(p) \cap Deleted(q) = {}
        /\ \A b \in Staying(q) \cap Blob : Referenced(b, Staying(q) \cap Manifest)
        /\ requests[q].untag = {t \in Tag : tags[r][t] = d}
    BY <1>1, <1>4, CommitDeleteEffect
  <2>2. repoObjects'[r] = Staying(q) /\ Staying(q) = repoObjects[r] \ requests[q].rows
    BY <1>2, <1>4 DEF CommitDelete, Staying
  <2>3. \A t \in Tag : tags'[r][t] = IF tags[r][t] = d THEN NoDigest ELSE tags[r][t]
    BY <1>2, <1>4, <2>1 DEF CommitDelete
  <2>4. WholeIn(r)'
    BY <1>1, <2>1, <2>2 DEF WholeIn, Pins, Deleted
  <2>5. \A b \in repoObjects'[r] \cap Blob : \E p \in repoObjects'[r] \cap Manifest : <<p, b>> \in graph'
    BY <2>1, <2>2, StaysReferenced
  <2>6. ASSUME NEW t \in Tag, tags'[r][t] \in Digest, ~\E p \in Digest : <<p, tags'[r][t]>> \in graph'
        PROVE  tags'[r][t] \in repoObjects'[r]
    <3>1. tags'[r][t] = tags[r][t] /\ tags[r][t] # d
      BY <2>3, <2>6, BodiesAssumption
    <3>2. ~Referenced(tags[r][t], Digest)
      BY <2>6, <3>1, StaysReferenced
    <3>3. tags[r][t] \in repoObjects[r]
      BY <1>1, <2>6, <3>1, <3>2 DEF TidyIn
    <3> QED
      BY <2>1, <2>2, <3>1, <3>2, <3>3
  <2>7. TidyIn(r)'
    BY <2>5, <2>6 DEF TidyIn, Referenced
  <2> QED
    BY <2>4, <2>7
<1> QED
  BY <1>3, <1>4

\* Untagging takes a tag.
LEMMA UntaggedIn ==
    ASSUME IInv, Grow, NEW x \in Repo, NEW t \in Tag, Untag(x, t), NEW r \in Repo, r \in Undisturbed'
    PROVE  WholeIn(r)' /\ TidyIn(r)'
<1>1. tags \in [Repo -> [Tag -> Manifest \cup {NoDigest}]]
  BY DEF IInv, Tables, TypeOK
<1>2. repoObjects'[r] = repoObjects[r]
  BY DEF Untag, DeleteManifestReference
<1>3. \A u \in Tag : tags'[r][u] = tags[r][u] \/ tags'[r][u] = NoDigest
  BY <1>1 DEF Untag, DeleteManifestReference
<1> QED
  BY <1>2, <1>3, UnchangedIn

\* Dropping takes everything.
LEMMA DroppedIn ==
    ASSUME IInv, Grow, NEW R \in SUBSET Repo, DropRepositories(R), NEW r \in Repo, r \in Undisturbed'
    PROVE  WholeIn(r)' /\ TidyIn(r)'
<1>1. CASE r \in R
  BY <1>1, BodiesAssumption DEF DropRepositories, WholeIn, TidyIn
<1>2. CASE r \notin R
  <2>1. repoObjects'[r] = repoObjects[r] /\ tags'[r] = tags[r]
    BY <1>2 DEF DropRepositories
  <2> QED
    BY <2>1, UnchangedIn
<1> QED
  BY <1>1, <1>2

\* Undisturbed repositories stay whole and tidy.
LEMMA GoodHolds ==
    ASSUME IInv, Grow, ServerNext
    PROVE  WholeUnlessDisturbed' /\ TidyUnlessDisturbed'
<1>1. ASSUME NEW r \in Repo, r \in Undisturbed' PROVE WholeIn(r)' /\ TidyIn(r)'
  BY <1>1, Visible, UnchangedIn, PushedIn, DeletedIn, UntaggedIn, DroppedIn
<1>2. Undisturbed' \subseteq Repo
  BY DEF Undisturbed
<1> QED
  BY <1>1, <1>2 DEF WholeUnlessDisturbed, TidyUnlessDisturbed, WholeIn, TidyIn

-----------------------------------------------------------------------------
(* The invariant *)

\* The strengthened invariant holds of every behaviour.
LEMMA Invariant == ServerSpec => []IInv
<1>1. ServerInit => IInv
  <2> SUFFICES ASSUME ServerInit PROVE IInv
    OBVIOUS
  <2>1. TypeOK
    BY DEF ServerInit, TypeOK
  <2>2. IndexConsistent
    BY KindsAssumption DEF ServerInit, IndexConsistent
  <2>3. ledger \in [Tenant -> [Blob -> Int]] /\ asked \in 0..MaxRequests
    BY ServerAssumption DEF ServerInit
  <2>4. Tables
    BY <2>1, <2>2, <2>3 DEF ServerInit, Tables, Books
  <2>5. \A q \in Request : requests[q] = Idle /\ ~Putting(q) /\ ~Deleting(q) /\ requests[q].step = "idle"
    BY DEF ServerInit, Putting, Deleting, PutSteps, DeleteSteps, At, Idle
  <2>6. RequestsOK
    BY <2>5 DEF ServerInit, RequestsOK, PutKnows, OtherKnows, Taken, At
  <2>7. Holds
    BY <2>5 DEF Holds, Alone, PutHolds, DeleteHolds, At
  <2>8. WholeUnlessDisturbed /\ TidyUnlessDisturbed
    BY BodiesAssumption DEF ServerInit, Undisturbed, WholeUnlessDisturbed, TidyUnlessDisturbed
  <2> QED
    BY <2>4, <2>6, <2>7, <2>8 DEF IInv
<1>2. IInv /\ [ServerNext]_serverVars => IInv'
  <2> SUFFICES ASSUME IInv, [ServerNext]_serverVars PROVE IInv'
    OBVIOUS
  <2>1. CASE ServerNext
    BY <2>1, HandlersHold, TablesHold, GoodHolds DEF IInv
  <2>2. CASE UNCHANGED serverVars
    <3>1. Grow /\ (\A p \in Request : Spares(p)) /\ requests' = requests
      BY <2>2, SparesAll DEF serverVars, vars, Grow
    <3>2. TypeOK' /\ IndexConsistent'
      BY <2>2, UnchangedTables DEF serverVars
    <3>3. Tables'
      BY <2>2, <3>2 DEF IInv, Tables, Books, serverVars
    <3>4. \A r \in Repo : r \in Undisturbed' => WholeIn(r)' /\ TidyIn(r)'
      BY <2>2, <3>1, UnchangedIn DEF serverVars, vars
    <3>5. WholeUnlessDisturbed' /\ TidyUnlessDisturbed'
      BY <3>4 DEF WholeUnlessDisturbed, TidyUnlessDisturbed, WholeIn, TidyIn, Undisturbed
    <3> QED
      BY <3>1, <3>3, <3>5, NobodyMoves DEF IInv
  <2> QED
    BY <2>1, <2>2
<1> QED
  BY <1>1, <1>2, PTL DEF ServerSpec

\* Manifests keep what they list wherever no delete overlapped, however many pushes
\* and deletes run elsewhere and pushes run here, statement by statement.
THEOREM Whole == ServerSpec => []WholeUnlessDisturbed
<1>1. IInv => WholeUnlessDisturbed
  BY DEF IInv
<1> QED
  BY <1>1, Invariant, PTL

\* Likewise nothing is stranded.
THEOREM Tidy == ServerSpec => []TidyUnlessDisturbed
<1>1. IInv => TidyUnlessDisturbed
  BY DEF IInv
<1> QED
  BY <1>1, Invariant, PTL

-----------------------------------------------------------------------------
(* The catalogue is implemented where no delete overlapped *)

\* A commit of a push is a push of the catalogue, where no delete overlapped.
LEMMA PushStep ==
    ASSUME IInv, Grow, NEW q \in Request, CommitUpsert(q),
           NEW r, r = requests[q].repo, NEW m, m = requests[q].digest, NEW t, t = requests[q].tag,
           r \in Undisturbed'
    PROVE  Catalog!Push(r, m, t)
<1>1. repoObjects \in [Repo -> SUBSET Digest]
  BY DEF IInv, Tables, TypeOK
<1>2. r \in Repo /\ m \in Manifest /\ BlobRefs[m] \subseteq Blob
  BY CommitUpsertEffect
<1>3. repoObjects' = [repoObjects EXCEPT ![r] = @ \cup {m} \cup BlobRefs[m]]
  <2>1. repoObjects[r] \cup requests[q].rows = repoObjects[r] \cup {m} \cup BlobRefs[m]
    BY Disturbed, CommitUpsertEffect
  <2> QED
    BY <2>1, CommitUpsertEffect
<1>4. Images' = [Images EXCEPT ![r] = @ \cup {m}]
  <2>1. \A x \in Repo : repoObjects'[x] \cap Manifest
           = IF x = r THEN (repoObjects[x] \cap Manifest) \cup {m} ELSE repoObjects[x] \cap Manifest
    BY <1>1, <1>2, <1>3, KindsAssumption
  <2> QED
    BY <2>1 DEF Images
<1>5. Available' = [Available EXCEPT ![r] = @ \cup BlobRefs[m]]
  <2>1. \A x \in Repo : repoObjects'[x] \cap Blob
           = IF x = r THEN (repoObjects[x] \cap Blob) \cup BlobRefs[m] ELSE repoObjects[x] \cap Blob
    BY <1>1, <1>2, <1>3, KindsAssumption
  <2> QED
    BY <2>1 DEF Available
<1> QED
  BY <1>4, <1>5 DEF CommitUpsert, Catalog!Push, Images, Available

\* A commit of a delete is a removal of the catalogue, where it was alone.
LEMMA RemoveStep ==
    ASSUME IInv, Grow, NEW q \in Request, CommitDelete(q),
           NEW r, r = requests[q].repo, NEW d, d = requests[q].digest,
           r \in Undisturbed'
    PROVE  Catalog!Remove(r, d)
<1> DEFINE Stay == Staying(q) \cap Manifest
           Keep == Staying(q) \cap Blob
<1>1. repoObjects \in [Repo -> SUBSET Digest] /\ tags \in [Repo -> [Tag -> Manifest \cup {NoDigest}]]
  BY DEF IInv, Tables, TypeOK
<1>2. /\ r \in Undisturbed /\ r \in Repo
      /\ d \in requests[q].rows /\ requests[q].untag = {t \in Tag : tags[r][t] = d}
      /\ \A p \in Staying(q) \cap Manifest : Pins(p) \cap Deleted(q) = {}
  BY Disturbed, CommitDeleteEffect
<1>3. Staying(q) = repoObjects[r] \ requests[q].rows /\ requests[q].rows \subseteq Deleted(q)
  BY DEF Staying, Deleted
<1>4. repoObjects' = [repoObjects EXCEPT ![r] = Staying(q)]
  BY <1>3 DEF CommitDelete
<1>5. Stay \in SUBSET Images[r] /\ Keep \in SUBSET Available[r]
  BY <1>2, <1>3 DEF Images, Available
<1>6. d \notin Stay \cup Keep
  BY <1>2, <1>3
<1>7. \A m \in Stay : Pins(m) \cap (Images[r] \cup Available[r]) \subseteq Stay \cup Keep
  <2> SUFFICES ASSUME NEW m \in Stay, NEW c \in Pins(m) \cap (Images[r] \cup Available[r])
               PROVE  c \in Stay \cup Keep
    OBVIOUS
  <2>1. c \in repoObjects[r] /\ c \in Digest
    BY <1>2 DEF Images, Available
  <2>2. c \notin requests[q].rows
    BY <1>2, <1>3
  <2> QED
    BY <1>3, <2>1, <2>2
<1>8. Images' = [Images EXCEPT ![r] = Stay]
  BY <1>1, <1>4 DEF Images
<1>9. Available' = [Available EXCEPT ![r] = Keep]
  BY <1>1, <1>4 DEF Available
<1>10. tags' = [tags EXCEPT ![r] = [t \in Tag |-> IF tags[r][t] = d THEN NoDigest ELSE tags[r][t]]]
  BY <1>2 DEF CommitDelete
<1>11. /\ Images[r] \ Stay \subseteq {d} \cup Catalog!Named({d})
       /\ Available[r] \ Keep \subseteq {d} \cup Catalog!Named({d} \cup (Images[r] \ Stay))
  <2>1. /\ requests[q].rows \cap Manifest \subseteq {d} \cup Catalog!Named({d})
        /\ requests[q].rows \cap Blob \subseteq Catalog!Named({d} \cup (requests[q].rows \cap Manifest))
    BY HoldsOf DEF CommitDelete, OtherKnows, Taken, At
  <2>2. requests[q].rows \subseteq repoObjects[r]
    BY <1>2, HoldsOf DEF CommitDelete, DeleteHolds, Deleting, DeleteSteps, At
  <2>3. /\ Images[r] \ Stay = requests[q].rows \cap Manifest
        /\ Available[r] \ Keep = requests[q].rows \cap Blob
    BY <1>2, <1>3, <2>2 DEF Images, Available
  <2> QED
    BY <2>1, <2>3
<1> HIDE DEF Stay, Keep
<1>12. \E stay \in SUBSET Images[r], keep \in SUBSET Available[r] :
         /\ Images' = [Images EXCEPT ![r] = stay]
         /\ Available' = [Available EXCEPT ![r] = keep]
         /\ d \notin stay \cup keep
         /\ Images[r] \ stay \subseteq {d} \cup Catalog!Named({d})
         /\ Available[r] \ keep \subseteq {d} \cup Catalog!Named({d} \cup (Images[r] \ stay))
         /\ \A m \in stay : Pins(m) \cap (Images[r] \cup Available[r]) \subseteq stay \cup keep
  BY <1>5, <1>6, <1>7, <1>8, <1>9, <1>11, Zenon
<1> QED
  BY <1>10, <1>12, Zenon DEF Catalog!Remove, Catalog!Needs, Images, Available, Pins, Refs

\* A commit changes its own repository or nothing that clients see.
LEMMA ChangedThere ==
    ASSUME IInv, NEW r, NEW v, NEW w, ~UNCHANGED <<repoObjects, tags>>,
           repoObjects' = [repoObjects EXCEPT ![r] = v], tags' = [tags EXCEPT ![r] = w]
    PROVE  repoObjects'[r] # repoObjects[r] \/ tags'[r] # tags[r]
<1> SUFFICES ASSUME repoObjects'[r] = repoObjects[r], tags'[r] = tags[r] PROVE FALSE
  OBVIOUS
<1>1. repoObjects \in [Repo -> SUBSET Digest] /\ tags \in [Repo -> [Tag -> Manifest \cup {NoDigest}]]
  BY DEF IInv, Tables, TypeOK
<1>2. repoObjects' = repoObjects
  BY <1>1
<1>3. tags' = tags
  BY <1>1
<1> QED
  BY <1>2, <1>3

\* Seen by clients every step is one of the catalogue, or it changes a repository in
\* which a delete overlapped.
THEOREM CatalogKept == ServerSpec => CatalogUnlessDisturbed
<1>1. IInv /\ [ServerNext]_serverVars => [CatalogStep]_<<repoObjects, tags>>
  <2> SUFFICES ASSUME IInv, ServerNext, ~UNCHANGED <<repoObjects, tags>> PROVE CatalogStep
    BY DEF serverVars, vars
  <2>1. Grow
    BY HandlersHold
  <2>2. ASSUME NEW q \in Request, CommitUpsert(q) PROVE CatalogStep
    <3>1. PICK r \in Repo, m \in Manifest, t \in Tag \cup {NoTag} :
             r = requests[q].repo /\ m = requests[q].digest /\ t = requests[q].tag
      BY <2>2, CommitUpsertEffect, HasRequest DEF CommitUpsert, RequestRow
    <3>2. CASE r \in Undisturbed'
      BY <2>1, <2>2, <3>1, <3>2, PushStep DEF CatalogStep, Catalog!CatalogNext
    <3>3. CASE r \notin Undisturbed'
      <4>1. repoObjects'[r] # repoObjects[r] \/ tags'[r] # tags[r]
        BY <2>2, <3>1, ChangedThere DEF CommitUpsert
      <4> QED
        BY <3>1, <3>3, <4>1 DEF CatalogStep
    <3> QED
      BY <3>2, <3>3, Zenon
  <2>3. ASSUME NEW q \in Request, CommitDelete(q) PROVE CatalogStep
    <3>1. PICK r \in Repo, d \in Digest : r = requests[q].repo /\ d = requests[q].digest
      BY <2>3, HasRequest, HasColumns DEF CommitDelete
    <3>2. CASE r \in Undisturbed'
      BY <2>1, <2>3, <3>1, <3>2, RemoveStep DEF CatalogStep, Catalog!CatalogNext
    <3>3. CASE r \notin Undisturbed'
      <4>1. repoObjects'[r] # repoObjects[r] \/ tags'[r] # tags[r]
        BY <2>3, <3>1, ChangedThere DEF CommitDelete
      <4> QED
        BY <3>1, <3>3, <4>1 DEF CatalogStep
    <3> QED
      BY <3>2, <3>3
  <2>4. ASSUME NEW r \in Repo, NEW t \in Tag, Untag(r, t) PROVE CatalogStep
    <3>1. Catalog!Untag(r, t)
      BY <2>4 DEF Untag, DeleteManifestReference, Catalog!Untag
    <3> QED
      BY <3>1 DEF CatalogStep, Catalog!CatalogNext
  <2>5. ASSUME NEW R \in SUBSET Repo, DropRepositories(R) PROVE CatalogStep
    <3>1. Catalog!Drop(R)
      BY <2>5 DEF DropRepositories, Catalog!Drop
    <3> QED
      BY <3>1 DEF CatalogStep, Catalog!CatalogNext
  <2> QED
    BY <2>2, <2>3, <2>4, <2>5, Visible
<1> QED
  BY <1>1, Invariant, PTL DEF ServerSpec, CatalogUnlessDisturbed, CatalogStep

-----------------------------------------------------------------------------
(* Every step of a handler brings its answer nearer *)

\* What comes after a step, if the request is not answered.
Follows ==
    {<<"track", "children">>, <<"children", "insert">>,
     <<"guard", "present">>, <<"present", "untag">>, <<"untag", "delete">>,
     <<"delete", "sweep">>, <<"sweep", "blobs">>, <<"blobs", "tenants">>,
     <<"blobs", "leave">>, <<"tenants", "leave">>, <<"leave", "credit">>,
     <<"owner", "store">>}

\* The request of q is answered, or it is further on, or there is less to do.
Onward(q) ==
    \/ requests'[q] = Idle
    \/ /\ requests'[q].repo = requests[q].repo
       /\ requests'[q].digest = requests[q].digest
       /\ requests'[q].tag = requests[q].tag
       /\ \/ <<requests[q].step, requests'[q].step>> \in Follows
          \/ /\ requests'[q].step = requests[q].step
             /\ requests'[q].todo \subseteq requests[q].todo
             /\ requests'[q].todo # requests[q].todo

\* So do steps that edit the request.
LEMMA EditedOnward ==
    ASSUME NEW q \in Request, NEW step, NEW todo, NEW rows, NEW untag, NEW charge,
           Edited(q, step, todo, rows, untag, charge),
           \/ <<requests[q].step, step>> \in Follows
           \/ step = requests[q].step /\ todo \subseteq requests[q].todo /\ todo # requests[q].todo
    PROVE  Others(q) /\ Onward(q)
  BY DEF Edited, Onward

\* And those that answer.
LEMMA AnswerOnward ==
    ASSUME IInv, NEW q \in Request, Reply(q)
    PROVE  Others(q) /\ Onward(q)
  BY ReplyAfter DEF IInv, Onward

\* Steps of a push.
LEMMA PushOnward ==
    ASSUME IInv, NEW q \in Request,
           \/ \E b \in Blob : TrackBlob(q, b) \/ InsertBlob(q, b)
           \/ \E c \in Digest : CheckChild(q, c)
           \/ BeginUpsert(q) \/ RegistryGone(q) \/ CommitUpsert(q)
    PROVE  Others(q) /\ Onward(q)
<1> DEFINE w == requests[q]
           m == requests[q].digest
<1>1. ASSUME NEW step \in PutSteps, At(q, step)
      PROVE  w # Idle /\ w \in RequestRow /\ m \in Manifest /\ BlobRefs[m] \subseteq Digest
             /\ ChildRefs[m] \subseteq Digest
  <2>1. w # Idle /\ w \in RequestRow /\ Putting(q)
    BY <1>1, HasRequest DEF Putting, PutSteps, At
  <2>2. m \in Manifest
    BY <2>1, HoldsOf DEF PutKnows
  <2> QED
    BY <2>1, <2>2, BodiesAssumption
<1>2. ASSUME NEW b \in Blob, TrackBlob(q, b) PROVE Others(q) /\ Onward(q)
  <2>1. w # Idle /\ w \in RequestRow /\ ChildRefs[m] \in SUBSET Digest /\ At(q, "track")
    BY <1>1, <1>2 DEF TrackBlob, PutSteps
  <2>2. CASE w.todo # {b}
    <3>1. Change(q, "track", w.todo \ {b}, w.rows, w.untag, w.charge)
      BY <1>2, <2>1, <2>2 DEF TrackBlob, Change, At
    <3>2. Edited(q, "track", w.todo \ {b}, w.rows, w.untag, w.charge)
      BY <2>1, <3>1, HasColumns, Edits DEF IInv, PutSteps
    <3> QED
      BY <1>2, <2>1, <3>2, EditedOnward DEF TrackBlob, At
  <2>3. CASE w.todo = {b}
    <3>1. Change(q, "children", ChildRefs[m], w.rows, w.untag, w.charge)
      BY <1>2, <2>3 DEF TrackBlob, Change
    <3>2. Edited(q, "children", ChildRefs[m], w.rows, w.untag, w.charge)
      BY <2>1, <3>1, HasColumns, Edits DEF IInv, PutSteps
    <3> QED
      BY <2>1, <3>2, EditedOnward DEF Follows, At
  <2> QED
    BY <2>2, <2>3
<1>3. ASSUME NEW b \in Blob, InsertBlob(q, b) PROVE Others(q) /\ Onward(q)
  <2> DEFINE rows == requests[q].rows \cup ({b} \ repoObjects[requests[q].repo])
  <2>1. w # Idle /\ w \in RequestRow /\ At(q, "insert")
    BY <1>1, <1>3 DEF InsertBlob, PutSteps
  <2>2. Change(q, "insert", w.todo \ {b}, rows, w.untag, w.charge)
    BY <1>3 DEF InsertBlob, InsertRow, Change
  <2>3. rows \in SUBSET Digest
    BY <2>1, HasColumns
  <2> HIDE DEF rows
  <2>4. Edited(q, "insert", w.todo \ {b}, rows, w.untag, w.charge)
    BY <2>1, <2>2, <2>3, HasColumns, Edits DEF IInv, PutSteps
  <2> QED
    BY <1>3, <2>1, <2>4, EditedOnward DEF InsertBlob, At
<1>4. ASSUME NEW c \in Digest, CheckChild(q, c) PROVE Others(q) /\ Onward(q)
  <2>1. w # Idle /\ w \in RequestRow /\ At(q, "children")
    BY <1>1, <1>4 DEF CheckChild, PutSteps
  <2>2. CASE ChildKnown(w.repo, c)
    <3>1. Change(q, "children", w.todo \ {c}, w.rows, w.untag, w.charge)
      BY <1>4, <2>1, <2>2 DEF CheckChild, Change, At
    <3>2. Edited(q, "children", w.todo \ {c}, w.rows, w.untag, w.charge)
      BY <2>1, <3>1, HasColumns, Edits DEF IInv, PutSteps
    <3> QED
      BY <1>4, <2>1, <3>2, EditedOnward DEF CheckChild, At
  <2>3. CASE ~ChildKnown(w.repo, c)
    BY <1>4, <2>3, AnswerOnward DEF CheckChild
  <2> QED
    BY <2>2, <2>3
<1>5. CASE BeginUpsert(q)
  <2> DEFINE rows == requests[q].rows \cup ({m} \ repoObjects[requests[q].repo])
  <2>1. w # Idle /\ w \in RequestRow /\ BlobRefs[m] \in SUBSET Digest /\ At(q, "children")
    BY <1>1, <1>5 DEF BeginUpsert, Checked, PutSteps
  <2>2. Change(q, "insert", BlobRefs[m], rows, w.untag, w.charge)
    BY <1>5 DEF BeginUpsert, InsertRow, Change
  <2>3. rows \in SUBSET Digest
    BY <2>1, HasColumns
  <2> HIDE DEF rows
  <2>4. w.untag \in SUBSET Tag /\ w.charge \in BOOLEAN /\ RequestsOK
    BY <2>1, HasColumns DEF IInv
  <2>5. Edited(q, "insert", BlobRefs[m], rows, w.untag, w.charge)
    BY <2>1, <2>2, <2>3, <2>4, Edits DEF PutSteps
  <2> QED
    BY <2>1, <2>5, EditedOnward DEF Follows, At
<1>6. CASE RegistryGone(q) \/ CommitUpsert(q)
  BY <1>6, AnswerOnward DEF RegistryGone, CommitUpsert
<1> QED
  BY <1>2, <1>3, <1>4, <1>5, <1>6

\* Steps of a delete up to its sweeps.
LEMMA DeleteOnward ==
    ASSUME IInv, NEW q \in Request,
           GuardDelete(q) \/ CheckPresent(q) \/ DeleteTags(q) \/ DeleteRow(q)
    PROVE  Others(q) /\ Onward(q)
<1> DEFINE w == requests[q]
<1>1. ASSUME NEW step \in DeleteSteps, At(q, step)
      PROVE  w # Idle /\ w \in RequestRow
  BY <1>1, HasRequest DEF DeleteSteps
<1>2. ASSUME NEW step, NEW next \in DeleteSteps, At(q, step), step \in DeleteSteps,
             Goto(q, next), <<step, next>> \in Follows
      PROVE  Others(q) /\ Onward(q)
  <2>1. Change(q, next, w.todo, w.rows, w.untag, w.charge)
    BY <1>2 DEF Goto, Change
  <2>2. Edited(q, next, w.todo, w.rows, w.untag, w.charge)
    BY <1>1, <1>2, <2>1, HasColumns, Edits DEF IInv
  <2> QED
    BY <1>2, <2>2, EditedOnward DEF At
<1>3. CASE GuardDelete(q)
  BY <1>2, <1>3, AnswerOnward DEF GuardDelete, DeleteSteps, Follows
<1>4. CASE CheckPresent(q)
  BY <1>2, <1>4, AnswerOnward DEF CheckPresent, DeleteSteps, Follows
<1>5. CASE DeleteTags(q)
  <2> DEFINE U == {t \in Tag : tags[requests[q].repo][t] = requests[q].digest}
  <2>1. w # Idle /\ w \in RequestRow /\ At(q, "untag") /\ U \in SUBSET Tag
    BY <1>1, <1>5 DEF DeleteTags, DeleteSteps
  <2>2. Change(q, "delete", w.todo, w.rows, U, w.charge)
    BY <1>5 DEF DeleteTags, Change
  <2> HIDE DEF U
  <2>3. Edited(q, "delete", w.todo, w.rows, U, w.charge)
    BY <2>1, <2>2, HasColumns, Edits DEF IInv, DeleteSteps
  <2> QED
    BY <2>1, <2>3, EditedOnward DEF Follows, At
<1>6. CASE DeleteRow(q)
  <2> DEFINE rows == {requests[q].digest} \cap repoObjects[requests[q].repo]
  <2>1. w # Idle /\ w \in RequestRow /\ At(q, "delete")
    BY <1>1, <1>6 DEF DeleteRow, DeleteSteps
  <2>2. rows \in SUBSET Digest
    BY <2>1, HasColumns
  <2>3. Change(q, "sweep", w.todo, rows, w.untag, w.charge)
    BY <1>6 DEF DeleteRow, Change
  <2> HIDE DEF rows
  <2>4. Edited(q, "sweep", w.todo, rows, w.untag, w.charge)
    BY <2>1, <2>2, <2>3, HasColumns, Edits DEF IInv, DeleteSteps
  <2> QED
    BY <2>1, <2>4, EditedOnward DEF Follows, At
<1> QED
  BY <1>3, <1>4, <1>5, <1>6

\* From its sweeps to its credits.
LEMMA SweepOnward ==
    ASSUME IInv, NEW q \in Request,
           \/ SweepChildren(q) \/ SweepBlobs(q) \/ FindTenantOrphans(q) \/ CommitDelete(q)
           \/ \E b \in Blob : EmitCredit(q, b)
    PROVE  Others(q) /\ Onward(q)
<1> DEFINE w == requests[q]
<1>1. CASE SweepChildren(q)
  <2>1. At(q, "sweep") /\ ChildrenToSweep(q) \in SUBSET Digest
    BY <1>1, ChildrenAreManifests DEF SweepChildren, Sweep
  <2>2. Edited(q, "blobs", ChildrenToSweep(q), w.rows \cup ChildrenToSweep(q), w.untag, w.charge)
    BY <1>1, <2>1, SweepAfter DEF SweepChildren, DeleteSteps
  <2> QED
    BY <2>1, <2>2, EditedOnward DEF Follows, At
<1>2. CASE SweepBlobs(q)
  <2> DEFINE next == IF BlobsToSweep(q) = {} THEN "leave" ELSE "tenants"
  <2>1. At(q, "blobs")
    BY <1>2 DEF SweepBlobs, Sweep
  <2>2. BlobsToSweep(q) \in SUBSET Digest
    BY <2>1, HasRequest, HasColumns DEF BlobsToSweep, OrphanBlobs, IInv, Tables, TypeOK
  <2>3. Sweep(q, "blobs", BlobsToSweep(q), next)
    BY <1>2 DEF SweepBlobs
  <2>4. next \in DeleteSteps /\ <<"blobs", next>> \in Follows
    BY DEF DeleteSteps, Follows
  <2> HIDE DEF next
  <2>5. Edited(q, next, BlobsToSweep(q), w.rows \cup BlobsToSweep(q), w.untag, w.charge)
    BY <2>2, <2>3, <2>4, SweepAfter DEF DeleteSteps
  <2> QED
    BY <2>1, <2>4, <2>5, EditedOnward DEF At
<1>3. CASE FindTenantOrphans(q)
  <2> DEFINE O == OrphanedAtTenant(TenantOfRepo(w.repo), w.repo, w.todo)
  <2>1. w # Idle /\ w \in RequestRow /\ At(q, "tenants")
    BY <1>3, HasRequest DEF FindTenantOrphans
  <2>2. O \in SUBSET Digest
    BY <2>1, HasColumns DEF OrphanedAtTenant
  <2>3. Change(q, "leave", O, w.rows, w.untag, w.charge)
    BY <1>3 DEF FindTenantOrphans, Change
  <2> HIDE DEF O
  <2>4. Edited(q, "leave", O, w.rows, w.untag, w.charge)
    BY <2>1, <2>2, <2>3, HasColumns, Edits DEF IInv, DeleteSteps
  <2> QED
    BY <2>1, <2>4, EditedOnward DEF Follows, At
<1>4. CASE CommitDelete(q) /\ w.todo # {}
  <2>1. w # Idle /\ w \in RequestRow /\ At(q, "leave")
    BY <1>4, HasRequest DEF CommitDelete
  <2>2. Change(q, "credit", w.todo, w.rows, w.untag, w.charge)
    BY <1>4 DEF CommitDelete, Goto, Change
  <2>3. Edited(q, "credit", w.todo, w.rows, w.untag, w.charge)
    BY <2>1, <2>2, HasColumns, Edits DEF IInv
  <2> QED
    BY <2>1, <2>3, EditedOnward DEF Follows, At
<1>5. CASE CommitDelete(q) /\ w.todo = {}
  BY <1>5, AnswerOnward DEF CommitDelete
<1>6. ASSUME NEW b \in Blob, EmitCredit(q, b) PROVE Others(q) /\ Onward(q)
  <2>1. w # Idle /\ w \in RequestRow /\ At(q, "credit")
    BY <1>6, HasRequest DEF EmitCredit
  <2>2. CASE w.todo # {b}
    <3>1. Change(q, "credit", w.todo \ {b}, w.rows, w.untag, w.charge)
      BY <1>6, <2>1, <2>2 DEF EmitCredit, Change, At
    <3>2. Edited(q, "credit", w.todo \ {b}, w.rows, w.untag, w.charge)
      BY <2>1, <3>1, HasColumns, Edits DEF IInv
    <3> QED
      BY <1>6, <2>1, <3>2, EditedOnward DEF EmitCredit, At
  <2>3. CASE w.todo = {b}
    BY <1>6, <2>3, AnswerOnward DEF EmitCredit
  <2> QED
    BY <2>2, <2>3
<1> QED
  BY <1>1, <1>2, <1>3, <1>4, <1>5, <1>6

\* Steps of an upload.
LEMMA UploadOnward ==
    ASSUME IInv, NEW q \in Request, CheckOwner(q) \/ CompleteUpload(q)
    PROVE  Others(q) /\ Onward(q)
<1> DEFINE w == requests[q]
<1>1. CASE CheckOwner(q)
  <2>1. w # Idle /\ w \in RequestRow /\ At(q, "owner")
    BY <1>1, HasRequest DEF CheckOwner
  <2>2. PICK c \in BOOLEAN : SetCharge(q, c)
    BY <1>1 DEF CheckOwner, MustCharge
  <2>3. Change(q, "store", w.todo, w.rows, w.untag, c)
    BY <2>2 DEF SetCharge, Change
  <2>4. Edited(q, "store", w.todo, w.rows, w.untag, c)
    BY <2>1, <2>3, HasColumns, Edits DEF IInv
  <2> QED
    BY <2>1, <2>4, EditedOnward DEF Follows, At
<1>2. CASE CompleteUpload(q)
  BY <1>2, AnswerOnward DEF CompleteUpload
<1> QED
  BY <1>1, <1>2

\* One handler moves at a time, and only forward.
LEMMA HandlerOnward ==
    ASSUME IInv, NEW q \in Request, Handle(q)
    PROVE  Others(q) /\ Onward(q)
  BY PushOnward, DeleteOnward, SweepOnward, UploadOnward DEF Handle

\* A handler that has a request goes forward until it answers.
HandlersAdvance ==
    [][\A q \in Request : requests[q] # Idle /\ requests'[q] # requests[q] => Onward(q)]_serverVars

\* No step of a handler repeats itself, and none goes back, whatever the others do: a
\* request takes as many steps as there are on its way and digests in its body.
THEOREM EveryStepAdvances == ServerSpec => HandlersAdvance
<1>1. ASSUME IInv, ServerNext, NEW q \in Request, requests[q] # Idle, requests'[q] # requests[q]
      PROVE  Onward(q)
  <2>1. ASSUME NEW p \in Request, Handle(p) PROVE Onward(q)
    BY <1>1, <2>1, HandlerOnward DEF Others
  <2>2. ASSUME NEW p \in Request, Fail(p) PROVE Onward(q)
    BY <1>1, <2>2, AnswerOnward DEF Fail, Others
  <2>3. ASSUME NEW p \in Request, Arrive(p) PROVE requests[p] = Idle /\ Others(p)
    <3>1. requests[p] = Idle /\ \E w : requests' = [requests EXCEPT ![p] = w]
      BY <2>3 DEF Arrive, PutManifest, DeleteManifest, UploadBlob, Begin
    <3> QED
      BY <1>1, <3>1, RowAfter DEF IInv
  <2>4. (\E p \in Request : Arrive(p) \/ Handle(p) \/ Fail(p)) \/ requests' = requests
    <3>1. CASE HandlersNext
      BY <3>1 DEF HandlersNext, UploadElsewhere, Untag
    <3>2. Dropping => requests' = requests
      BY DEF Dropping
    <3>3. ASSUME NEW R, Drop(R) PROVE requests' = requests
      BY <3>3 DEF Drop
    <3> QED
      BY <1>1, <3>1, <3>2, <3>3, DropsOnly DEF ServerNext
  <2> QED
    BY <1>1, <2>1, <2>2, <2>3, <2>4 DEF Others
<1>2. IInv /\ [ServerNext]_serverVars =>
         [\A q \in Request : requests[q] # Idle /\ requests'[q] # requests[q] => Onward(q)]_serverVars
  BY <1>1
<1> QED
  BY <1>2, Invariant, PTL DEF ServerSpec, HandlersAdvance

-----------------------------------------------------------------------------
(* Nobody waits in a circle *)

\* Handlers wait at these steps; for a push only those about to begin their transaction.
LEMMA Needs ==
    ASSUME NEW q, NEW p, WaitsForHandler(q, p)
    PROVE  /\ requests[q].step \in {"children", "insert", "untag", "delete", "sweep", "blobs"}
           /\ \/ At(q, "children") /\ At(p, "insert")
              \/ Deleting(p) /\ NeedsRows(q) \cap requests[p].rows # {}
              \/ Deleting(p) /\ NeedsTags(q) \cap requests[p].untag # {}
  BY DEF WaitsForHandler, NeedsRows, NeedsTags, Checked, At

\* Deletes that wait for blobs wait only for deletes that have theirs, which wait for
\* nobody; those that wait for children are ordered by what refers to what; and nobody
\* else has what somebody needs.
LEMMA CirclesEnd ==
    ASSUME IInv, NEW W \in SUBSET Request, \A q \in W : \E p \in W : WaitsForHandler(q, p)
    PROVE  W = {}
<1>1. ASSUME NEW q \in W
      PROVE  /\ requests[q].step \in {"children", "insert", "untag", "delete", "sweep", "blobs"}
             /\ requests[q] \in RequestRow
             /\ Deleting(q) => requests[q].digest \in Manifest
             /\ Taken(requests[q].step, requests[q].digest, requests[q].rows, requests[q].untag)
  <2>1. requests[q].step \in {"children", "insert", "untag", "delete", "sweep", "blobs"}
    BY Needs
  <2>2. requests[q] \in RequestRow
    BY <2>1, HasRequest DEF At
  <2> QED
    BY <2>1, <2>2, HoldsOf DEF OtherKnows
<1>2. ASSUME NEW q \in W PROVE ~At(q, "blobs")
  <2> SUFFICES ASSUME At(q, "blobs") PROVE FALSE
    OBVIOUS
  <2>1. PICK p \in W : WaitsForHandler(q, p)
    OBVIOUS
  <2>2. Deleting(p) /\ BlobsToSweep(q) \cap requests[p].rows # {}
    BY <2>1, Needs DEF NeedsRows, NeedsTags, Checked, At
  <2>3. BlobsToSweep(q) \subseteq Blob
    BY <1>1, HasColumns DEF BlobsToSweep, OrphanBlobs, IInv, Tables, TypeOK, IndexConsistent
  <2>4. requests[p].rows \subseteq Manifest
    BY <1>1, <2>2 DEF Taken, Deleting, DeleteSteps
  <2> QED
    BY <2>2, <2>3, <2>4, KindsAssumption
<1> DEFINE S == {q \in W : At(q, "sweep")}
           D == {requests[q].digest : q \in S}
<1>3. ASSUME NEW q \in S
      PROVE  \E p \in S : requests[p].digest \in Refs(requests[q].digest) \cup {Subject[requests[q].digest]}
  <2>1. PICK p \in W : WaitsForHandler(q, p)
    OBVIOUS
  <2>2. PICK c \in ChildrenToSweep(q) : Deleting(p) /\ c \in requests[p].rows
    BY <2>1, Needs DEF NeedsRows, NeedsTags, Checked, At
  <2>3. At(p, "sweep") /\ c = requests[p].digest
    BY <1>1, <1>2, <2>2 DEF Taken, Deleting, DeleteSteps, At
  <2>4. <<requests[q].digest, c>> \in graph
    BY <2>2 DEF ChildrenToSweep, OrphanChildManifests
  <2>5. c \in Refs(requests[q].digest) \cup {Subject[requests[q].digest]}
    BY <2>4 DEF IInv, Tables, TypeOK, IndexConsistent
  <2> QED
    BY <2>3, <2>5
<1>4. S = {}
  <2>1. D \subseteq Manifest
    BY <1>1 DEF Deleting, DeleteSteps, At
  <2>2. IsFiniteSet(D)
    <3>1. IsFiniteSet(S)
      BY ServerAssumption, FS_Subset
    <3>2. [q \in S |-> requests[q].digest] \in Surjection(S, D)
      BY DEF Surjection
    <3> QED
      BY <3>1, <3>2, FS_Surjection
  <2>3. ASSUME NEW m \in D PROVE (Refs(m) \cup {Subject[m]}) \cap D # {}
    <3>1. PICK q \in S : m = requests[q].digest
      OBVIOUS
    <3>2. PICK p \in S : requests[p].digest \in Refs(m) \cup {Subject[m]}
      BY <1>3, <3>1
    <3>3. requests[p].digest \in D
      OBVIOUS
    <3> QED
      BY <3>2, <3>3
  <2>4. D = {}
    <3> HIDE DEF D
    <3> QED
      BY <2>1, <2>2, <2>3, HashesAssumption
  <2> QED
    BY <2>4
<1>5. ASSUME NEW p \in W, Deleting(p) PROVE requests[p].rows = {} /\ requests[p].step \in {"untag", "delete"}
  BY <1>1, <1>2, <1>4, <1>5 DEF Taken, Deleting, DeleteSteps, At
<1>6. ASSUME NEW q \in W PROVE ~At(q, "delete")
  BY <1>5, Needs DEF NeedsRows, NeedsTags, Checked, At
<1>7. ASSUME NEW p \in W, Deleting(p) PROVE requests[p].rows = {} /\ requests[p].untag = {}
  BY <1>1, <1>5, <1>6, <1>7 DEF Taken, At
<1>8. ASSUME NEW q \in W PROVE At(q, "children") /\ \E p \in W : At(p, "insert")
  BY <1>7, Needs
<1> QED
  BY <1>8 DEF At

\* What a drop has taken is in its repositories, which no open push is in; it takes
\* nothing in them before it has them all, and nothing makes them more.
DropOK(x) ==
    LET w == drops[x]
    IN  /\ w.registry # {} => \A r \in w.repos : RegistryOf[r] \in w.registry
        /\ \A r \in Repo, d \in Digest : <<r, d>> \in w.rows => r \in w.repos
        /\ \A r \in Repo, t \in Tag : <<r, t>> \in w.tags => r \in w.repos
        /\ w.rows # {} \/ w.tags # {} => Unlocked(x) = {}
        /\ \A p \in Request : At(p, "insert") =>
              /\ requests[p].repo \notin w.repos
              /\ RegistryOf[requests[p].repo] \in w.registry => requests[p].repo \in repositories

DropRow == [registry: SUBSET Registry, repos: SUBSET Repo,
            tags: SUBSET (Repo \X Tag), rows: SUBSET (Repo \X Digest)]

\* No two drops take the same.
Disjoint(x, y) ==
    x # y => /\ drops[x].repos \cap drops[y].repos = {}
             /\ drops[x].registry \cap drops[y].registry = {}

DropsOK ==
    /\ drops \in [Dropper -> DropRow]
    /\ \A x, y \in Dropper : Disjoint(x, y)
    /\ \A x \in Dropper : DropOK(x)

\* A drop that does not move is as it was: what is new is not in its registry.
LEMMA DropStays ==
    ASSUME NEW x \in Dropper, DropOK(x), drops'[x] = drops[x],
           \A r \in repositories' \ repositories : RegistryOf[r] \notin drops[x].registry,
           \A p \in Request : At(p, "insert")' =>
              /\ requests'[p].repo \notin drops[x].repos
              /\ RegistryOf[requests'[p].repo] \in drops[x].registry => requests'[p].repo \in repositories'
    PROVE  DropOK(x)'
<1>1. Unlocked(x)' \subseteq Unlocked(x)
  BY DEF Unlocked
<1> QED
  BY <1>1 DEF DropOK

\* Pushes begin where no drop is.
LEMMA HandlersKeepDrops ==
    ASSUME IInv, DropsOK, HandlersNext, UNCHANGED drops
    PROVE  DropsOK'
<1>1. \/ UNCHANGED <<repositories>>
      \/ \E q \in Request : At(q, "insert") /\ repositories' = repositories \cup {requests[q].repo}
  <2>1. ASSUME NEW q \in Request, Arrive(q) PROVE UNCHANGED repositories
    BY <2>1, Zenon DEF Arrive, PutManifest, DeleteManifest, UploadBlob, vars
  <2>2. ASSUME NEW q \in Request, Handle(q) PROVE UNCHANGED repositories \/ CommitUpsert(q)
    BY <2>2 DEF Handle, TrackBlob, UpsertObjectBlob, InsertBlob, InsertRow, EmitCredit, CheckChild,
       BeginUpsert, RegistryGone, GuardDelete, CheckPresent, DeleteTags, DeleteRow, SweepChildren,
       SweepBlobs, Sweep, FindTenantOrphans, CheckOwner, CompleteUpload, CommitDelete, vars
  <2>3. ASSUME NEW q \in Request, CommitUpsert(q)
        PROVE  At(q, "insert") /\ repositories' = repositories \cup {requests[q].repo}
    BY <2>3 DEF CommitUpsert
  <2> QED
    BY <2>1, <2>2, <2>3 DEF HandlersNext, Fail, UploadElsewhere, UpsertObjectBlob, Untag,
       DeleteManifestReference, vars
<1>2. ASSUME NEW p \in Request, At(p, "insert")'
      PROVE  requests'[p].repo = requests[p].repo /\ (At(p, "insert") \/ BeginUpsert(p))
  <2>1. requests'[p] # Idle
    BY <1>2 DEF At, Idle
  <2>2. CASE requests'[p] = requests[p]
    BY <1>2, <2>2 DEF At
  <2>3. CASE requests'[p] # requests[p]
    <3>1. ASSUME NEW q \in Request, Arrive(q) PROVE FALSE
      <4>1. ASSUME NEW step, NEW r, NEW d, NEW t, NEW D, Begin(q, step, r, d, t, D), step # "insert"
            PROVE  \E w : requests' = [requests EXCEPT ![q] = w] /\ w.step # "insert"
        <5> DEFINE w == [step |-> step, repo |-> r, digest |-> d, tag |-> t, todo |-> D,
                         rows |-> {}, untag |-> {}, charge |-> FALSE]
        <5>1. requests' = [requests EXCEPT ![q] = w] /\ w.step # "insert"
          BY <4>1 DEF Begin
        <5> HIDE DEF w
        <5> QED
          BY <5>1
      <4>2. \E w : requests' = [requests EXCEPT ![q] = w] /\ w.step # "insert"
        BY <3>1, <4>1 DEF Arrive, PutManifest, DeleteManifest, UploadBlob
      <4> QED
        BY <1>2, <2>3, <4>2, RowAfter DEF IInv, At, Others
    <3>2. ASSUME NEW q \in Request, Fail(q) PROVE FALSE
      BY <2>1, <2>3, <3>2, ReplyAfter DEF Fail, IInv, Others
    <3>3. ASSUME NEW q \in Request, Handle(q)
          PROVE  requests'[p].repo = requests[p].repo /\ (At(p, "insert") \/ BeginUpsert(p))
      <4>1. q = p /\ Onward(p)
        BY <2>3, <3>3, HandlerOnward DEF Others
      <4>2. requests'[p].repo = requests[p].repo /\ (At(p, "insert") \/ At(p, "children"))
        BY <1>2, <2>1, <4>1 DEF Onward, Follows, At
      <4>3. CASE At(p, "children")
        <5>1. \A c \in Digest : ~CheckChild(p, c)
          <6> SUFFICES ASSUME NEW c \in Digest, requests' = [requests EXCEPT ![p].todo = @ \ {c}]
                       PROVE  FALSE
            BY <2>1, ReplyAfter DEF CheckChild, IInv
          <6>1. requests[p] # Idle /\ requests[p] \in RequestRow
            BY <4>3, HasRequest
          <6>2. Change(p, "children", requests[p].todo \ {c}, requests[p].rows, requests[p].untag,
                       requests[p].charge)
            BY <4>3 DEF Change, At
          <6>3. requests'[p].step = "children"
            BY <6>1, <6>2, HasColumns, Edits DEF IInv, Edited, PutSteps
          <6> QED
            BY <1>2, <6>3 DEF At
        <5>2. ~RegistryGone(p)
          BY <2>1, ReplyAfter DEF RegistryGone, IInv
        <5> QED
          BY <3>3, <4>1, <4>2, <4>3, <5>1, <5>2 DEF Handle, TrackBlob, InsertBlob, EmitCredit,
             CommitUpsert, GuardDelete, CheckPresent, DeleteTags, DeleteRow, SweepChildren,
             SweepBlobs, Sweep, FindTenantOrphans, CommitDelete, CheckOwner, CompleteUpload, At
      <4> QED
        BY <4>2, <4>3
    <3> QED
      BY <2>3, <3>1, <3>2, <3>3 DEF HandlersNext, UploadElsewhere, Untag
  <2> QED
    BY <2>2, <2>3
<1>3. ASSUME NEW x \in Dropper PROVE DropOK(x)'
  <2>1. DropOK(x) /\ drops'[x] = drops[x]
    BY DEF DropsOK
  <2>2. \A r \in repositories' \ repositories : RegistryOf[r] \notin drops[x].registry
    BY <1>1, <2>1 DEF DropOK
  <2>3. ASSUME NEW p \in Request, At(p, "insert")'
        PROVE  /\ requests'[p].repo \notin drops[x].repos
               /\ RegistryOf[requests'[p].repo] \in drops[x].registry
                     => requests'[p].repo \in repositories'
    <3>1. CASE At(p, "insert")
      BY <1>1, <1>2, <2>1, <2>3, <3>1 DEF DropOK
    <3>2. CASE BeginUpsert(p)
      BY <1>1, <1>2, <2>3, <3>2 DEF BeginUpsert, RepositoryFree, RegistryGoing
    <3> QED
      BY <1>2, <2>3, <3>1, <3>2
  <2> QED
    BY <2>1, <2>2, <2>3, DropStays
<1> QED
  BY <1>3 DEF DropsOK, Disjoint

\* The row of a drop that moves.
LEMMA DropMoves ==
    ASSUME drops \in [Dropper -> DropRow], NEW x \in Dropper, NEW w,
           drops' = [drops EXCEPT ![x] = w]
    PROVE  drops'[x] = w /\ \A y \in Dropper \ {x} : drops'[y] = drops[y]
  OBVIOUS

\* What a drop has at the beginning.
LEMMA BeginsWith ==
    ASSUME drops \in [Dropper -> DropRow], NEW x \in Dropper, NEW G, NEW R, BeginDrop(x, G, R)
    PROVE  drops' = [drops EXCEPT ![x] = [registry |-> G, repos |-> R, tags |-> {}, rows |-> {}]]
<1>1. PICK v : v = drops[x]
  OBVIOUS
<1>2. v = [registry |-> {}, repos |-> {}, tags |-> {}, rows |-> {}]
  BY <1>1 DEF BeginDrop, NotDropping
<1>3. PICK u : u = [v EXCEPT !.registry = G]
  OBVIOUS
<1>4. u = [registry |-> G, repos |-> {}, tags |-> {}, rows |-> {}]
  BY <1>2, <1>3
<1>5. [u EXCEPT !.repos = R] = [registry |-> G, repos |-> R, tags |-> {}, rows |-> {}]
  BY <1>4
<1>6. drops' = [drops EXCEPT ![x] = [v EXCEPT !.registry = G, !.repos = R]]
  BY <1>1 DEF BeginDrop
<1>7. [v EXCEPT !.registry = G, !.repos = R] = [u EXCEPT !.repos = R]
  BY <1>3
<1> QED
  BY <1>5, <1>6, <1>7

\* And after it has taken more.
LEMMA TakesMore ==
    ASSUME drops \in [Dropper -> DropRow], NEW x \in Dropper, NEW R, NEW T, NEW D, Take(x, R, T, D)
    PROVE  drops' = [drops EXCEPT ![x] = [registry |-> drops[x].registry,
              repos |-> drops[x].repos \cup R, tags |-> drops[x].tags \cup T,
              rows |-> drops[x].rows \cup D]]
<1>1. PICK v \in DropRow : v = drops[x]
  OBVIOUS
<1>2. PICK r, t, d : r = v.repos \cup R /\ t = v.tags \cup T /\ d = v.rows \cup D
  OBVIOUS
<1>3. PICK u : u = [v EXCEPT !.repos = r]
  OBVIOUS
<1>4. u = [registry |-> v.registry, repos |-> r, tags |-> v.tags, rows |-> v.rows]
  BY <1>3 DEF DropRow
<1>5. PICK s : s = [u EXCEPT !.tags = t]
  OBVIOUS
<1>6. s = [registry |-> v.registry, repos |-> r, tags |-> t, rows |-> v.rows]
  BY <1>4, <1>5
<1>7. [s EXCEPT !.rows = d] = [registry |-> v.registry, repos |-> r, tags |-> t, rows |-> d]
  BY <1>6
<1>8. drops' = [drops EXCEPT ![x] = [v EXCEPT !.repos = r, !.tags = t, !.rows = d]]
  BY <1>1, <1>2 DEF Take
<1>9. [v EXCEPT !.repos = r, !.tags = t, !.rows = d] = [s EXCEPT !.rows = d]
  BY <1>3, <1>5
<1> QED
  BY <1>1, <1>2, <1>7, <1>8, <1>9

\* A row of a drop keeps to its domain.
LEMMA DropTyped ==
    ASSUME drops \in [Dropper -> DropRow], NEW x \in Dropper, NEW w \in DropRow,
           drops' = [drops EXCEPT ![x] = w]
    PROVE  drops' \in [Dropper -> DropRow]
  OBVIOUS

\* One drop moves; the handlers stay, and no repository is new.
LEMMA OneDrops ==
    ASSUME DropsOK, NEW x \in Dropper, NEW w \in DropRow, drops' = [drops EXCEPT ![x] = w],
           UNCHANGED <<repositories, requests>>,
           \A y \in Dropper \ {x} : /\ w.repos \cap drops[y].repos = {}
                                    /\ w.registry \cap drops[y].registry = {},
           DropOK(x)'
    PROVE  DropsOK'
<1>1. drops'[x] = w /\ (\A y \in Dropper \ {x} : drops'[y] = drops[y])
      /\ drops' \in [Dropper -> DropRow]
  BY DropMoves, DropTyped DEF DropsOK
<1>2. ASSUME NEW y \in Dropper \ {x} PROVE DropOK(y)'
  BY <1>1, DropStays DEF DropsOK, DropOK, At
<1>3. ASSUME NEW y \in Dropper, NEW z \in Dropper PROVE Disjoint(y, z)'
  BY <1>1 DEF DropsOK, Disjoint
<1> QED
  BY <1>1, <1>2, <1>3 DEF DropsOK

\* A drop begins where no push is, and with what no other drop has.
LEMMA BeginsApart ==
    ASSUME DropsOK, NEW x \in Dropper, NEW G \in SUBSET Registry, NEW R \in SUBSET Repo,
           BeginDrop(x, G, R), G = {} \/ R = {},
           \A y \in Dropper : R \cap drops[y].repos = {} /\ G \cap drops[y].registry = {},
           \A p \in Request : At(p, "insert") =>
              /\ requests[p].repo \notin R
              /\ RegistryOf[requests[p].repo] \in G => requests[p].repo \in repositories
    PROVE  DropsOK'
<1> DEFINE w == [registry |-> G, repos |-> R, tags |-> {}, rows |-> {}]
<1> UNCHANGED <<repositories, requests>>
  BY Zenon DEF BeginDrop, vars
<1>1. drops' = [drops EXCEPT ![x] = w] /\ w \in DropRow
  BY BeginsWith DEF DropsOK, DropRow
<1>2. drops'[x] = w
  BY <1>1, DropMoves DEF DropsOK
<1>3. DropOK(x)'
  BY <1>1, <1>2 DEF DropOK, At
<1> HIDE DEF w
<1>4. w.repos = R /\ w.registry = G
  BY DEF w
<1> QED
  BY <1>1, <1>3, <1>4, OneDrops

\* Taking more, in order.
LEMMA TakesInOrder ==
    ASSUME DropsOK, NEW x \in Dropper, NEW R \in SUBSET Repo, NEW T \in SUBSET (Repo \X Tag),
           NEW D \in SUBSET (Repo \X Digest), Take(x, R, T, D),
           R \subseteq Unlocked(x), \A r \in R : RepositoryFree(r),
           T # {} \/ D # {} => Unlocked(x) = {},
           \A r \in Repo, t \in Tag : <<r, t>> \in T => r \in drops[x].repos,
           \A r \in Repo, d \in Digest : <<r, d>> \in D => r \in drops[x].repos
    PROVE  DropsOK'
<1> DEFINE v == drops[x]
           w == [registry |-> v.registry, repos |-> v.repos \cup R, tags |-> v.tags \cup T,
                 rows |-> v.rows \cup D]
<1>1. v \in DropRow /\ DropOK(x)
  BY DEF DropsOK
<1>2. drops' = [drops EXCEPT ![x] = w] /\ UNCHANGED <<repositories, requests>>
  BY TakesMore DEF DropsOK, Take, vars
<1>3. w \in DropRow
  BY <1>1 DEF DropRow
<1>4. drops'[x] = w
  BY <1>2, DropMoves DEF DropsOK
<1>5. Unlocked(x)' \subseteq Unlocked(x)
  BY <1>2, <1>4 DEF Unlocked
<1>6. \A r \in R : RegistryOf[r] \in v.registry
  BY DEF Unlocked
<1>7. \A p \in Request : At(p, "insert") => requests[p].repo \notin R
  BY DEF RepositoryFree, PushOpen
<1>8. \A y \in Dropper \ {x} : w.repos \cap drops[y].repos = {} /\ w.registry \cap drops[y].registry = {}
  BY DEF DropsOK, Disjoint, RepositoryFree
<1>9. DropOK(x)'
  <2>1. /\ w.registry # {} => \A r \in w.repos : RegistryOf[r] \in w.registry
        /\ \A r \in Repo, d \in Digest : <<r, d>> \in w.rows => r \in w.repos
        /\ \A r \in Repo, t \in Tag : <<r, t>> \in w.tags => r \in w.repos
    BY <1>1, <1>6 DEF DropOK
  <2>2. w.rows # {} \/ w.tags # {} => Unlocked(x) = {}
    BY <1>1 DEF DropOK
  <2>3. \A p \in Request : At(p, "insert") =>
           /\ requests[p].repo \notin w.repos
           /\ RegistryOf[requests[p].repo] \in w.registry => requests[p].repo \in repositories
    BY <1>1, <1>7 DEF DropOK
  <2> HIDE DEF w
  <2> QED
    BY <1>2, <1>4, <1>5, <2>1, <2>2, <2>3 DEF DropOK, At
<1> HIDE DEF w
<1> QED
  BY <1>2, <1>3, <1>8, <1>9, OneDrops

\* A drop that has nothing.
LEMMA NothingTaken ==
    ASSUME NEW x, drops[x] = NotDropping
    PROVE  DropOK(x)
  BY DEF NotDropping, DropOK

\* A drop that ends lets go of everything.
LEMMA DropEnds ==
    ASSUME DropsOK, NEW x \in Dropper, drops' = [drops EXCEPT ![x] = NotDropping],
           UNCHANGED requests, repositories' \subseteq repositories,
           \A r \in repositories \ repositories' :
              r \in drops[x].repos \/ RegistryOf[r] \in drops[x].registry
    PROVE  DropsOK'
<1>1. drops'[x] = NotDropping /\ (\A y \in Dropper \ {x} : drops'[y] = drops[y])
  BY DropMoves DEF DropsOK
<1>2. NotDropping \in DropRow
  BY DEF NotDropping, DropRow
<1>3. drops' \in [Dropper -> DropRow]
  BY <1>2, DropTyped DEF DropsOK
<1>4. DropOK(x)'
  BY <1>1, NothingTaken DEF NotDropping, DropOK, Unlocked
<1>5. ASSUME NEW y \in Dropper \ {x} PROVE DropOK(y)'
  <2>1. DropOK(x) /\ DropOK(y) /\ Disjoint(x, y) /\ drops'[y] = drops[y]
    BY <1>1 DEF DropsOK
  <2>2. ASSUME NEW p \in Request, At(p, "insert")'
        PROVE  /\ requests'[p].repo \notin drops[y].repos
               /\ RegistryOf[requests'[p].repo] \in drops[y].registry
                     => requests'[p].repo \in repositories'
    <3>1. At(p, "insert") /\ requests'[p].repo = requests[p].repo
      BY <2>2 DEF At
    <3> QED
      BY <2>1, <3>1 DEF DropOK, Disjoint
  <2> QED
    BY <2>1, <2>2, DropStays
<1>6. ASSUME NEW y \in Dropper, NEW z \in Dropper PROVE Disjoint(y, z)'
  BY <1>1 DEF DropsOK, Disjoint, NotDropping
<1> QED
  BY <1>3, <1>4, <1>5, <1>6 DEF DropsOK

\* Steps of a drop keep drops apart from each other and from pushes.
LEMMA DropsKeepDrops ==
    ASSUME IInv, DropsOK, NEW x \in Dropper, DropNext(x)
    PROVE  DropsOK'
<1>1. ASSUME NEW g \in Registry, DropRegistry(x, g) PROVE DropsOK'
  <2>1. \A p \in Request : At(p, "insert") /\ RegistryOf[requests[p].repo] \in {g} =>
           requests[p].repo \in repositories
    <3>1. ASSUME NEW p \in Request, At(p, "insert") PROVE requests[p].repo \in Repo
      BY <3>1, HasRequest, HasColumns
    <3> QED
      BY <1>1, <3>1 DEF DropRegistry, PushOpen
  <2> QED
    BY <1>1, <2>1, BeginsApart DEF DropRegistry, RegistryGoing
<1>2. ASSUME NEW r \in Repo, DropRepository(x, r) PROVE DropsOK'
  BY <1>2, BeginsApart DEF DropRepository, RepositoryFree, PushOpen
<1>3. ASSUME NEW r \in Repo, CascadeRepository(x, r) PROVE DropsOK'
  BY <1>3, TakesInOrder DEF CascadeRepository
<1>4. ASSUME NEW r \in Repo, NEW t \in Tag, CascadeTag(x, r, t) PROVE DropsOK'
  <2>1. {<<r, t>>} \in SUBSET (Repo \X Tag) /\ {} \in SUBSET Repo /\ {} \in SUBSET (Repo \X Digest)
    OBVIOUS
  <2> QED
    BY <1>4, <2>1, TakesInOrder DEF CascadeTag
<1>5. ASSUME NEW r \in Repo, NEW d \in Digest, CascadeRow(x, r, d) PROVE DropsOK'
  <2>1. {<<r, d>>} \in SUBSET (Repo \X Digest) /\ {} \in SUBSET Repo /\ {} \in SUBSET (Repo \X Tag)
    OBVIOUS
  <2> QED
    BY <1>5, <2>1, TakesInOrder DEF CascadeRow
<1>6. ASSUME CommitDrop(x) PROVE DropsOK'
  <2>1. drops' = [drops EXCEPT ![x] = NotDropping]
    BY <1>6 DEF CommitDrop
  <2>2. ASSUME NEW g \in drops[x].registry, DeleteRegistryByIDAndOrg(g),
               Drop({r \in Repo : RegistryOf[r] = g})
        PROVE  DropsOK'
    <3>1. UNCHANGED requests /\ repositories' = repositories \ {r \in Repo : RegistryOf[r] = g}
      BY <2>2 DEF DeleteRegistryByIDAndOrg, DropRepositories, Drop
    <3> QED
      BY <2>1, <2>2, <3>1, DropEnds
  <2>3. ASSUME NEW r \in drops[x].repos, DeleteRepositoryByIDAndRegistryID(r), Drop({r})
        PROVE  DropsOK'
    <3>1. UNCHANGED requests /\ repositories' = repositories \ {r}
      BY <2>3 DEF DeleteRepositoryByIDAndRegistryID, DropRepositories, Drop
    <3> QED
      BY <2>1, <2>3, <3>1, DropEnds
  <2> QED
    BY <1>6, <2>2, <2>3, Zenon DEF CommitDrop
<1>7. ASSUME RollBackDrop(x) PROVE DropsOK'
  BY <1>7, DropEnds DEF RollBackDrop, vars
<1> QED
  BY <1>1, <1>2, <1>3, <1>4, <1>5, <1>6, <1>7 DEF DropNext

\* Drops stay apart from each other and from pushes.
LEMMA DropsStayOK == ServerSpec => []DropsOK
<1>1. ServerInit => DropsOK
  <2> SUFFICES ASSUME ServerInit PROVE DropsOK
    OBVIOUS
  <2>1. \A x \in Dropper : drops[x] = NotDropping
    BY DEF ServerInit
  <2>2. drops \in [Dropper -> DropRow]
    BY DEF ServerInit, NotDropping, DropRow
  <2>3. \A p \in Request : ~At(p, "insert")
    BY DEF ServerInit, At, Idle
  <2> QED
    BY <2>1, <2>2, <2>3 DEF DropsOK, Disjoint, DropOK, NotDropping, Unlocked
<1>2. IInv /\ DropsOK /\ [ServerNext]_serverVars => DropsOK'
  <2> SUFFICES ASSUME DropsOK, UNCHANGED serverVars PROVE DropsOK'
    BY HandlersKeepDrops, DropsKeepDrops DEF ServerNext
  <2> QED
    BY DEF serverVars, vars, DropsOK, Disjoint, DropOK, Unlocked, At
<1> QED
  BY <1>1, <1>2, Invariant, PTL DEF ServerSpec

\* Tables, requests, drops and ledger keep to their domains, whatever handlers interleave.
THEOREM ServerTypeCorrect == ServerSpec => []ServerTypeOK
<1>1. IInv /\ DropsOK => ServerTypeOK
  BY DEF IInv, Tables, Books, RequestsOK, RequestRow, DropsOK, DropRow, ServerTypeOK
<1> QED
  BY <1>1, Invariant, DropsStayOK, PTL

\* Deletes wait for each other in no circle: one of those in W waits, outside its
\* repository's deletes, for a drop that has taken what it needs.
LEMMA OneWaitsForDrop ==
    ASSUME IInv, DropsOK, NEW W \in SUBSET (Request \cup Dropper),
           \A a \in W : \E b \in W : WaitsFor(a, b),
           NEW p \in W \cap Request, Deleting(p)
    PROVE  \E q \in W \cap Request, x \in W \cap Dropper :
              /\ Deleting(q) /\ requests[q].repo = requests[p].repo
              /\ WaitsFor(q, x) /\ Unlocked(x) = {} /\ requests[q].repo \in drops[x].repos
<1> DEFINE V == {q \in W \cap Request : Deleting(q) /\ requests[q].repo = requests[p].repo}
<1>1. V \in SUBSET Request /\ V # {}
  OBVIOUS
<1>2. PICK q \in V : \A v \in V : ~WaitsForHandler(q, v)
  BY <1>1, CirclesEnd
<1>3. PICK b \in W : WaitsFor(q, b)
  OBVIOUS
<1>4. requests[q] \in RequestRow /\ ~At(q, "children") /\ ~At(q, "credit") /\ ~At(q, "store")
  <2>1. requests[q] # Idle
    BY <1>2 DEF Deleting, DeleteSteps, Idle
  <2> QED
    BY <1>2, <2>1 DEF IInv, RequestsOK, Deleting, DeleteSteps, At
<1>5. q \notin Dropper
  BY <1>2, ServerAssumption
<1>6. CASE b \in Request
  <2>1. WaitsForHandler(q, b)
    BY <1>3, <1>5, <1>6, ServerAssumption DEF WaitsFor
  <2>2. Deleting(b) /\ requests[b].repo = requests[q].repo
    BY <1>4, <2>1 DEF WaitsForHandler, Checked
  <2> QED
    BY <1>2, <1>6, <2>1, <2>2
<1>7. CASE b \in Dropper
  <2>1. WaitsForDrop(q, b)
    BY <1>2, <1>3, <1>5, <1>7, ServerAssumption DEF WaitsFor
  <2>2. \/ \E d \in NeedsRows(q) : <<requests[q].repo, d>> \in drops[b].rows
        \/ \E t \in NeedsTags(q) : <<requests[q].repo, t>> \in drops[b].tags
    BY <1>4, <2>1 DEF WaitsForDrop, Checked
  <2>3. drops[b] \in DropRow /\ DropOK(b) /\ requests[q].repo \in Repo
    BY <1>4, <1>7, HasColumns DEF DropsOK
  <2>4. ASSUME NEW d, <<requests[q].repo, d>> \in drops[b].rows PROVE d \in Digest
    BY <2>3, <2>4 DEF DropRow
  <2>5. ASSUME NEW t, <<requests[q].repo, t>> \in drops[b].tags PROVE t \in Tag
    BY <2>3, <2>5 DEF DropRow
  <2>6. Unlocked(b) = {} /\ requests[q].repo \in drops[b].repos
    BY <2>2, <2>3, <2>4, <2>5 DEF DropOK
  <2> QED
    BY <1>2, <1>3, <1>7, <2>6
<1> QED
  BY <1>6, <1>7

\* A drop that has all its repositories waits for deletes in them only.
LEMMA DropWaitsForDelete ==
    ASSUME NEW x \in Dropper, Unlocked(x) = {}, NEW b, WaitsFor(x, b)
    PROVE  b \in Request /\ Deleting(b) /\ requests[b].repo \in drops[x].repos
<1>1. x \notin Request
  BY ServerAssumption
<1> QED
  BY <1>1 DEF WaitsFor, DropWaitsFor

\* Without deletes nobody waits for long: open pushes wait for nobody else, drops with
\* repositories to take for pushes, since only they may have those, and the rest for both.
LEMMA CirclesHaveDeletes ==
    ASSUME IInv, DropsOK, NEW W \in SUBSET (Request \cup Dropper),
           \A a \in W : \E b \in W : WaitsFor(a, b),
           \A q \in W \cap Request : ~Deleting(q)
    PROVE  W = {}
<1>1. ASSUME NEW q \in W \cap Request PROVE ~At(q, "insert")
  <2> SUFFICES ASSUME At(q, "insert") PROVE FALSE
    OBVIOUS
  <2>1. PICK b \in W : WaitsFor(q, b)
    OBVIOUS
  <2>2. q \notin Dropper /\ ~Checked(q)
    BY ServerAssumption DEF Checked, At
  <2>3. b \notin Request
    BY <2>1, <2>2, ServerAssumption DEF WaitsFor, WaitsForHandler
  <2>4. b \in Dropper /\ WaitsForDrop(q, b)
    BY <2>1, <2>2, <2>3 DEF WaitsFor
  <2>5. \/ \E d : <<requests[q].repo, d>> \in drops[b].rows
        \/ \E t : <<requests[q].repo, t>> \in drops[b].tags
    BY <2>2, <2>4 DEF WaitsForDrop, At
  <2>6. drops[b] \in DropRow /\ DropOK(b)
    BY <2>4 DEF DropsOK
  <2>7. requests[q].repo \in drops[b].repos
    BY <2>5, <2>6 DEF DropRow, DropOK
  <2> QED
    BY <2>6, <2>7 DEF DropOK
<1>2. ASSUME NEW x \in W \cap Dropper PROVE \E y \in W \cap Dropper : Unlocked(x) \cap drops[y].repos # {}
  <2>1. PICK b \in W : WaitsFor(x, b)
    OBVIOUS
  <2>2. x \notin Request
    BY ServerAssumption
  <2> QED
    BY <1>1, <2>1, <2>2 DEF WaitsFor, DropWaitsFor
<1>3. ASSUME NEW x \in W \cap Dropper PROVE FALSE
  <2>1. PICK y \in W \cap Dropper : Unlocked(x) \cap drops[y].repos # {}
    BY <1>2
  <2>2. PICK r : r \in Unlocked(x) \cap drops[y].repos
    BY <2>1
  <2>3. Unlocked(y) # {}
    BY <1>2
  <2>4. drops[y].registry # {}
    BY <2>3 DEF Unlocked
  <2>5. RegistryOf[r] \in drops[y].registry
    BY <2>2, <2>4 DEF DropsOK, DropOK
  <2>6. x = y
    BY <2>2, <2>5 DEF DropsOK, Disjoint, Unlocked
  <2> QED
    BY <2>2, <2>6 DEF Unlocked
<1>4. ASSUME NEW q \in W \cap Request PROVE FALSE
  <2>1. PICK b \in W : WaitsFor(q, b)
    OBVIOUS
  <2>2. b \in Request /\ q \notin Dropper
    BY <1>3, ServerAssumption
  <2> QED
    BY <1>1, <2>1, <2>2, ServerAssumption DEF WaitsFor, WaitsForHandler
<1> QED
  BY <1>3, <1>4

\* Whoever waits in a circle with any number of handlers and drops, there is a drop in it
\* and a delete in a repository that it drops which waits for it, and one it waits for:
\* PostgreSQL has no other deadlock to break.
THEOREM NoDeadlock == ServerSpec => []NoCircularWait
<1>1. ASSUME IInv, DropsOK, NEW W \in SUBSET (Request \cup Dropper), W # {},
             \A a \in W : \E b \in W : WaitsFor(a, b)
      PROVE  \E x \in W \cap Dropper, p, q \in W \cap Request :
                /\ Deleting(p) /\ Deleting(q)
                /\ requests[p].repo = requests[q].repo /\ requests[p].repo \in drops[x].repos
                /\ WaitsFor(x, p) /\ WaitsFor(q, x)
  <2>1. ASSUME NEW o \in W \cap Request, Deleting(o)
        PROVE  \E q \in W \cap Request, x \in W \cap Dropper :
                  /\ Deleting(q) /\ requests[q].repo = requests[o].repo
                  /\ WaitsFor(q, x) /\ Unlocked(x) = {} /\ requests[q].repo \in drops[x].repos
    BY <1>1, <2>1, OneWaitsForDrop
  <2>2. PICK x \in W \cap Dropper : Unlocked(x) = {}
    BY <1>1, <2>1, CirclesHaveDeletes
  <2>3. PICK p \in W : WaitsFor(x, p)
    BY <1>1
  <2>4. p \in W \cap Request /\ Deleting(p) /\ requests[p].repo \in drops[x].repos
    BY <2>2, <2>3, DropWaitsForDelete
  <2>5. PICK q \in W \cap Request, y \in W \cap Dropper :
           /\ Deleting(q) /\ requests[q].repo = requests[p].repo
           /\ WaitsFor(q, y) /\ Unlocked(y) = {} /\ requests[q].repo \in drops[y].repos
    BY <2>1, <2>4
  <2>6. y = x
    BY <1>1, <2>4, <2>5 DEF DropsOK, Disjoint
  <2> QED
    BY <2>3, <2>4, <2>5, <2>6
<1>2. IInv /\ DropsOK => NoCircularWait
  BY <1>1 DEF NoCircularWait
<1> QED
  BY <1>2, Invariant, DropsStayOK, PTL

-----------------------------------------------------------------------------
(* Blobs, for the uploads and the pulls *)

\* R2 has every blob that has its row, and those that a push is about to track.
BlobsThere ==
    /\ \A b \in Blob : objects[b] # "absent" => b \in stored
    /\ \A q \in Request : At(q, "track") => requests[q].todo \subseteq stored

TrackedBlobs == {b \in Blob : objects[b] # "absent"}
ListedBlobs == [r \in Repo |-> repoObjects[r] \cap Blob]

\* What a step of StoreNext may be, in the words of the tables.
StoreStep ==
    \/ /\ \E b \in Blob : /\ stored' = stored \cup {b}
                          /\ TrackedBlobs' = TrackedBlobs \cup {b}
       /\ ListedBlobs' = ListedBlobs
    \/ \E r \in Repo, B \in SUBSET Blob :
          /\ B \subseteq stored /\ B \subseteq TrackedBlobs
          /\ ListedBlobs' = [ListedBlobs EXCEPT ![r] = @ \cup B]
          /\ UNCHANGED stored /\ TrackedBlobs' = TrackedBlobs
    \/ /\ \A r \in Repo : ListedBlobs'[r] \subseteq ListedBlobs[r]
       /\ UNCHANGED stored /\ TrackedBlobs' = TrackedBlobs

\* They are StoreNext.
LEMMA StoreSteps ==
    ASSUME StoreStep
    PROVE  [Store!StoreNext]_(Store!storeVars)
<1>1. CASE /\ \E b \in Blob : /\ stored' = stored \cup {b}
                              /\ TrackedBlobs' = TrackedBlobs \cup {b}
           /\ ListedBlobs' = ListedBlobs
  <2>1. PICK b \in Blob : stored' = stored \cup {b} /\ TrackedBlobs' = TrackedBlobs \cup {b}
    BY <1>1
  <2>2. Store!Add(b)
    BY <1>1, <2>1 DEF Store!Add, TrackedBlobs, ListedBlobs
  <2> QED
    BY <2>2 DEF Store!StoreNext
<1>2. CASE \E r \in Repo, B \in SUBSET Blob :
              /\ B \subseteq stored /\ B \subseteq TrackedBlobs
              /\ ListedBlobs' = [ListedBlobs EXCEPT ![r] = @ \cup B]
              /\ UNCHANGED stored /\ TrackedBlobs' = TrackedBlobs
  <2>1. PICK r \in Repo, B \in SUBSET Blob :
              /\ B \subseteq stored /\ B \subseteq TrackedBlobs
              /\ ListedBlobs' = [ListedBlobs EXCEPT ![r] = @ \cup B]
              /\ UNCHANGED stored /\ TrackedBlobs' = TrackedBlobs
    BY <1>2
  <2>2. TrackedBlobs' = TrackedBlobs \cup B
    BY <2>1
  <2>3. Store!List(r, B)
    BY <2>1, <2>2 DEF Store!List, TrackedBlobs, ListedBlobs
  <2> QED
    BY <2>3 DEF Store!StoreNext
<1>3. CASE /\ \A r \in Repo : ListedBlobs'[r] \subseteq ListedBlobs[r]
           /\ UNCHANGED stored /\ TrackedBlobs' = TrackedBlobs
  <2>1. ListedBlobs' \in [Repo -> SUBSET Blob]
    BY DEF ListedBlobs
  <2>2. Store!Release
    BY <1>3, <2>1 DEF Store!Release, TrackedBlobs, ListedBlobs
  <2> QED
    BY <2>2 DEF Store!StoreNext
<1> QED
  BY <1>1, <1>2, <1>3 DEF StoreStep

\* One handler moves, and is not about to track what is not there.
LEMMA OneTracks ==
    ASSUME IInv, BlobsThere, NEW q \in Request, Others(q), stored \subseteq stored',
           At(q, "track")' => requests'[q].todo \subseteq stored',
           \A b \in Blob : objects'[b] # "absent" => b \in stored'
    PROVE  BlobsThere'
<1>1. \A p \in Request \ {q} : requests'[p] = requests[p]
  BY DEF Others
<1> QED
  BY <1>1 DEF BlobsThere, At

\* Tables that stay as they are.
LEMMA TablesStay ==
    ASSUME IInv, BlobsThere, UNCHANGED <<vars, stored>>
    PROVE  StoreStep /\ \A b \in Blob : objects'[b] # "absent" => b \in stored'
<1>1. ListedBlobs' = ListedBlobs /\ TrackedBlobs' = TrackedBlobs
  BY DEF ListedBlobs, TrackedBlobs, vars
<1>2. \A r \in Repo : ListedBlobs'[r] \subseteq ListedBlobs[r]
  BY <1>1
<1> QED
  BY <1>1, <1>2 DEF StoreStep, BlobsThere, vars

\* A blob gets its row once R2 has it.
LEMMA RowAdded ==
    ASSUME IInv, BlobsThere, NEW b \in Blob, UpsertObjectBlob(b), stored' = stored \cup {b}
    PROVE  StoreStep /\ \A c \in Blob : objects'[c] # "absent" => c \in stored'
<1>1. objects \in [Digest -> ObjectTypes \cup {"absent"}]
  BY DEF IInv, Tables, TypeOK
<1>2. \A c \in Blob : objects'[c] # "absent" <=> objects[c] # "absent" \/ c = b
  BY <1>1 DEF UpsertObjectBlob
<1>3. TrackedBlobs' = TrackedBlobs \cup {b}
  BY <1>2 DEF TrackedBlobs
<1>4. ListedBlobs' = ListedBlobs
  BY DEF UpsertObjectBlob, ListedBlobs
<1> QED
  BY <1>2, <1>3, <1>4 DEF StoreStep, BlobsThere

\* Rows of repositories that go.
LEMMA RowsRemoved ==
    ASSUME IInv, BlobsThere, UNCHANGED <<objects, stored>>,
           \A r \in Repo : repoObjects'[r] \subseteq repoObjects[r]
    PROVE  StoreStep /\ \A b \in Blob : objects'[b] # "absent" => b \in stored'
<1>1. TrackedBlobs' = TrackedBlobs
  BY DEF TrackedBlobs
<1>2. \A r \in Repo : ListedBlobs'[r] \subseteq ListedBlobs[r]
  BY DEF ListedBlobs
<1> QED
  BY <1>1, <1>2 DEF StoreStep, BlobsThere

\* What the commit of a push lists has its row, which came after the blob.
LEMMA RowsListed ==
    ASSUME IInv, BlobsThere, NEW q \in Request, CommitUpsert(q)
    PROVE  StoreStep /\ \A b \in Blob : objects'[b] # "absent" => b \in stored'
<1> DEFINE r == requests[q].repo
           m == requests[q].digest
           B == requests[q].rows \cap Blob
<1>1. stored' = stored
  BY DEF CommitUpsert
<1>2. m \notin Blob
  BY CommitUpsertEffect, KindsAssumption
<1>3. \A b \in Blob : objects'[b] = objects[b]
  BY <1>2, CommitUpsertEffect
<1>4. TrackedBlobs' = TrackedBlobs
  BY <1>3 DEF TrackedBlobs
<1>5. B \subseteq BlobRefs[m]
  BY <1>2, CommitUpsertEffect
<1>6. B \subseteq TrackedBlobs /\ B \subseteq stored
  BY <1>5, CommitUpsertEffect DEF TrackedBlobs, BlobsThere
<1>7. r \in Repo /\ repoObjects' = [repoObjects EXCEPT ![r] = @ \cup requests[q].rows]
  BY CommitUpsertEffect
<1>8. repoObjects \in [Repo -> SUBSET Digest]
  BY DEF IInv, Tables, TypeOK
<1>9. ListedBlobs' = [ListedBlobs EXCEPT ![r] = @ \cup B]
  <2>1. \A x \in Repo : ListedBlobs'[x] = IF x = r THEN ListedBlobs[x] \cup B ELSE ListedBlobs[x]
    BY <1>7, <1>8 DEF ListedBlobs
  <2>2. [ListedBlobs EXCEPT ![r] = @ \cup B] =
           [x \in Repo |-> IF x = r THEN ListedBlobs[x] \cup B ELSE ListedBlobs[x]]
    BY DEF ListedBlobs
  <2>3. ListedBlobs' = [x \in Repo |-> ListedBlobs'[x]]
    BY DEF ListedBlobs
  <2> HIDE DEF r, B
  <2> QED
    BY <2>1, <2>2, <2>3
<1> QED
  BY <1>1, <1>3, <1>4, <1>6, <1>7, <1>9 DEF StoreStep, BlobsThere

\* Clients ask; a push has found its blobs in R2.
LEMMA ArrivalTracks ==
    ASSUME IInv, BlobsThere, NEW q \in Request, Arrive(q)
    PROVE  StoreStep /\ BlobsThere'
<1>1. UNCHANGED <<vars, stored>>
  BY DEF Arrive, PutManifest, DeleteManifest, UploadBlob
<1>2. StoreStep /\ \A b \in Blob : objects'[b] # "absent" => b \in stored'
  BY <1>1, TablesStay
<1>3. ASSUME NEW r \in Repo, NEW m \in Manifest, NEW t \in Tag \cup {NoTag}, PutManifest(q, r, m, t)
      PROVE  Others(q) /\ (At(q, "track")' => requests'[q].todo \subseteq stored')
  <2>1. BlobRefs[m] \subseteq Blob /\ ChildRefs[m] \subseteq Digest
    BY BodiesAssumption
  <2>2. \/ Began(q, "children", r, m, t, ChildRefs[m])
        \/ Began(q, "track", r, m, t, BlobRefs[m])
    BY <1>3, <2>1, BeginAfter DEF PutManifest, PutSteps
  <2> QED
    BY <1>1, <1>3, <2>2 DEF Began, PutManifest, At
<1>4. ASSUME NEW r \in Repo, NEW d \in Manifest, DeleteManifest(q, r, d)
      PROVE  Others(q) /\ (At(q, "track")' => requests'[q].todo \subseteq stored')
  <2>1. Began(q, "guard", r, d, NoTag, {})
    BY <1>4, BeginAfter DEF DeleteManifest, DeleteSteps
  <2> QED
    BY <2>1 DEF Began, At
<1>5. ASSUME NEW r \in Repo, NEW b \in Blob, UploadBlob(q, r, b)
      PROVE  Others(q) /\ (At(q, "track")' => requests'[q].todo \subseteq stored')
  <2>1. Began(q, "owner", r, b, NoTag, {})
    BY <1>5, BeginAfter DEF UploadBlob
  <2> QED
    BY <2>1 DEF Began, At
<1>6. Others(q) /\ (At(q, "track")' => requests'[q].todo \subseteq stored')
  BY <1>3, <1>4, <1>5 DEF Arrive
<1> QED
  BY <1>1, <1>2, <1>6, OneTracks

\* Handlers fill R2, the rows and the lists in this order.
LEMMA HandlerTracks ==
    ASSUME IInv, BlobsThere, NEW q \in Request, Handle(q)
    PROVE  StoreStep /\ BlobsThere'
<1>1. Others(q) /\ (At(q, "track")' => At(q, "track") /\ requests'[q].todo \subseteq requests[q].todo)
  <2>1. Others(q) /\ Onward(q)
    BY HandlerOnward
  <2>2. requests'[q] = Idle => ~At(q, "track")'
    BY DEF Idle, At
  <2>3. <<requests[q].step, requests'[q].step>> \in Follows => ~At(q, "track")'
    BY DEF Follows, At
  <2> QED
    BY <2>1, <2>2, <2>3 DEF Onward, At
<1>2. ASSUME StoreStep, stored \subseteq stored', \A b \in Blob : objects'[b] # "absent" => b \in stored'
      PROVE  StoreStep /\ BlobsThere'
  <2>1. At(q, "track")' => requests'[q].todo \subseteq stored'
    BY <1>1, <1>2 DEF BlobsThere
  <2> QED
    BY <1>1, <1>2, <2>1, OneTracks
<1>3. ASSUME UNCHANGED <<vars, stored>> PROVE StoreStep /\ BlobsThere'
  BY <1>2, <1>3, TablesStay
<1>4. ASSUME NEW b \in Blob, TrackBlob(q, b) PROVE StoreStep /\ BlobsThere'
  <2>1. UpsertObjectBlob(b) /\ stored' = stored \cup {b} /\ stored' = stored
    BY <1>4 DEF TrackBlob, BlobsThere
  <2> QED
    BY <1>2, <2>1, RowAdded
<1>5. CASE CompleteUpload(q)
  <2> DEFINE b == requests[q].digest
  <2>1. b \in Blob
    BY <1>5, HoldsOf DEF CompleteUpload, OtherKnows
  <2>2. UpsertObjectBlob(b) /\ stored' = stored \cup {b}
    BY <1>5 DEF CompleteUpload
  <2> HIDE DEF b
  <2> QED
    BY <1>2, <2>1, <2>2, RowAdded
<1>6. CASE CommitUpsert(q)
  BY <1>2, <1>6, RowsListed DEF CommitUpsert
<1>7. CASE CommitDelete(q)
  <2>1. requests[q].repo \in Repo /\ repoObjects \in [Repo -> SUBSET Digest]
    BY <1>7, HasRequest, HasColumns DEF CommitDelete, IInv, Tables, TypeOK
  <2>2. \A r \in Repo : repoObjects'[r] \subseteq repoObjects[r]
    <3>1. PICK x, R : x \in Repo /\ x = requests[q].repo /\ R = requests[q].rows
      BY <2>1
    <3>2. repoObjects' = [repoObjects EXCEPT ![x] = @ \ R]
      BY <1>7, <3>1 DEF CommitDelete
    <3>3. DOMAIN repoObjects = Repo
      BY <2>1, Zenon
    <3> QED
      BY <3>2, <3>3
  <2> QED
    BY <1>2, <1>7, <2>2, RowsRemoved DEF CommitDelete
<1>8. \/ \E b \in Blob : TrackBlob(q, b)
      \/ CompleteUpload(q) \/ CommitUpsert(q) \/ CommitDelete(q)
      \/ UNCHANGED <<vars, stored>>
  BY DEF Handle, InsertBlob, InsertRow, EmitCredit, CheckChild, BeginUpsert, RegistryGone,
     GuardDelete, CheckPresent, DeleteTags, DeleteRow, SweepChildren, SweepBlobs, Sweep,
     FindTenantOrphans, CheckOwner
<1> QED
  BY <1>3, <1>4, <1>5, <1>6, <1>7, <1>8

\* Every step is one of BlobStore, or none.
LEMMA EveryStepStores ==
    ASSUME IInv, BlobsThere, ServerNext
    PROVE  StoreStep /\ BlobsThere'
<1>1. ASSUME requests' = requests, stored \subseteq stored',
             \A b \in Blob : objects'[b] # "absent" => b \in stored'
      PROVE  BlobsThere'
  BY <1>1 DEF BlobsThere, At
<1>2. ASSUME NEW q \in Request, Fail(q) PROVE StoreStep /\ BlobsThere'
  <2>1. UNCHANGED <<vars, stored>> /\ Others(q) /\ ~At(q, "track")'
    BY <1>2, ReplyAfter DEF Fail, IInv, At
  <2> QED
    BY <2>1, TablesStay, OneTracks
<1>3. ASSUME NEW b \in Blob, UploadElsewhere(b) PROVE StoreStep /\ BlobsThere'
  BY <1>1, <1>3, RowAdded DEF UploadElsewhere
<1>4. ASSUME UNCHANGED <<objects, stored>>, requests' = requests,
             \A r \in Repo : repoObjects'[r] \subseteq repoObjects[r]
      PROVE  StoreStep /\ BlobsThere'
  BY <1>1, <1>4, RowsRemoved
<1>5. ASSUME NEW r \in Repo, NEW t \in Tag, Untag(r, t) PROVE StoreStep /\ BlobsThere'
  BY <1>4, <1>5 DEF Untag, DeleteManifestReference
<1>6. ASSUME NEW R \in SUBSET Repo, DropRepositories(R), Drop(R) PROVE StoreStep /\ BlobsThere'
  <2>1. repoObjects \in [Repo -> SUBSET Digest]
    BY DEF IInv, Tables, TypeOK
  <2>2. \A r \in Repo : repoObjects'[r] \subseteq repoObjects[r]
    BY <1>6, <2>1 DEF DropRepositories
  <2> QED
    BY <1>4, <1>6, <2>2 DEF DropRepositories, Drop
<1>7. CASE Dropping
  BY <1>4, <1>7 DEF Dropping, vars
<1>8. CASE HandlersNext
  BY <1>2, <1>3, <1>5, <1>8, ArrivalTracks, HandlerTracks DEF HandlersNext
<1> QED
  BY <1>6, <1>7, <1>8, DropsOnly DEF ServerNext

\* No row of a blob is ahead of R2, whatever handlers interleave.
LEMMA BlobsStayThere == ServerSpec => []BlobsThere
<1>1. ServerInit => BlobsThere
  <2> SUFFICES ASSUME ServerInit PROVE BlobsThere
    OBVIOUS
  <2>1. \A q \in Request : requests[q] = Idle
    BY DEF ServerInit
  <2>2. \A q \in Request : requests[q].step = "idle"
    BY <2>1 DEF Idle
  <2>3. \A b \in Blob : objects[b] # "absent" => b \in stored
    BY DEF ServerInit
  <2> QED
    BY <2>2, <2>3 DEF BlobsThere, At
<1>2. IInv /\ BlobsThere /\ [ServerNext]_serverVars => BlobsThere'
  <2> SUFFICES ASSUME IInv, BlobsThere, UNCHANGED serverVars PROVE BlobsThere'
    BY EveryStepStores
  <2> QED
    BY DEF BlobsThere, serverVars, vars, At
<1> QED
  BY <1>1, <1>2, Invariant, PTL DEF ServerSpec

\* With statements interleaved and handlers failing anywhere, the registry keeps what
\* the uploads rely on, and needs no more of them: the other half of UploadsRefine.
THEOREM ServerKeepsBlobs == ServerSpec => BlobRefinement
<1>1. ServerInit => Store!StoreInit
  <2> SUFFICES ASSUME ServerInit PROVE Store!StoreInit
    OBVIOUS
  <2>1. TrackedBlobs = stored /\ stored \in SUBSET Blob
    BY DEF ServerInit, TrackedBlobs
  <2>2. ListedBlobs = [r \in Repo |-> {}]
    BY DEF ServerInit, ListedBlobs
  <2> QED
    BY <2>1, <2>2 DEF Store!StoreInit, TrackedBlobs, ListedBlobs
<1>2. IInv /\ BlobsThere /\ [ServerNext]_serverVars => [Store!StoreNext]_(Store!storeVars)
  <2>1. CASE ServerNext
    BY <2>1, EveryStepStores, StoreSteps
  <2>2. CASE UNCHANGED serverVars
    BY <2>2 DEF serverVars, vars, Store!storeVars
  <2> QED
    BY <2>1, <2>2
<1> QED
  BY <1>1, <1>2, Invariant, BlobsStayThere, PTL DEF ServerSpec, BlobRefinement, Store!StoreSpec

-----------------------------------------------------------------------------
(* What clients are told of is there *)

\* Whatever a repository lists or a tag names, PostgreSQL or R2 has the bytes of.
ListedIsThere ==
    /\ \A r \in Repo : /\ repoObjects[r] \cap Manifest \subseteq bodies
                       /\ repoObjects[r] \cap Blob \subseteq stored
    /\ \A r \in Repo, t \in Tag : tags[r][t] = NoDigest \/ tags[r][t] \in bodies

\* A deletion takes rows, never bytes: no overlap of pushes, deletes and failures, not
\* even one that leaves a repository untidy, makes it list or name what nobody has.
THEOREM PullsFindBytes == ServerSpec => []ListedIsThere
<1> DEFINE Named == \A r \in Repo, t \in Tag : tags[r][t] = NoDigest \/ tags[r][t] \in bodies
<1>1. ServerInit => Named
  BY DEF ServerInit
<1>2. ASSUME IInv, Named, ServerNext PROVE Named'
  <2>1. tags \in [Repo -> [Tag -> Manifest \cup {NoDigest}]]
    BY <1>2 DEF IInv, Tables, TypeOK
  <2>2. ASSUME tags' = tags, bodies \subseteq bodies' PROVE Named'
    BY <1>2, <2>2
  <2>3. ASSUME NEW q \in Request, CommitUpsert(q) PROVE Named'
    <3>1. requests[q].repo \in Repo /\ bodies' = bodies \cup {requests[q].digest}
      BY <1>2, <2>3, CommitUpsertEffect
    <3>2. tags' = [tags EXCEPT ![requests[q].repo] = [u \in Tag |->
             IF u = requests[q].tag THEN requests[q].digest ELSE tags[requests[q].repo][u]]]
      BY <2>3 DEF CommitUpsert
    <3> QED
      BY <1>2, <2>1, <3>1, <3>2
  <2>4. ASSUME NEW q \in Request, CommitDelete(q) PROVE Named'
    <3>1. requests[q].repo \in Repo /\ bodies' = bodies
      BY <1>2, <2>4, HasRequest, HasColumns DEF CommitDelete
    <3>2. tags' = [tags EXCEPT ![requests[q].repo] = [t \in Tag |->
             IF t \in requests[q].untag THEN NoDigest ELSE tags[requests[q].repo][t]]]
      BY <2>4 DEF CommitDelete
    <3> QED
      BY <1>2, <2>1, <3>1, <3>2
  <2>5. ASSUME NEW r \in Repo, NEW t \in Tag, Untag(r, t) PROVE Named'
    <3>1. bodies' = bodies /\ tags' = [tags EXCEPT ![r][t] = NoDigest]
      BY <2>5 DEF Untag, DeleteManifestReference
    <3> QED
      BY <1>2, <2>1, <3>1
  <2>6. ASSUME NEW R \in SUBSET Repo, DropRepositories(R) PROVE Named'
    BY <1>2, <2>6 DEF DropRepositories
  <2>7. bodies \subseteq bodies'
    <3>1. Grow /\ Tables'
      BY <1>2, HandlersHold, TablesHold
    <3> QED
      BY <1>2, <3>1 DEF Grow, IInv, Tables, TypeOK, IndexConsistent
  <2> QED
    BY <1>2, <2>2, <2>3, <2>4, <2>5, <2>6, <2>7, Visible
<1>3. Named /\ UNCHANGED serverVars => Named'
  BY DEF serverVars, vars
<1>4. IInv /\ BlobsThere /\ Named => ListedIsThere
  BY KindsAssumption DEF IInv, Tables, TypeOK, IndexConsistent, BlobsThere, ListedIsThere
<1> HIDE DEF Named
<1> QED
  BY <1>1, <1>2, <1>3, <1>4, Invariant, BlobsStayThere, PTL DEF ServerSpec

\* Nor does any overlap set the tables against each other: types, bodies and graph rows
\* agree, and repositories list only what has an objects row.
THEOREM TablesAgree == ServerSpec => []IndexConsistent
<1>1. IInv => IndexConsistent
  BY DEF IInv, Tables
<1> QED
  BY <1>1, Invariant, PTL

=============================================================================
