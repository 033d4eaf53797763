----------------------- MODULE RegistryBillingProofs -----------------------
(***************************************************************************)
(* That a tenant is billed for what it holds, for any number of handlers,  *)
(* tenants and repositories: unless a delete overlapped, or one of the     *)
(* things in excused happened.                                             *)
(***************************************************************************)
EXTENDS RegistryServerProofs, FiniteSetTheorems

USE DEF Digest

-----------------------------------------------------------------------------
(* The strengthened invariant *)

\* No delete overlapped in a repository of t.
Apart(t) == ~\E r, s \in Repo : {r, s} \in overlaps /\ TenantOfRepo(r) = t

Clear(t, b) == <<t, b>> \notin excused /\ Apart(t)

Has(t, b) == TenantHasBlob(t, b) \/ <<t, b>> \in awaited

Balanced(t, b) ==
    ledger[t][b] = Cardinality(Crediting(t, b)) + IF Has(t, b) THEN 1 ELSE 0

\* What is awaited is not held yet, or it would be billed twice.
NotYet(t, b) == <<t, b>> \in awaited => ~TenantHasBlob(t, b)

BlobRows(q) == requests[q].rows \cap Blob

\* The blobs that a delete takes are those of its last sweep.
RowsKnown(q) ==
    /\ At(q, "sweep") \/ At(q, "blobs") => BlobRows(q) = {}
    /\ At(q, "tenants") => requests[q].todo = BlobRows(q)

\* Those it will credit are the ones that its tenant has nowhere else, still.
LeaveKnows(q) ==
    LET r == requests[q].repo
        t == TenantOfRepo(r)
    IN  At(q, "leave") /\ Apart(t) =>
            requests[q].todo = OrphanedAtTenant(t, r, BlobRows(q))

BillInv ==
    /\ \A t \in Tenant, b \in Blob : Clear(t, b) => Balanced(t, b) /\ NotYet(t, b)
    /\ \A q \in Request : RowsKnown(q) /\ LeaveKnows(q)

-----------------------------------------------------------------------------
(* What an upload can rely on *)

\* An upload charges what the tenant does not have, or it is excused.
ChargeKnows(q) ==
    LET r == requests[q].repo
        b == requests[q].digest
        t == TenantOfRepo(r)
    IN  At(q, "store") /\ requests[q].charge => <<t, b>> \in excused \/ ~TenantHasBlob(t, b)

Charges == \A q \in Request : ChargeKnows(q)

\* What is excused stays so.
LEMMA ExcusedStays ==
    ASSUME IInv, ServerNext
    PROVE  excused \subseteq excused'
<1>1. ASSUME NEW q \in Request, Arrive(q) PROVE excused \subseteq excused'
  BY <1>1, Zenon DEF Arrive, PutManifest, DeleteManifest, UploadBlob
<1>2. ASSUME NEW q \in Request, Handle(q) PROVE excused \subseteq excused'
  BY <1>2 DEF Handle, TrackBlob, InsertBlob, InsertRow, EmitCredit, Emit, CheckChild,
     BeginUpsert, RegistryGone, CommitUpsert, GuardDelete, CheckPresent, DeleteTags, DeleteRow,
     SweepChildren, SweepBlobs, Sweep, FindTenantOrphans, CommitDelete, CheckOwner, CompleteUpload
<1>3. ASSUME HandlersNext PROVE excused \subseteq excused'
  BY <1>1, <1>2, <1>3 DEF HandlersNext, Fail, UploadElsewhere, Untag
<1> QED
  BY <1>3, DropsOnly DEF ServerNext, Dropping, Drop

\* An upload that is about to charge was so before, or has just looked.
LEMMA StoreFollows ==
    ASSUME IInv, ServerNext, NEW p \in Request, At(p, "store")'
    PROVE  requests'[p] = requests[p] \/ CheckOwner(p)
<1>1. SUFFICES ASSUME requests'[p] # requests[p] PROVE CheckOwner(p)
  OBVIOUS
<1>2. requests'[p] # Idle
  BY DEF At, Idle
<1>3. ASSUME NEW q \in Request, Arrive(q) PROVE FALSE
  <2>1. ASSUME NEW step, NEW r, NEW d, NEW t, NEW D, Begin(q, step, r, d, t, D), step # "store"
        PROVE  \E w : requests' = [requests EXCEPT ![q] = w] /\ w.step # "store"
    <3> DEFINE w == [step |-> step, repo |-> r, digest |-> d, tag |-> t, todo |-> D,
                     rows |-> {}, untag |-> {}, charge |-> FALSE]
    <3>1. requests' = [requests EXCEPT ![q] = w] /\ w.step # "store"
      BY <2>1 DEF Begin
    <3> HIDE DEF w
    <3> QED
      BY <3>1
  <2>2. \E w : requests' = [requests EXCEPT ![q] = w] /\ w.step # "store"
    BY <1>3, <2>1, Zenon DEF Arrive, PutManifest, DeleteManifest, UploadBlob
  <2> QED
    BY <1>1, <2>2, RowAfter DEF IInv, At, Others
<1>4. ASSUME NEW q \in Request, Fail(q) PROVE FALSE
  <2>1. Reply(q)
    BY <1>4 DEF Fail
  <2>2. requests'[q] = Idle /\ Others(q)
    BY <2>1, ReplyAfter, SMTT(30) DEF IInv
  <2> QED
    BY <1>1, <1>2, <2>2 DEF Others
<1>5. ASSUME NEW q \in Request, Handle(q) PROVE CheckOwner(p)
  <2>1. q = p /\ Onward(p)
    BY <1>1, <1>5, HandlerOnward DEF Others
  <2>2. At(p, "owner") \/ At(p, "store")
    BY <1>2, <2>1 DEF Onward, Follows, At
  <2>3. ~CompleteUpload(p)
    BY <1>2, ReplyAfter DEF CompleteUpload, IInv
  <2> QED
    BY <1>5, <2>1, <2>2, <2>3 DEF Handle, TrackBlob, InsertBlob, EmitCredit, CheckChild,
       BeginUpsert, RegistryGone, Checked, CommitUpsert, GuardDelete, CheckPresent, DeleteTags,
       DeleteRow, SweepChildren, SweepBlobs, Sweep, FindTenantOrphans, CommitDelete, At
<1>6. ASSUME HandlersNext PROVE CheckOwner(p)
  BY <1>1, <1>3, <1>4, <1>5, <1>6 DEF HandlersNext, UploadElsewhere, Untag
<1> QED
  BY <1>1, <1>6, DropsOnly DEF ServerNext, Dropping, Drop

\* What it has just found.
LEMMA OwnerKnows ==
    ASSUME IInv, NEW q \in Request, CheckOwner(q)
    PROVE  ChargeKnows(q)'
<1> DEFINE w == requests[q]
           t == TenantOfRepo(w.repo)
<1>1. w # Idle /\ w \in RequestRow /\ At(q, "owner") /\ repoObjects' = repoObjects
  BY HasRequest DEF CheckOwner, At, vars
<1>2. ASSUME NEW c \in BOOLEAN, SetCharge(q, c)
      PROVE  requests'[q].charge = c /\ requests'[q].repo = w.repo /\ requests'[q].digest = w.digest
  <2>1. Change(q, "store", w.todo, w.rows, w.untag, c)
    BY <1>2 DEF SetCharge, Change
  <2> QED
    BY <1>1, <1>2, <2>1, HasColumns, Edits DEF IInv, Edited
<1>3. \A u, c : TenantHasBlob(u, c)' <=> TenantHasBlob(u, c)
  BY <1>1 DEF TenantHasBlob, TenantOfRepo
<1>4. CASE SetCharge(q, FALSE)
  BY <1>2, <1>4 DEF ChargeKnows
<1>5. CASE SetCharge(q, MustCharge(w.repo, w.digest))
  <2>1. PICK c \in BOOLEAN : c = MustCharge(w.repo, w.digest)
    BY DEF MustCharge
  <2>2. requests'[q].charge = c /\ requests'[q].repo = w.repo /\ requests'[q].digest = w.digest
    BY <1>2, <1>5, <2>1
  <2>3. requests'[q].charge => ~TenantHasBlob(t, w.digest)
    BY <2>1, <2>2 DEF MustCharge
  <2> QED
    BY <1>3, <2>2, <2>3 DEF ChargeKnows, TenantOfRepo, TenantHasBlob
<1>6. CASE /\ SetCharge(q, TRUE)
           /\ excused' = IF TenantHasBlob(t, w.digest) THEN excused \cup {<<t, w.digest>>} ELSE excused
  <2>1. PICK u, c : u = t /\ c = w.digest
    OBVIOUS
  <2>2. <<u, c>> \in excused' \/ ~TenantHasBlob(u, c)'
    BY <1>3, <1>6, <2>1
  <2>3. requests'[q].repo = w.repo /\ requests'[q].digest = c
    BY <1>2, <1>6, <2>1
  <2>4. TenantOfRepo(requests[q].repo)' = u
    BY <2>1, <2>3 DEF TenantOfRepo
  <2> QED
    BY <2>2, <2>3, <2>4 DEF ChargeKnows, TenantOfRepo, TenantHasBlob
<1> QED
  BY <1>4, <1>5, <1>6, Zenon DEF CheckOwner

\* What a tenant comes to have while one of its uploads is about to charge it is excused.
LEMMA ChargesHold ==
    ASSUME IInv, Charges, ServerNext
    PROVE  Charges'
<1> SUFFICES ASSUME NEW p \in Request, At(p, "store")', requests'[p].charge PROVE ChargeKnows(p)'
  BY DEF Charges, ChargeKnows
<1>1. CASE CheckOwner(p)
  BY <1>1, OwnerKnows
<1>2. CASE requests'[p] = requests[p]
  <2>1. PICK b, t : b = requests[p].digest /\ t = TenantOfRepo(requests[p].repo)
    OBVIOUS
  <2>2. /\ At(p, "store") /\ requests[p].charge
        /\ <<t, b>> \in excused \/ ~TenantHasBlob(t, b)
    BY <1>2, <2>1 DEF At, Charges, ChargeKnows
  <2>3. <<t, b>> \in excused => <<t, b>> \in excused'
    BY ExcusedStays
  <2>4. ASSUME ~TenantHasBlob(t, b), TenantHasBlob(t, b)' PROVE <<t, b>> \in excused'
    <3>1. repoObjects \in [Repo -> SUBSET Digest]
      BY DEF IInv, Tables, TypeOK
    <3>2. PICK r \in Repo : TenantOfRepo(r) = t /\ b \in repoObjects'[r] /\ b \notin repoObjects[r]
      BY <2>4 DEF TenantHasBlob, TenantOfRepo
    <3>3. \A q \in Request : ~CommitDelete(q)
      <4> SUFFICES ASSUME NEW q \in Request, CommitDelete(q) PROVE FALSE
        OBVIOUS
      <4> QED
        BY <3>1, <3>2 DEF CommitDelete
    <3>4. \A R : ~DropRepositories(R)
      BY <3>2 DEF DropRepositories
    <3>5. \A x, u : ~Untag(x, u)
      BY <3>2 DEF Untag, DeleteManifestReference
    <3>6. PICK q \in Request : CommitUpsert(q)
      BY <3>2, <3>3, <3>4, <3>5, Visible
    <3>7. repoObjects' = [repoObjects EXCEPT ![requests[q].repo] = @ \cup requests[q].rows]
      BY <3>6, CommitUpsertEffect
    <3>8. r = requests[q].repo /\ b \in requests[q].rows
      BY <3>1, <3>2, <3>7
    <3>9. b \in Blob
      BY <2>1, <2>2, HoldsOf DEF OtherKnows
    <3>10. <<t, b>> \in Miscounted(t, requests[q].rows \cap Blob)
      BY <2>1, <2>2, <2>4, <3>8, <3>9 DEF Miscounted
    <3> QED
      BY <3>2, <3>6, <3>8, <3>10 DEF CommitUpsert
  <2>5. <<t, b>> \in excused' \/ ~TenantHasBlob(t, b)'
    BY <2>2, <2>3, <2>4
  <2>6. TenantOfRepo(requests[p].repo)' = t /\ requests'[p].digest = b
    BY <1>2, <2>1 DEF TenantOfRepo
  <2> QED
    BY <2>5, <2>6 DEF ChargeKnows, TenantOfRepo, TenantHasBlob
<1> QED
  BY <1>1, <1>2, StoreFollows

\* Uploads always know that.
LEMMA ChargesStay == ServerSpec => []Charges
<1>1. ServerInit => Charges
  BY DEF ServerInit, Charges, ChargeKnows, At, Idle
<1>2. IInv /\ Charges /\ [ServerNext]_serverVars => Charges'
  <2> SUFFICES ASSUME Charges, UNCHANGED serverVars PROVE Charges'
    BY ChargesHold
  <2> QED
    BY DEF serverVars, vars, Charges, ChargeKnows, TenantOfRepo, TenantHasBlob, At
<1> QED
  BY <1>1, <1>2, Invariant, PTL DEF ServerSpec

-----------------------------------------------------------------------------
(* What a delete can rely on *)

\* A tenant that is apart was so before.
LEMMA ApartBefore ==
    ASSUME Grow, NEW t, Apart(t)'
    PROVE  Apart(t)
  BY DEF Grow, Apart

\* A repository of such a tenant is undisturbed.
LEMMA ApartUndisturbed ==
    ASSUME NEW r \in Repo, Apart(TenantOfRepo(r))
    PROVE  r \in Undisturbed
<1>1. {r, r} \notin overlaps
  BY DEF Apart
<1> QED
  BY <1>1 DEF Undisturbed

\* Nothing that it has read changes under it.
LEMMA NothingChanges ==
    ASSUME IInv, ServerNext, Grow, NEW p \in Request, Deleting(p), requests'[p] = requests[p],
           NEW t, t = TenantOfRepo(requests[p].repo), Apart(t)'
    PROVE  repoObjects' = repoObjects
<1>1. requests[p].repo \in Repo
  BY InARepo
<1>2. ASSUME NEW q \in Request, CommitUpsert(q) PROVE FALSE
  <2>1. Putting(q)
    BY <1>2 DEF CommitUpsert, Putting, PutSteps, At
  <2>2. q # p
    BY <2>1 DEF Putting, Deleting, PutSteps, DeleteSteps
  <2>3. {requests[p].repo, requests[q].repo} \in overlaps /\ requests[q].repo \in Repo
    BY <2>1, <2>2, InARepo DEF IInv, Holds, Alone
  <2> QED
    BY <1>1, <2>3, ApartBefore DEF Apart
<1>3. ASSUME NEW q \in Request, CommitDelete(q) PROVE FALSE
  <2>1. Deleting(q) /\ requests[q].step = "leave"
    BY <1>3 DEF CommitDelete, Deleting, DeleteSteps, At
  <2>2. q # p
    <3>1. requests'[q].step # "leave"
      BY <1>3, HasRequest DEF CommitDelete, Reply, Goto, Idle, IInv, RequestsOK, RequestRow
    <3> QED
      BY <2>1, <3>1
  <2>3. {requests[p].repo, requests[q].repo} \in overlaps /\ requests[q].repo \in Repo
    BY <2>1, <2>2, InARepo DEF IInv, Holds, Alone
  <2> QED
    BY <1>1, <2>3, ApartBefore DEF Apart
<1>4. ASSUME NEW R \in SUBSET Repo, DropRepositories(R), Drop(R) PROVE repoObjects' = repoObjects
  <2>1. R = {}
    <3> SUFFICES ASSUME NEW x \in R PROVE FALSE
      OBVIOUS
    <3>1. {x, requests[p].repo} \in DeleteOverlaps(x)
      BY DEF DeleteOverlaps
    <3>2. {x, requests[p].repo} \in overlaps'
      BY <1>4, <3>1 DEF Drop
    <3> QED
      BY <1>1, <3>2 DEF Apart
  <2> QED
    BY <1>4, <2>1 DEF DropRepositories, IInv, Tables, TypeOK
<1>5. ASSUME NEW r \in Repo, NEW u \in Tag, Untag(r, u) PROVE repoObjects' = repoObjects
  BY <1>5 DEF Untag, DeleteManifestReference
<1> QED
  BY <1>2, <1>3, <1>4, <1>5, Visible

\* A handler that does not move still knows what it did.
LEMMA KnowsStill ==
    ASSUME IInv, BillInv, ServerNext, Grow, NEW p \in Request, requests'[p] = requests[p]
    PROVE  RowsKnown(p)' /\ LeaveKnows(p)'
<1>1. RowsKnown(p) /\ LeaveKnows(p)
  BY DEF BillInv
<1>2. RowsKnown(p)'
  BY <1>1 DEF RowsKnown, BlobRows, At
<1>3. LeaveKnows(p)'
  <2> SUFFICES ASSUME NEW t, t = TenantOfRepo(requests[p].repo), At(p, "leave"), Apart(t)'
               PROVE  requests[p].todo = OrphanedAtTenant(t, requests[p].repo, BlobRows(p))'
    BY DEF LeaveKnows, At, TenantOfRepo
  <2>1. Deleting(p)
    BY DEF Deleting, DeleteSteps, At
  <2>2. repoObjects' = repoObjects
    BY <2>1, NothingChanges
  <2>3. Apart(t)
    BY ApartBefore
  <2> QED
    BY <1>1, <2>2, <2>3 DEF LeaveKnows, OrphanedAtTenant, HeldWithout, BlobRows
<1> QED
  BY <1>2, <1>3

-----------------------------------------------------------------------------
(* Counting those that credit *)

\* There are finitely many.
LEMMA CreditingFinite ==
    ASSUME NEW t, NEW b
    PROVE  IsFiniteSet(Crediting(t, b)) /\ Cardinality(Crediting(t, b)) \in Nat
<1>1. Crediting(t, b) \subseteq Request /\ IsFiniteSet(Request)
  BY ServerAssumption DEF Crediting
<1>2. IsFiniteSet(Crediting(t, b))
  BY <1>1, FS_Subset
<1> QED
  BY <1>2, FS_CardinalityType

\* Whether q has still to credit t with b.
Credits(q, t, b) ==
    At(q, "credit") /\ b \in requests[q].todo /\ TenantOfRepo(requests[q].repo) = t

\* Those who credit, after a step of q.
LEMMA CreditingAfter ==
    ASSUME NEW q \in Request, Others(q), NEW t, NEW b
    PROVE  /\ (Credits(q, t, b) <=> Credits(q, t, b)') => Crediting(t, b)' = Crediting(t, b)
           /\ ~Credits(q, t, b) /\ Credits(q, t, b)' => Crediting(t, b)' = Crediting(t, b) \cup {q}
           /\ Credits(q, t, b) /\ ~Credits(q, t, b)' => Crediting(t, b)' = Crediting(t, b) \ {q}
           /\ Credits(q, t, b) <=> q \in Crediting(t, b)
<1>1. \A p \in Request \ {q} : Credits(p, t, b)' <=> Credits(p, t, b)
  BY DEF Others, Credits, At, TenantOfRepo
<1>2. Crediting(t, b) = {p \in Request : Credits(p, t, b)}
  BY DEF Crediting, Credits
<1>3. Crediting(t, b)' = {p \in Request : Credits(p, t, b)'}
  BY DEF Crediting, Credits
<1> QED
  BY <1>1, <1>2, <1>3

\* What is neither charged nor credited nor changes hands stays balanced.
LEMMA BalancedStill ==
    ASSUME NEW q \in Request, Others(q), NEW t, NEW b, Balanced(t, b),
           Credits(q, t, b) <=> Credits(q, t, b)', ledger'[t][b] = ledger[t][b],
           Has(t, b)' <=> Has(t, b)
    PROVE  Balanced(t, b)'
<1>1. Crediting(t, b)' = Crediting(t, b)
  BY CreditingAfter
<1> QED
  BY <1>1 DEF Balanced

\* A step of q, by the bills that it leaves balanced.
LEMMA BillsAfter ==
    ASSUME IInv, BillInv, ServerNext, Grow, NEW q \in Request, Others(q),
           excused \subseteq excused', RowsKnown(q)', LeaveKnows(q)',
           \A t \in Tenant, b \in Blob :
              Clear(t, b)' /\ Clear(t, b) /\ Balanced(t, b) /\ NotYet(t, b)
                 => Balanced(t, b)' /\ NotYet(t, b)'
    PROVE  BillInv'
<1>1. ASSUME NEW p \in Request PROVE RowsKnown(p)' /\ LeaveKnows(p)'
  BY KnowsStill DEF Others
<1>2. ASSUME NEW t \in Tenant, NEW b \in Blob, Clear(t, b)' PROVE Balanced(t, b)' /\ NotYet(t, b)'
  <2>1. Clear(t, b)
    BY <1>2, ApartBefore DEF Clear
  <2> QED
    BY <1>2, <2>1 DEF BillInv
<1> QED
  BY <1>1, <1>2 DEF BillInv

-----------------------------------------------------------------------------
(* Steps that bill nobody *)

\* A handler that has nothing to know of bills.
LEMMA KnowsNothing ==
    ASSUME NEW q, requests[q].step \notin {"sweep", "blobs", "tenants", "leave"}
    PROVE  RowsKnown(q) /\ LeaveKnows(q)
  BY DEF RowsKnown, LeaveKnows, At

\* Nor credits.
LEMMA CreditsNothing ==
    ASSUME NEW q, ~At(q, "credit")
    PROVE  \A t, b : ~Credits(q, t, b)
  BY DEF Credits

\* A step that neither bills nor moves rows.
LEMMA Aside ==
    ASSUME IInv, BillInv, ServerNext, Grow, NEW q \in Request, Others(q),
           UNCHANGED <<repoObjects, ledger, awaited, excused>>,
           ~At(q, "credit"), ~At(q, "credit")', RowsKnown(q)', LeaveKnows(q)'
    PROVE  BillInv'
<1>1. ASSUME NEW t \in Tenant, NEW b \in Blob, Balanced(t, b), NotYet(t, b)
      PROVE  Balanced(t, b)' /\ NotYet(t, b)'
  <2>1. ~Credits(q, t, b) /\ ~Credits(q, t, b)'
    BY DEF Credits
  <2>2. Has(t, b)' <=> Has(t, b)
    BY DEF Has, TenantHasBlob
  <2>3. NotYet(t, b)'
    BY <1>1 DEF NotYet, TenantHasBlob
  <2> QED
    BY <1>1, <2>1, <2>2, <2>3, BalancedStill
<1> QED
  BY <1>1, BillsAfter

\* Such a step to where nothing needs to be known.
LEMMA PlainAside ==
    ASSUME IInv, BillInv, ServerNext, Grow, NEW q \in Request, Others(q),
           UNCHANGED <<repoObjects, ledger, awaited, excused>>, ~At(q, "credit"),
           requests'[q].step \notin {"sweep", "blobs", "tenants", "leave", "credit"}
    PROVE  BillInv'
<1>1. RowsKnown(q)' /\ LeaveKnows(q)' /\ ~At(q, "credit")'
  BY DEF RowsKnown, LeaveKnows, At
<1> QED
  BY <1>1, Aside

\* Such an answer.
LEMMA ReplyAside ==
    ASSUME IInv, BillInv, ServerNext, Grow, NEW q \in Request, Reply(q),
           UNCHANGED <<repoObjects, ledger, awaited, excused>>, ~At(q, "credit")
    PROVE  BillInv'
<1>1. requests'[q].step = "idle" /\ Others(q)
  BY ReplyAfter DEF IInv
<1> QED
  BY <1>1, PlainAside

\* Requests begin so.
LEMMA ArriveBills ==
    ASSUME IInv, BillInv, ServerNext, Grow, NEW q \in Request, Arrive(q)
    PROVE  BillInv'
<1>1. ASSUME NEW r \in Repo, NEW d \in Digest, NEW t \in Tag \cup {NoTag}, NEW todo \in SUBSET Digest,
             NEW step \in {"children", "track", "guard", "owner"}, Begin(q, step, r, d, t, todo),
             UNCHANGED <<repoObjects, ledger, awaited, excused>>
      PROVE  BillInv'
  <2>1. step \in PutSteps \cup DeleteSteps \cup {"owner"}
    BY <1>1 DEF PutSteps, DeleteSteps
  <2>2. Began(q, step, r, d, t, todo)
    BY <1>1, <2>1, BeginAfter
  <2>3. requests'[q].step = step /\ Others(q) /\ ~At(q, "credit")
    BY <2>2 DEF Began, At, Idle
  <2> QED
    BY <1>1, <2>3, PlainAside
<1>2. ASSUME NEW r \in Repo, NEW m \in Manifest, NEW t \in Tag \cup {NoTag}, PutManifest(q, r, m, t)
      PROVE  BillInv'
  <2>1. BlobRefs[m] \subseteq Digest /\ ChildRefs[m] \subseteq Digest
    BY BodiesAssumption
  <2> QED
    BY <1>1, <1>2, <2>1 DEF PutManifest, vars
<1>3. ASSUME NEW r \in Repo, NEW d \in Manifest, DeleteManifest(q, r, d) PROVE BillInv'
  BY <1>1, <1>3 DEF DeleteManifest, vars
<1>4. ASSUME NEW r \in Repo, NEW b \in Blob, UploadBlob(q, r, b) PROVE BillInv'
  BY <1>1, <1>4 DEF UploadBlob, vars
<1> QED
  BY <1>2, <1>3, <1>4 DEF Arrive

\* A request with other fields that bills nobody.
LEMMA EditAside ==
    ASSUME IInv, BillInv, ServerNext, Grow, NEW q \in Request, requests[q] # Idle,
           ~At(q, "credit"), UNCHANGED <<repoObjects, ledger, awaited, excused>>,
           NEW step \in {"track", "children", "insert", "present", "untag", "delete", "store"},
           NEW todo \in SUBSET Digest, NEW rows \in SUBSET Digest, NEW untag \in SUBSET Tag,
           NEW charge \in BOOLEAN, Change(q, step, todo, rows, untag, charge)
    PROVE  BillInv'
<1>1. step \in PutSteps \cup DeleteSteps \cup {"credit", "owner", "store"}
  BY DEF PutSteps, DeleteSteps
<1>2. Edited(q, step, todo, rows, untag, charge)
  BY <1>1, Edits DEF IInv
<1>3. requests'[q].step = step /\ Others(q)
  BY <1>2 DEF Edited
<1> QED
  BY <1>3, PlainAside

\* The steps of a push before its commit do.
LEMMA PushBills ==
    ASSUME IInv, BillInv, ServerNext, Grow, NEW q \in Request,
           \/ \E b \in Blob : TrackBlob(q, b) \/ InsertBlob(q, b)
           \/ \E c \in Digest : CheckChild(q, c)
           \/ BeginUpsert(q) \/ RegistryGone(q)
    PROVE  BillInv'
<1> DEFINE w == requests[q]
           m == requests[q].digest
<1>1. At(q, "track") \/ At(q, "children") \/ At(q, "insert")
  BY DEF TrackBlob, InsertBlob, CheckChild, BeginUpsert, RegistryGone, Checked
<1>2. w # Idle /\ w \in RequestRow /\ ~At(q, "credit") /\ Putting(q)
  BY <1>1, HasRequest DEF At, Putting, PutSteps
<1>3. m \in Manifest /\ BlobRefs[m] \subseteq Digest /\ ChildRefs[m] \subseteq Digest
  BY <1>2, HoldsOf, BodiesAssumption DEF PutKnows
<1>4. ASSUME NEW b \in Blob, TrackBlob(q, b) PROVE BillInv'
  <2>1. UNCHANGED <<repoObjects, ledger, awaited, excused>>
    BY <1>4 DEF TrackBlob, UpsertObjectBlob
  <2>2. CASE w.todo # {b}
    <3>1. Change(q, "track", w.todo \ {b}, w.rows, w.untag, w.charge)
      BY <1>4, <2>2 DEF TrackBlob, Change, At
    <3> QED
      BY <1>2, <2>1, <3>1, HasColumns, EditAside
  <2>3. CASE w.todo = {b}
    <3>1. Change(q, "children", ChildRefs[m], w.rows, w.untag, w.charge)
      BY <1>4, <2>3 DEF TrackBlob, Change
    <3> QED
      BY <1>2, <1>3, <2>1, <3>1, HasColumns, EditAside
  <2> QED
    BY <2>2, <2>3
<1>5. ASSUME NEW c \in Digest, CheckChild(q, c) PROVE BillInv'
  <2>1. UNCHANGED <<repoObjects, ledger, awaited, excused>>
    BY <1>5 DEF CheckChild, vars
  <2>2. CASE ChildKnown(w.repo, c)
    <3>1. Change(q, "children", w.todo \ {c}, w.rows, w.untag, w.charge)
      BY <1>5, <2>2 DEF CheckChild, Change, At
    <3> QED
      BY <1>2, <2>1, <3>1, HasColumns, EditAside
  <2> QED
    BY <1>2, <1>5, <2>1, <2>2, ReplyAside DEF CheckChild
<1>6. CASE BeginUpsert(q)
  <2> DEFINE rows == w.rows \cup ({m} \ repoObjects[w.repo])
  <2>1. UNCHANGED <<repoObjects, ledger, awaited, excused>>
    BY <1>6 DEF BeginUpsert, InsertRow, vars
  <2>2. Change(q, "insert", BlobRefs[m], rows, w.untag, w.charge)
    BY <1>6 DEF BeginUpsert, InsertRow, Change
  <2> QED
    BY <1>2, <1>3, <2>1, <2>2, HasColumns, EditAside
<1>7. ASSUME NEW b \in Blob, InsertBlob(q, b) PROVE BillInv'
  <2> DEFINE rows == w.rows \cup ({b} \ repoObjects[w.repo])
  <2>1. UNCHANGED <<repoObjects, ledger, awaited, excused>>
    BY <1>7 DEF InsertBlob, InsertRow, vars
  <2>2. Change(q, "insert", w.todo \ {b}, rows, w.untag, w.charge)
    BY <1>7 DEF InsertBlob, InsertRow, Change
  <2> QED
    BY <1>2, <2>1, <2>2, HasColumns, EditAside
<1>8. CASE RegistryGone(q)
  BY <1>2, <1>8, ReplyAside DEF RegistryGone, vars
<1> QED
  BY <1>4, <1>5, <1>6, <1>7, <1>8

\* And those of a delete before it takes rows.
LEMMA LookBills ==
    ASSUME IInv, BillInv, ServerNext, Grow, NEW q \in Request,
           GuardDelete(q) \/ CheckPresent(q) \/ DeleteTags(q)
    PROVE  BillInv'
<1> DEFINE w == requests[q]
<1>1. At(q, "guard") \/ At(q, "present") \/ At(q, "untag")
  BY DEF GuardDelete, CheckPresent, DeleteTags
<1>2. w # Idle /\ w \in RequestRow /\ ~At(q, "credit")
  BY <1>1, HasRequest DEF At
<1>3. UNCHANGED <<repoObjects, ledger, awaited, excused>>
  BY DEF GuardDelete, CheckPresent, DeleteTags, vars
<1>4. CASE Reply(q)
  BY <1>2, <1>3, <1>4, ReplyAside
<1>5. CASE GuardDelete(q) /\ ~Reply(q)
  <2>1. Change(q, "present", w.todo, w.rows, w.untag, w.charge)
    BY <1>5 DEF GuardDelete, Goto, Change
  <2> QED
    BY <1>2, <1>3, <2>1, HasColumns, EditAside
<1>6. CASE CheckPresent(q) /\ ~Reply(q)
  <2>1. Change(q, "untag", w.todo, w.rows, w.untag, w.charge)
    BY <1>6 DEF CheckPresent, Goto, Change
  <2> QED
    BY <1>2, <1>3, <2>1, HasColumns, EditAside
<1>7. CASE DeleteTags(q)
  <2> DEFINE U == {t \in Tag : tags[w.repo][t] = w.digest}
  <2>1. Change(q, "delete", w.todo, w.rows, U, w.charge)
    BY <1>7 DEF DeleteTags, Change
  <2> QED
    BY <1>2, <1>3, <2>1, HasColumns, EditAside
<1> QED
  BY <1>4, <1>5, <1>6, <1>7

-----------------------------------------------------------------------------
(* What a delete takes *)

\* First a manifest.
LEMMA DeleteRowBills ==
    ASSUME IInv, BillInv, ServerNext, Grow, NEW q \in Request, DeleteRow(q)
    PROVE  BillInv'
<1> DEFINE w == requests[q]
           rows == {requests[q].digest} \cap repoObjects[requests[q].repo]
<1>1. w # Idle /\ w \in RequestRow /\ At(q, "delete")
  BY HasRequest DEF DeleteRow, At
<1>2. UNCHANGED <<repoObjects, ledger, awaited, excused>>
  BY DEF DeleteRow, vars
<1>3. w.digest \in Manifest
  BY <1>1, HoldsOf DEF OtherKnows, Deleting, DeleteSteps, At
<1>4. Change(q, "sweep", w.todo, rows, w.untag, w.charge)
  BY DEF DeleteRow, Change
<1>5. Edited(q, "sweep", w.todo, rows, w.untag, w.charge)
  BY <1>1, <1>4, HasColumns, Edits DEF IInv, DeleteSteps
<1>6. RowsKnown(q)' /\ LeaveKnows(q)' /\ ~At(q, "credit") /\ ~At(q, "credit")' /\ Others(q)
  BY <1>1, <1>3, <1>5, KindsAssumption DEF Edited, RowsKnown, LeaveKnows, BlobRows, At
<1> QED
  BY <1>2, <1>6, Aside

\* Then manifests.
LEMMA SweepChildrenBills ==
    ASSUME IInv, BillInv, ServerNext, Grow, NEW q \in Request, SweepChildren(q)
    PROVE  BillInv'
<1> DEFINE w == requests[q]
           C == ChildrenToSweep(q)
<1>1. w \in RequestRow /\ At(q, "sweep")
  BY HasRequest DEF SweepChildren, Sweep
<1>2. C \subseteq Manifest
  BY <1>1, ChildrenAreManifests
<1>3. Sweep(q, "sweep", C, "blobs")
  BY DEF SweepChildren
<1>4. UNCHANGED <<repoObjects, ledger, awaited, excused>>
  BY DEF SweepChildren, Sweep, vars
<1>5. C \in SUBSET Digest
  BY <1>2
<1> HIDE DEF C
<1>6. Edited(q, "blobs", C, w.rows \cup C, w.untag, w.charge)
  BY <1>3, <1>5, SweepAfter DEF DeleteSteps
<1>7. BlobRows(q) = {}
  BY <1>1 DEF BillInv, RowsKnown
<1>8. RowsKnown(q)' /\ LeaveKnows(q)' /\ ~At(q, "credit") /\ ~At(q, "credit")' /\ Others(q)
  BY <1>1, <1>2, <1>6, <1>7, KindsAssumption DEF Edited, RowsKnown, LeaveKnows, BlobRows, At
<1> QED
  BY <1>4, <1>8, Aside

\* Then all of its blobs.
LEMMA SweepBlobsBills ==
    ASSUME IInv, BillInv, ServerNext, Grow, NEW q \in Request, SweepBlobs(q)
    PROVE  BillInv'
<1> DEFINE w == requests[q]
           B == BlobsToSweep(q)
           next == IF B = {} THEN "leave" ELSE "tenants"
<1>1. w \in RequestRow /\ At(q, "blobs")
  BY HasRequest DEF SweepBlobs, Sweep
<1>2. B \subseteq Blob
  BY <1>1, HasColumns DEF BlobsToSweep, OrphanBlobs, IInv, Tables, TypeOK, IndexConsistent
<1>3. Sweep(q, "blobs", B, next)
  BY DEF SweepBlobs
<1>4. UNCHANGED <<repoObjects, ledger, awaited, excused>>
  BY DEF SweepBlobs, Sweep, vars
<1>5. B \in SUBSET Digest
  BY <1>2
<1>6. next \in DeleteSteps /\ (next = "tenants" \/ (next = "leave" /\ B = {}))
  BY DEF DeleteSteps
<1> HIDE DEF B, next
<1>7. Edited(q, next, B, w.rows \cup B, w.untag, w.charge)
  BY <1>3, <1>5, <1>6, SweepAfter DEF DeleteSteps
<1>8. BlobRows(q) = {}
  BY <1>1 DEF BillInv, RowsKnown
<1>9. BlobRows(q)' = B /\ requests'[q].todo = B /\ requests'[q].step = next /\ Others(q)
  BY <1>2, <1>7, <1>8 DEF Edited, BlobRows
<1>10. RowsKnown(q)'
  BY <1>6, <1>9 DEF RowsKnown, At
<1>11. LeaveKnows(q)'
  BY <1>6, <1>9 DEF LeaveKnows, OrphanedAtTenant, At
<1>12. ~At(q, "credit") /\ ~At(q, "credit")'
  BY <1>1, <1>6, <1>9 DEF At
<1> QED
  BY <1>4, <1>9, <1>10, <1>11, <1>12, Aside

\* Then it looks for those that the tenant has nowhere else.
LEMMA FindTenantOrphansBills ==
    ASSUME IInv, BillInv, ServerNext, Grow, NEW q \in Request, FindTenantOrphans(q)
    PROVE  BillInv'
<1> DEFINE w == requests[q]
           O == OrphanedAtTenant(TenantOfRepo(w.repo), w.repo, w.todo)
<1>1. w # Idle /\ w \in RequestRow /\ At(q, "tenants")
  BY HasRequest DEF FindTenantOrphans, At
<1>2. UNCHANGED <<repoObjects, ledger, awaited, excused>>
  BY DEF FindTenantOrphans, vars
<1>3. w.todo = BlobRows(q)
  BY <1>1 DEF BillInv, RowsKnown
<1>4. PICK o : o = O
  OBVIOUS
<1>5. o \subseteq Digest
  BY <1>3, <1>4 DEF OrphanedAtTenant, BlobRows
<1>6. Change(q, "leave", o, w.rows, w.untag, w.charge)
  BY <1>4 DEF FindTenantOrphans, Change
<1>7. Edited(q, "leave", o, w.rows, w.untag, w.charge)
  BY <1>1, <1>5, <1>6, HasColumns, Edits DEF IInv, DeleteSteps
<1>8. BlobRows(q)' = BlobRows(q) /\ requests'[q].repo = w.repo /\ requests'[q].todo = o
  BY <1>7 DEF Edited, BlobRows
<1>9. LeaveKnows(q)'
  BY <1>2, <1>3, <1>4, <1>8 DEF LeaveKnows, OrphanedAtTenant, HeldWithout, TenantOfRepo
<1>10. RowsKnown(q)' /\ ~At(q, "credit") /\ ~At(q, "credit")' /\ Others(q)
  BY <1>1, <1>7 DEF Edited, RowsKnown, At
<1> QED
  BY <1>2, <1>9, <1>10, Aside

-----------------------------------------------------------------------------
(* Steps that bill, and those that change what is held *)

\* An answer, by the bills that it leaves balanced.
LEMMA ReplyBills ==
    ASSUME IInv, BillInv, ServerNext, Grow, NEW q \in Request, Reply(q), excused \subseteq excused',
           \A t \in Tenant, b \in Blob :
              Clear(t, b)' /\ Balanced(t, b) /\ NotYet(t, b) => Balanced(t, b)' /\ NotYet(t, b)'
    PROVE  BillInv'
<1>1. requests'[q].step = "idle" /\ Others(q)
  BY ReplyAfter DEF IInv
<1>2. RowsKnown(q)' /\ LeaveKnows(q)'
  BY <1>1 DEF RowsKnown, LeaveKnows, At
<1> QED
  BY <1>1, <1>2, BillsAfter

\* An upload that looks whether its tenant has the blob bills nobody yet; an error that
\* will make it bill twice is excused.
LEMMA CheckOwnerBills ==
    ASSUME IInv, BillInv, ServerNext, Grow, NEW q \in Request, CheckOwner(q)
    PROVE  BillInv'
<1> DEFINE w == requests[q]
<1>1. w # Idle /\ w \in RequestRow /\ At(q, "owner") /\ ~At(q, "credit")
  BY HasRequest DEF CheckOwner, At
<1>2. UNCHANGED <<repoObjects, ledger, awaited>> /\ excused \subseteq excused'
  BY DEF CheckOwner, vars
<1>3. PICK c \in BOOLEAN : SetCharge(q, c)
  BY DEF CheckOwner, MustCharge
<1>4. Change(q, "store", w.todo, w.rows, w.untag, c)
  BY <1>3 DEF SetCharge, Change
<1>5. requests'[q].step = "store" /\ Others(q)
  <2>1. w.todo \in SUBSET Digest /\ w.rows \in SUBSET Digest /\ w.untag \in SUBSET Tag
    BY <1>1, HasColumns
  <2>2. Edited(q, "store", w.todo, w.rows, w.untag, c)
    BY <1>1, <1>4, <2>1, Edits DEF IInv
  <2> QED
    BY <2>2 DEF Edited
<1>6. RowsKnown(q)' /\ LeaveKnows(q)' /\ ~At(q, "credit")'
  BY <1>5 DEF RowsKnown, LeaveKnows, At
<1>7. ASSUME NEW t \in Tenant, NEW b \in Blob, Balanced(t, b), NotYet(t, b)
      PROVE  Balanced(t, b)' /\ NotYet(t, b)'
  <2>1. ~Credits(q, t, b) /\ ~Credits(q, t, b)'
    BY <1>1, <1>6 DEF Credits
  <2>2. NotYet(t, b)' /\ (Has(t, b)' <=> Has(t, b))
    BY <1>2, <1>7 DEF NotYet, Has, TenantHasBlob
  <2> QED
    BY <1>2, <1>5, <1>7, <2>1, <2>2, BalancedStill
<1> QED
  BY <1>2, <1>5, <1>6, <1>7, BillsAfter

\* What a push brings was awaited, or the tenant had it, or it is excused.
LEMMA CommitUpsertBills ==
    ASSUME IInv, BillInv, ServerNext, Grow, NEW q \in Request, CommitUpsert(q)
    PROVE  BillInv'
<1> DEFINE w == requests[q]
           r == requests[q].repo
           u == TenantOfRepo(requests[q].repo)
<1>1. At(q, "insert") /\ Reply(q) /\ ledger' = ledger
  BY DEF CommitUpsert
<1>2. Others(q) /\ requests'[q].step = "idle"
  BY <1>1, ReplyAfter DEF IInv
<1>3. r \in Repo /\ repoObjects' = [repoObjects EXCEPT ![r] = @ \cup w.rows]
  BY CommitUpsertEffect
<1>4. repoObjects \in [Repo -> SUBSET Digest]
  BY DEF IInv, Tables, TypeOK
<1>5. \A x \in Repo : repoObjects'[x] = IF x = r THEN repoObjects[r] \cup w.rows ELSE repoObjects[x]
  BY <1>3, <1>4
<1>6. /\ excused' = excused \cup Miscounted(u, w.rows \cap Blob)
      /\ awaited' = awaited \ {<<u, b>> : b \in w.rows}
  BY DEF CommitUpsert
<1>7. ASSUME NEW t \in Tenant, NEW b \in Blob, Clear(t, b)', Balanced(t, b), NotYet(t, b)
      PROVE  Balanced(t, b)' /\ NotYet(t, b)'
  <2>1. TenantHasBlob(t, b)' <=> TenantHasBlob(t, b) \/ (t = u /\ b \in w.rows)
    BY <1>3, <1>5 DEF TenantHasBlob, TenantOfRepo
  <2>2. <<t, b>> \in awaited' <=> <<t, b>> \in awaited /\ ~(t = u /\ b \in w.rows)
    BY <1>6
  <2>3. t = u /\ b \in w.rows => Has(t, b)
    <3> SUFFICES ASSUME t = u, b \in w.rows, ~Has(t, b) PROVE FALSE
      OBVIOUS
    <3>1. <<t, b>> \in Miscounted(u, w.rows \cap Blob)
      BY <1>7 DEF Miscounted, Has
    <3> QED
      BY <1>6, <1>7, <3>1 DEF Clear
  <2>4. Has(t, b)' <=> Has(t, b)
    BY <2>1, <2>2, <2>3 DEF Has
  <2>5. NotYet(t, b)'
    BY <1>7, <2>1, <2>2 DEF NotYet
  <2>6. ~Credits(q, t, b) /\ ~Credits(q, t, b)'
    BY <1>1, <1>2 DEF Credits, At
  <2> QED
    BY <1>1, <1>2, <1>7, <2>4, <2>5, <2>6, BalancedStill
<1> QED
  BY <1>1, <1>6, <1>7, ReplyBills

\* What a delete takes away it credits, from all that its tenant has nowhere else.
LEMMA CommitDeleteBills ==
    ASSUME IInv, BillInv, ServerNext, Grow, NEW q \in Request, CommitDelete(q)
    PROVE  BillInv'
<1> DEFINE w == requests[q]
           r == requests[q].repo
           u == TenantOfRepo(requests[q].repo)
<1>1. w # Idle /\ w \in RequestRow /\ At(q, "leave") /\ Deleting(q)
  BY HasRequest DEF CommitDelete, Deleting, DeleteSteps, At
<1>2. r \in Repo /\ UNCHANGED <<ledger, awaited, excused>>
  BY <1>1, InARepo DEF CommitDelete
<1>3. \A x \in Repo : repoObjects'[x] = IF x = r THEN repoObjects[r] \ w.rows ELSE repoObjects[x]
  BY <1>2 DEF CommitDelete, IInv, Tables, TypeOK
<1>4. /\ Others(q)
      /\ w.todo = {} => requests'[q].step = "idle"
      /\ w.todo # {} => /\ requests'[q].step = "credit" /\ requests'[q].todo = w.todo
                        /\ requests'[q].repo = r
  <2>1. CASE w.todo = {}
    BY <2>1, ReplyAfter DEF CommitDelete, IInv
  <2>2. CASE w.todo # {}
    <3>1. Change(q, "credit", w.todo, w.rows, w.untag, w.charge)
      BY <2>2 DEF CommitDelete, Goto, Change
    <3>2. Edited(q, "credit", w.todo, w.rows, w.untag, w.charge)
      BY <1>1, <3>1, HasColumns, Edits DEF IInv
    <3> QED
      BY <2>2, <3>2 DEF Edited
  <2> QED
    BY <2>1, <2>2
<1>5. RowsKnown(q)' /\ LeaveKnows(q)'
  BY <1>4 DEF RowsKnown, LeaveKnows, At
<1>6. \A t, b : ~Credits(q, t, b) /\ (Credits(q, t, b)' <=> b \in w.todo /\ t = u)
  BY <1>1, <1>4 DEF Credits, At, TenantOfRepo
<1>7. ASSUME NEW t \in Tenant, NEW b \in Blob, Clear(t, b)', Balanced(t, b), NotYet(t, b)
      PROVE  Balanced(t, b)' /\ NotYet(t, b)'
  <2>1. TenantHasBlob(t, b)' => TenantHasBlob(t, b)
    BY <1>3 DEF TenantHasBlob, TenantOfRepo
  <2>2. NotYet(t, b)'
    BY <1>2, <1>7, <2>1 DEF NotYet
  <2>3. CASE t # u
    <3>1. TenantHasBlob(t, b)' <=> TenantHasBlob(t, b)
      BY <1>3, <2>3 DEF TenantHasBlob, TenantOfRepo
    <3> QED
      BY <1>2, <1>4, <1>6, <1>7, <2>2, <2>3, <3>1, BalancedStill DEF Has
  <2>4. CASE t = u
    <3>1. Apart(t)
      BY <1>7, ApartBefore DEF Clear
    <3>2. r \in Undisturbed
      BY <1>2, <2>4, <3>1, ApartUndisturbed
    <3>3. w.rows \subseteq repoObjects[r]
      BY <3>2, CommitDeleteEffect
    <3>4. w.todo = OrphanedAtTenant(t, r, BlobRows(q))
      BY <1>1, <2>4, <3>1 DEF BillInv, LeaveKnows
    <3>5. TenantHasBlob(t, b)' <=> HeldWithout(t, b, r, BlobRows(q))
      BY <1>3 DEF TenantHasBlob, HeldWithout, BlobRows, TenantOfRepo
    <3>6. b \in w.todo <=> b \in w.rows /\ ~TenantHasBlob(t, b)'
      BY <3>4, <3>5 DEF OrphanedAtTenant, BlobRows
    <3>7. CASE b \in w.todo
      <4>1. TenantHasBlob(t, b) /\ ~TenantHasBlob(t, b)'
        BY <1>2, <2>4, <3>3, <3>6, <3>7 DEF TenantHasBlob
      <4>2. Has(t, b) /\ ~Has(t, b)'
        BY <1>2, <1>7, <4>1 DEF Has, NotYet
      <4>3. Crediting(t, b)' = Crediting(t, b) \cup {q} /\ q \notin Crediting(t, b)
        BY <1>4, <1>6, <2>4, <3>7, CreditingAfter
      <4>4. /\ Cardinality(Crediting(t, b)') = Cardinality(Crediting(t, b)) + 1
            /\ Cardinality(Crediting(t, b)) \in Nat
        BY <4>3, CreditingFinite, FS_AddElement
      <4>5. ledger'[t][b] = ledger[t][b]
        BY <1>2
      <4> QED
        BY <1>7, <2>2, <4>2, <4>4, <4>5 DEF Balanced
    <3>8. CASE b \notin w.todo
      <4>1. TenantHasBlob(t, b)' <=> TenantHasBlob(t, b)
        <5>1. CASE b \in w.rows
          BY <2>1, <3>6, <3>8, <5>1
        <5>2. CASE b \notin w.rows
          BY <1>3, <5>2 DEF TenantHasBlob, TenantOfRepo
        <5> QED
          BY <5>1, <5>2
      <4>2. ~Credits(q, t, b) /\ ~Credits(q, t, b)'
        BY <1>6, <3>8
      <4> QED
        BY <1>2, <1>4, <1>7, <2>2, <4>1, <4>2, BalancedStill DEF Has
    <3> QED
      BY <3>7, <3>8
  <2> QED
    BY <2>3, <2>4
<1> QED
  BY <1>2, <1>4, <1>5, <1>7, BillsAfter

\* A credit pays off one of those that credit, or is lost and excused.
LEMMA EmitCreditBills ==
    ASSUME IInv, BillInv, ServerNext, Grow, NEW q \in Request, NEW c \in Blob, EmitCredit(q, c)
    PROVE  BillInv'
<1> DEFINE w == requests[q]
           u == TenantOfRepo(requests[q].repo)
<1>1. w # Idle /\ w \in RequestRow /\ At(q, "credit") /\ c \in w.todo
  BY HasRequest DEF EmitCredit, At
<1>2. UNCHANGED <<repoObjects, awaited>> /\ Emit(w.repo, u, c, -1)
  BY DEF EmitCredit, vars
<1>3. /\ Others(q)
      /\ w.todo = {c} => requests'[q].step = "idle"
      /\ w.todo # {c} => /\ requests'[q].step = "credit" /\ requests'[q].todo = w.todo \ {c}
                         /\ requests'[q].repo = w.repo
  <2>1. CASE w.todo = {c}
    BY <2>1, ReplyAfter DEF EmitCredit, IInv
  <2>2. CASE w.todo # {c}
    <3>1. Change(q, "credit", w.todo \ {c}, w.rows, w.untag, w.charge)
      BY <1>1, <2>2 DEF EmitCredit, Change, At
    <3>2. Edited(q, "credit", w.todo \ {c}, w.rows, w.untag, w.charge)
      BY <1>1, <3>1, HasColumns, Edits DEF IInv
    <3> QED
      BY <2>2, <3>2 DEF Edited
  <2> QED
    BY <2>1, <2>2
<1>4. RowsKnown(q)' /\ LeaveKnows(q)'
  BY <1>3 DEF RowsKnown, LeaveKnows, At
<1>5. \A t, b : /\ Credits(q, t, b) <=> b \in w.todo /\ t = u
                /\ Credits(q, t, b)' <=> b \in w.todo /\ b # c /\ t = u
  BY <1>1, <1>3 DEF Credits, At, TenantOfRepo
<1>6. excused \subseteq excused'
  BY <1>2 DEF Emit
<1>7. u \in Tenant /\ ledger \in [Tenant -> [Blob -> Int]]
  BY <1>1, HasColumns, TenantTyped DEF IInv, Tables, Books
<1>8. ASSUME NEW t \in Tenant, NEW b \in Blob, Clear(t, b)', Balanced(t, b), NotYet(t, b)
      PROVE  Balanced(t, b)' /\ NotYet(t, b)'
  <2>1. NotYet(t, b)' /\ (Has(t, b)' <=> Has(t, b))
    BY <1>2, <1>8 DEF NotYet, Has, TenantHasBlob
  <2>2. CASE t = u /\ b = c
    <3>1. ledger'[t][b] = ledger[t][b] - 1 /\ ledger[t][b] \in Int
      BY <1>2, <1>7, <1>8, <2>2 DEF Emit, Clear
    <3>2. Credits(q, t, b) /\ ~Credits(q, t, b)'
      BY <1>1, <1>5, <2>2
    <3>3. Crediting(t, b)' = Crediting(t, b) \ {q} /\ q \in Crediting(t, b)
      BY <1>3, <3>2, CreditingAfter
    <3>4. /\ Cardinality(Crediting(t, b)') = Cardinality(Crediting(t, b)) - 1
          /\ Cardinality(Crediting(t, b)) \in Nat
      BY <3>3, CreditingFinite, FS_RemoveElement
    <3> QED
      BY <1>8, <2>1, <3>1, <3>4 DEF Balanced
  <2>3. CASE t # u \/ b # c
    <3>1. ledger'[t][b] = ledger[t][b]
      BY <1>2, <1>7, <2>3 DEF Emit
    <3>2. Credits(q, t, b) <=> Credits(q, t, b)'
      BY <1>5, <2>3
    <3> QED
      BY <1>3, <1>8, <2>1, <3>1, <3>2, BalancedStill
  <2> QED
    BY <2>2, <2>3
<1> QED
  BY <1>3, <1>4, <1>6, <1>8, BillsAfter

\* An upload charges what is neither held nor awaited, or it is excused.
LEMMA CompleteUploadBills ==
    ASSUME IInv, BillInv, ServerNext, Grow, NEW q \in Request, CompleteUpload(q), ChargeKnows(q)
    PROVE  BillInv'
<1> DEFINE c == requests[q].digest
           u == TenantOfRepo(requests[q].repo)
<1>1. requests[q] # Idle /\ requests[q] \in RequestRow /\ At(q, "store")
  BY HasRequest DEF CompleteUpload, At
<1>2. Reply(q) /\ repoObjects' = repoObjects /\ ~At(q, "credit")
  BY <1>1 DEF CompleteUpload, UpsertObjectBlob, At
<1>3. requests'[q].step = "idle" /\ Others(q)
  BY <1>2, ReplyAfter DEF IInv
<1>4. CASE UNCHANGED <<ledger, awaited, excused>>
  BY <1>2, <1>4, ReplyAside
<1>5. CASE excused' = excused \cup {<<u, c>>} /\ UNCHANGED <<ledger, awaited>>
  <2>1. ASSUME NEW t \in Tenant, NEW b \in Blob, Balanced(t, b), NotYet(t, b)
        PROVE  Balanced(t, b)' /\ NotYet(t, b)'
    <3>1. NotYet(t, b)' /\ (Has(t, b)' <=> Has(t, b))
      BY <1>2, <1>5, <2>1 DEF NotYet, Has, TenantHasBlob
    <3>2. ~Credits(q, t, b) /\ ~Credits(q, t, b)'
      BY <1>2, <1>3 DEF Credits, At
    <3> QED
      BY <1>3, <1>5, <2>1, <3>1, <3>2, BalancedStill
  <2> QED
    BY <1>2, <1>5, <2>1, ReplyBills
<1>6. CASE /\ requests[q].charge
           /\ ledger' = [ledger EXCEPT ![u][c] = @ + 1]
           /\ awaited' = awaited \cup {<<u, c>>}
           /\ excused' = IF <<u, c>> \in awaited
                         THEN excused \cup {<<u, c>>} ELSE excused
  <2>1. ASSUME NEW t \in Tenant, NEW b \in Blob, Clear(t, b)', Balanced(t, b), NotYet(t, b)
        PROVE  Balanced(t, b)' /\ NotYet(t, b)'
    <3>1. ~Credits(q, t, b) /\ ~Credits(q, t, b)'
      BY <1>2, <1>3 DEF Credits, At
    <3>2. TenantHasBlob(t, b)' <=> TenantHasBlob(t, b)
      BY <1>2 DEF TenantHasBlob
    <3>3. ledger \in [Tenant -> [Blob -> Int]]
      BY DEF IInv, Tables, Books
    <3>4. CASE t = u /\ b = c
      <4>1. <<t, b>> \notin awaited /\ <<t, b>> \notin excused
        BY <1>6, <2>1, <3>4 DEF Clear
      <4>2. ~TenantHasBlob(t, b)
        BY <1>1, <1>6, <3>4, <4>1 DEF ChargeKnows
      <4>3. ~Has(t, b) /\ Has(t, b)' /\ NotYet(t, b)'
        BY <1>6, <3>2, <3>4, <4>1, <4>2 DEF Has, NotYet
      <4>4. ledger'[t][b] = ledger[t][b] + 1
        BY <1>6, <3>3, <3>4
      <4>5. Crediting(t, b)' = Crediting(t, b) /\ Cardinality(Crediting(t, b)) \in Nat
        BY <1>3, <3>1, CreditingAfter, CreditingFinite
      <4> QED
        BY <2>1, <4>3, <4>4, <4>5 DEF Balanced
    <3>5. CASE t # u \/ b # c
      <4>1. ledger'[t][b] = ledger[t][b]
        BY <1>6, <3>3, <3>5
      <4>2. <<t, b>> \in awaited' <=> <<t, b>> \in awaited
        BY <1>6, <3>5
      <4>3. NotYet(t, b)' /\ (Has(t, b)' <=> Has(t, b))
        BY <2>1, <3>2, <4>2 DEF NotYet, Has
      <4> QED
        BY <1>3, <2>1, <3>1, <4>1, <4>3, BalancedStill
    <3> QED
      BY <3>4, <3>5
  <2> QED
    BY <1>2, <1>6, <2>1, ReplyBills
<1> QED
  BY <1>4, <1>5, <1>6 DEF CompleteUpload

\* A handler that fails owes nothing but what is excused.
LEMMA FailBills ==
    ASSUME IInv, BillInv, ServerNext, Grow, NEW q \in Request, Fail(q)
    PROVE  BillInv'
<1> DEFINE u == TenantOfRepo(requests[q].repo)
<1>1. Reply(q) /\ UNCHANGED <<repoObjects, ledger, awaited>>
  BY DEF Fail, vars
<1>2. requests'[q].step = "idle" /\ Others(q)
  BY <1>1, ReplyAfter DEF IInv
<1>3. CASE ~At(q, "credit")
  BY <1>1, <1>3, ReplyAside DEF Fail
<1>4. CASE At(q, "credit")
  <2>1. excused' = excused \cup {<<u, b>> : b \in requests[q].todo}
    BY <1>4 DEF Fail
  <2>2. ASSUME NEW t \in Tenant, NEW b \in Blob, Clear(t, b)', Balanced(t, b), NotYet(t, b)
        PROVE  Balanced(t, b)' /\ NotYet(t, b)'
    <3>1. ~Credits(q, t, b) /\ ~Credits(q, t, b)'
      BY <1>2, <2>1, <2>2 DEF Credits, At, Clear
    <3>2. NotYet(t, b)' /\ (Has(t, b)' <=> Has(t, b))
      BY <1>1, <2>2 DEF NotYet, Has, TenantHasBlob
    <3> QED
      BY <1>1, <1>2, <2>2, <3>1, <3>2, BalancedStill
  <2> QED
    BY <1>1, <2>1, <2>2, ReplyBills
<1> QED
  BY <1>3, <1>4

-----------------------------------------------------------------------------
(* What surrounds the handlers *)

\* A step of no handler, if what it takes is excused.
LEMMA NobodyBills ==
    ASSUME IInv, BillInv, ServerNext, Grow, UNCHANGED <<requests, ledger, awaited>>,
           excused \subseteq excused',
           \A t \in Tenant, b \in Blob :
              Clear(t, b)' => (TenantHasBlob(t, b)' <=> TenantHasBlob(t, b))
    PROVE  BillInv'
<1>1. ASSUME NEW t \in Tenant, NEW b \in Blob, Clear(t, b)' PROVE Balanced(t, b)' /\ NotYet(t, b)'
  <2>1. Clear(t, b)
    BY <1>1, ApartBefore DEF Clear
  <2>2. Balanced(t, b) /\ NotYet(t, b)
    BY <2>1 DEF BillInv
  <2>3. Crediting(t, b)' = Crediting(t, b)
    BY DEF Crediting, At, TenantOfRepo
  <2>4. TenantHasBlob(t, b)' <=> TenantHasBlob(t, b)
    BY <1>1
  <2> QED
    BY <2>2, <2>3, <2>4 DEF Balanced, Has, NotYet
<1>2. \A p \in Request : RowsKnown(p)' /\ LeaveKnows(p)'
  BY KnowsStill
<1> QED
  BY <1>1, <1>2 DEF BillInv

\* Repositories that go take what is excused.
LEMMA DropBills ==
    ASSUME IInv, BillInv, ServerNext, Grow, NEW R \in SUBSET Repo, DropRepositories(R), Drop(R)
    PROVE  BillInv'
<1>1. \A x \in Repo : repoObjects'[x] = IF x \in R THEN {} ELSE repoObjects[x]
  BY DEF DropRepositories
<1>2. ASSUME NEW t \in Tenant, NEW b \in Blob, Clear(t, b)'
      PROVE  TenantHasBlob(t, b)' <=> TenantHasBlob(t, b)
  <2>1. <<t, b>> \notin HeldOnlyIn(R)
    BY <1>2 DEF Clear, Drop
  <2>2. TenantHasBlob(t, b) => \E r \in Repo \ R : TenantOfRepo(r) = t /\ b \in repoObjects[r]
    BY <2>1 DEF HeldOnlyIn
  <2> QED
    BY <1>1, <2>2 DEF TenantHasBlob, TenantOfRepo
<1> QED
  BY <1>2, NobodyBills DEF Drop

\* Whatever happens, the bills are balanced.
LEMMA BillsHold ==
    ASSUME IInv, BillInv, Charges, ServerNext
    PROVE  BillInv'
<1>1. Grow
  BY HandlersHold
<1>2. ASSUME NEW q \in Request, Handle(q) PROVE BillInv'
  BY <1>1, <1>2, PushBills, LookBills, CommitUpsertBills, DeleteRowBills, SweepChildrenBills,
     SweepBlobsBills, FindTenantOrphansBills, CommitDeleteBills, EmitCreditBills,
     CheckOwnerBills, CompleteUploadBills DEF Handle, Charges
<1>3. ASSUME NEW b \in Blob, UploadElsewhere(b) PROVE BillInv'
  BY <1>1, <1>3, NobodyBills DEF UploadElsewhere, UpsertObjectBlob, TenantHasBlob
<1>4. ASSUME NEW r \in Repo, NEW t \in Tag, Untag(r, t) PROVE BillInv'
  BY <1>1, <1>4, NobodyBills DEF Untag, DeleteManifestReference, TenantHasBlob
<1>5. ASSUME Dropping PROVE BillInv'
  BY <1>1, <1>5, NobodyBills DEF Dropping, vars, TenantHasBlob
<1>6. ASSUME NEW R \in SUBSET Repo, DropRepositories(R), Drop(R) PROVE BillInv'
  BY <1>1, <1>6, DropBills
<1>7. ASSUME HandlersNext PROVE BillInv'
  BY <1>1, <1>2, <1>3, <1>4, <1>7, ArriveBills, FailBills DEF HandlersNext
<1> QED
  BY <1>5, <1>6, <1>7, DropsOnly DEF ServerNext

\* A tenant pays for a blob, once, exactly while it has it or has uploaded it to have
\* it, for any number of handlers that push, delete, credit and upload at a time:
\* unless one of the things in excused happened, or a delete overlapped.
THEOREM Billing == ServerSpec => []BillFollowsHoldings
<1>1. ServerInit => BillInv
  <2> SUFFICES ASSUME ServerInit PROVE BillInv
    OBVIOUS
  <2>1. \A q \in Request : requests[q].step = "idle"
    BY DEF ServerInit, Idle
  <2>2. \A q \in Request : RowsKnown(q) /\ LeaveKnows(q)
    BY <2>1 DEF RowsKnown, LeaveKnows, At
  <2>3. ASSUME NEW t \in Tenant, NEW b \in Blob PROVE Balanced(t, b) /\ NotYet(t, b)
    <3>1. Crediting(t, b) = {}
      BY <2>1 DEF Crediting, At
    <3>2. Cardinality(Crediting(t, b)) = 0
      BY <3>1, FS_EmptySet
    <3>3. ~TenantHasBlob(t, b)
      BY DEF ServerInit, TenantHasBlob
    <3>4. ledger[t][b] = IF <<t, b>> \in awaited THEN 1 ELSE 0
      BY DEF ServerInit
    <3> QED
      BY <3>2, <3>3, <3>4 DEF Balanced, Has, NotYet
  <2> QED
    BY <2>2, <2>3 DEF BillInv
<1>2. IInv /\ BillInv /\ Charges /\ [ServerNext]_serverVars => BillInv'
  <2> SUFFICES ASSUME IInv, BillInv, Charges, [ServerNext]_serverVars PROVE BillInv'
    OBVIOUS
  <2>1. CASE UNCHANGED serverVars
    <3>1. UNCHANGED <<repoObjects, requests, ledger, overlaps, awaited, excused>>
      BY <2>1 DEF serverVars, vars
    <3>2. \A t, b : /\ Crediting(t, b)' = Crediting(t, b)
                    /\ TenantHasBlob(t, b)' <=> TenantHasBlob(t, b)
      BY <3>1 DEF Crediting, TenantHasBlob, TenantOfRepo, At
    <3>3. \A t, b : Clear(t, b)' <=> Clear(t, b)
      BY <3>1 DEF Clear, Apart
    <3>4. \A t \in Tenant, b \in Blob : Clear(t, b)' => Balanced(t, b)' /\ NotYet(t, b)'
      BY <3>1, <3>2, <3>3 DEF BillInv, Balanced, Has, NotYet
    <3>5. \A q \in Request : RowsKnown(q)' /\ LeaveKnows(q)'
      BY <3>1 DEF BillInv, RowsKnown, LeaveKnows, Apart, BlobRows, OrphanedAtTenant,
         HeldWithout, TenantOfRepo, At
    <3> QED
      BY <3>4, <3>5 DEF BillInv
  <2> QED
    BY <2>1, BillsHold
<1>3. BillInv => BillFollowsHoldings
  BY DEF BillInv, Clear, Apart, Balanced, Has, BillFollowsHoldings
<1> QED
  BY <1>1, <1>2, <1>3, Invariant, ChargesStay, PTL DEF ServerSpec

\* But for the cases that are excused, no balance is ever negative, and with no credit
\* under way no tenant is billed for a blob more than once.
NoneOwedNoneTwice ==
    \A t \in Tenant, b \in Blob : Clear(t, b) =>
        /\ ledger[t][b] >= 0
        /\ (\A q \in Request : ~At(q, "credit")) => ledger[t][b] \in {0, 1}

\* So it takes one of those cases to make the storage that the monthly summary adds up go
\* below zero; the order in which pushes, deletes and uploads charge and credit does not.
THEOREM BalancesBounded == ServerSpec => []NoneOwedNoneTwice
<1>1. ASSUME IInv, BillFollowsHoldings, NEW t \in Tenant, NEW b \in Blob, Clear(t, b)
      PROVE  /\ ledger[t][b] >= 0
             /\ (\A q \in Request : ~At(q, "credit")) => ledger[t][b] \in {0, 1}
  <2>1. PICK n \in {0, 1} : ledger[t][b] = Cardinality(Crediting(t, b)) + n
    BY <1>1 DEF BillFollowsHoldings, Clear, Apart
  <2>2. Cardinality(Crediting(t, b)) \in Nat
    BY CreditingFinite
  <2>3. (\A q \in Request : ~At(q, "credit")) => Cardinality(Crediting(t, b)) = 0
    <3>1. (\A q \in Request : ~At(q, "credit")) => Crediting(t, b) = {}
      BY DEF Crediting
    <3> QED
      BY <3>1, FS_EmptySet
  <2> QED
    BY <2>1, <2>2, <2>3
<1>2. IInv /\ BillFollowsHoldings => NoneOwedNoneTwice
  BY <1>1 DEF NoneOwedNoneTwice
<1> QED
  BY <1>2, Invariant, Billing, PTL

=============================================================================
