------------------------------ MODULE Versions -------------------------------
(***************************************************************************)
(* The tax and catalog services as the owners of versioned entities (tax   *)
(* rates and product variants), and what the order service makes of the    *)
(* version events: the price and the tax rate it charges are those of the  *)
(* version it holds as the current one.                                    *)
(*                                                                         *)
(* A new version is numbered by a read of the highest number and inserted  *)
(* later in the same READ COMMITTED transaction.  Its event is published   *)
(* after the commit; the order service overwrites what it has with what    *)
(* comes, without looking at the number.                                   *)
(***************************************************************************)
EXTENDS Shop, SequencesExt

CONSTANTS
    TaxRates,       \* tax rate ids
    PricedVariants, \* product variant ids
    MaxVersions,    \* bound: versions ever made
    MaxVerFaults    \* bound: publishes and handlers that fail, repeated events

Entities == TaxRates \cup PricedVariants

ASSUME VersionsAssumption ==
    /\ TaxRates \cap PricedVariants = {} /\ None \notin Entities \cup Nat
    /\ {MaxVersions, MaxVerFaults} \subseteq Nat

VARIABLES
    versionRow,    \* the versions; ids are positions in the order of commits
    current,       \* current[e]: current version of the entity, None: no row
    mirrorTax,     \* tax rates the catalog knows of
    verInbox,      \* tax-rate/created and version events to be delivered
    orderCurrent,  \* orderCurrent[e]: the version the order service charges
    orderJob,      \* orderJob[n]: what the handler of version n is about to do
    verReq,        \* verReq[r]: the request r in progress
    verOverlap,    \* entities two transactions numbered at once (history)
    verCrossed,    \* entities whose events came out of order (history)
    verLost,       \* entities some event of which was never published (history)
    verFaults

verOwners == <<versionRow, current>>
verHistory == <<verOverlap, verCrossed, verLost>>
verVars == <<versionRow, current, mirrorTax, verInbox, orderCurrent,
             orderJob, verReq, verOverlap, verCrossed, verLost,
             verFaults>>

-----------------------------------------------------------------------------
VersionIds == 1 .. MaxVersions
TaxRateCreated(t) == <<"tax-rate/created", t>>
VersionCreated(n) == <<"version/created", n>>
VerEvents == {TaxRateCreated(t) : t \in TaxRates}
             \cup {VersionCreated(n) : n \in VersionIds}

VersionsOf(e) == {n \in DOMAIN versionRow : versionRow[n].entity = e}

(* A request: the entity it is about, the number it read, and the events    *)
(* still to publish.                                                        *)
VerIdle == [pc |-> "idle", entity |-> None, number |-> 0, events |-> <<>>]

VersionsTypeOK ==
    /\ \A n \in DOMAIN versionRow :
          /\ n <= MaxVersions
          /\ versionRow[n].entity \in Entities /\ versionRow[n].number \in Nat \ {0}
    /\ \A e \in Entities : current[e] = None \/ current[e] \in VersionsOf(e)
    /\ mirrorTax \subseteq TaxRates
    /\ verInbox \subseteq VerEvents
    /\ \A e \in Entities :
          orderCurrent[e] = None \/ orderCurrent[e] \in VersionsOf(e)
    /\ orderJob \in [VersionIds -> {"none", "insert", "update"}]
    /\ \A r \in Requests :
          /\ verReq[r].pc \in {"idle", "insert", "publish"}
          /\ verReq[r].number \in Nat
          /\ Range(verReq[r].events) \subseteq VerEvents
    /\ verOverlap \cup verCrossed \cup verLost \subseteq Entities
    /\ verFaults \in 0 .. MaxVerFaults

VersionsInit ==
    /\ versionRow = <<>>
    /\ current = [e \in Entities |-> None]
    /\ mirrorTax = {} /\ verInbox = {}
    /\ orderCurrent = [e \in Entities |-> None]
    /\ orderJob = [n \in VersionIds |-> "none"]
    /\ verReq = [r \in Requests |-> VerIdle]
    /\ verOverlap = {} /\ verCrossed = {} /\ verLost = {}
    /\ verFaults = 0

-----------------------------------------------------------------------------
(* The owners.                                                              *)
VerGoto(r, q) == verReq' = [verReq EXCEPT ![r] = q]
VerFrame == UNCHANGED <<mirrorTax, verInbox, orderCurrent, orderJob, verFaults>>

NewId == Len(versionRow) + 1

(* CommitPrevious: the current version is read before the insert.           *)
CommitPrevious(e, number) ==
    /\ NewId \in VersionIds
    /\ versionRow' = Append(versionRow, [entity |-> e, number |-> number])
    /\ current' = [current EXCEPT ![e] = NewId - 1]

(* The commit of a version: its row is inserted and becomes the current one.*)
Commit(e, number) ==
    /\ NewId \in VersionIds
    /\ versionRow' = Append(versionRow, [entity |-> e, number |-> number])
    /\ current' = [current EXCEPT ![e] = NewId]

Publishing(events) == [VerIdle EXCEPT !.pc = "publish", !.events = events]

(* A new entity shows with its first version, which nobody else can number. *)
CreateTaxRate(r, t) ==
    /\ verReq[r].pc = "idle"
    /\ current[t] = None
    /\ Commit(t, 1)
    /\ VerGoto(r, Publishing(<<TaxRateCreated(t), VersionCreated(NewId)>>))
    /\ UNCHANGED verHistory
    /\ VerFrame

(* createProduct and createProductVariant: the variant refers to a tax rate *)
(* the catalog knows of.  product/created and product-variant/created go    *)
(* before the event of the version, to services that do not look at it.     *)
CreateVariant(r, v) ==
    /\ verReq[r].pc = "idle"
    /\ current[v] = None
    /\ mirrorTax # {}
    /\ Commit(v, 1)
    /\ VerGoto(r, Publishing(<<VersionCreated(NewId)>>))
    /\ UNCHANGED verHistory
    /\ VerFrame

NumbersOf(e) == {versionRow[n].number : n \in VersionsOf(e)}

(* HighestNumber: the + 1 is missing.                                       *)
HighestNumber(e) == Max({1} \cup NumbersOf(e))
NextNumber(e) == 1 + Max({0} \cup NumbersOf(e))

(* createTaxRateVersion and createProductVariantVersion up to the read of   *)
(* the highest number; a variant needs a tax rate the catalog knows.        *)
NumberVersion(r, e) ==
    /\ verReq[r].pc = "idle"
    /\ current[e] # None
    /\ e \in PricedVariants => mirrorTax # {}
    /\ VerGoto(r, [VerIdle EXCEPT !.pc = "insert", !.entity = e,
                                  !.number = NextNumber(e)])
    /\ verOverlap' = IF \E x \in Requests : verReq[x].pc = "insert"
                                            /\ verReq[x].entity = e
                     THEN verOverlap \cup {e} ELSE verOverlap
    /\ UNCHANGED <<verOwners, verCrossed, verLost>>
    /\ VerFrame

InsertVersion(r) ==
    LET q == verReq[r] IN
    /\ q.pc = "insert"
    /\ Commit(q.entity, q.number)
    /\ VerGoto(r, Publishing(<<VersionCreated(NewId)>>))
    /\ UNCHANGED verHistory
    /\ VerFrame

(* The events of a request are published one by one after the commit.       *)
PublishNext(r) ==
    LET q == verReq[r] IN
    /\ q.pc = "publish"
    /\ verInbox' = verInbox \cup {Head(q.events)}
    /\ VerGoto(r, IF Len(q.events) = 1 THEN VerIdle
                  ELSE [q EXCEPT !.events = Tail(@)])
    /\ UNCHANGED <<verOwners, mirrorTax, orderCurrent, orderJob, verHistory,
                   verFaults>>

(* One that fails takes those after it along; the rows stay.                *)
PublishNextFails(r) ==
    LET q == verReq[r] IN
    /\ q.pc = "publish"
    /\ verFaults < MaxVerFaults /\ verFaults' = verFaults + 1
    /\ verLost' = verLost \cup
          {e \in Entities : \E n \in VersionsOf(e) :
                               VersionCreated(n) \in Range(q.events)}
    /\ VerGoto(r, VerIdle)
    /\ UNCHANGED <<verOwners, mirrorTax, verInbox, orderCurrent, orderJob,
                   verOverlap, verCrossed>>

(* A statement fails: the transaction is rolled back.                       *)
VerRequestFails(r) ==
    /\ verReq[r].pc = "insert"
    /\ VerGoto(r, VerIdle)
    /\ UNCHANGED <<verOwners, verHistory>>
    /\ VerFrame

-----------------------------------------------------------------------------
(* The subscribers.  The catalog inserts the id of a tax rate.              *)
RegisterTaxRate(t) ==
    /\ TaxRateCreated(t) \in verInbox
    /\ verInbox' = verInbox \ {TaxRateCreated(t)}
    /\ mirrorTax' = mirrorTax \cup {t}
    /\ UNCHANGED <<verOwners, orderCurrent, orderJob, verReq, verHistory, verFaults>>

(* Version n comes after a later one of its entity was taken, comes again,  *)
(* or comes while another is being handled.                                 *)
CrossedBy(n) ==
    LET e == versionRow[n].entity IN
    IF \/ orderCurrent[e] # None /\ orderCurrent[e] >= n
       \/ \E m \in VersionsOf(e) : orderJob[m] # "none"
    THEN verCrossed \cup {e} ELSE verCrossed

(* UpsertTaxRate: one upsert.                                               *)
OnTaxRateVersionCreated(n) ==
    LET e == versionRow[n].entity IN
    /\ VersionCreated(n) \in verInbox /\ e \in TaxRates
    /\ verInbox' = verInbox \ {VersionCreated(n)}
    /\ orderCurrent' = [orderCurrent EXCEPT ![e] = n]
    /\ verCrossed' = CrossedBy(n)
    /\ UNCHANGED <<verOwners, mirrorTax, orderJob, verReq, verOverlap, verLost,
                   verFaults>>

(* A product variant is looked up first.                                    *)
OnProductVariantVersionCreated(n) ==
    LET e == versionRow[n].entity IN
    /\ VersionCreated(n) \in verInbox /\ e \in PricedVariants /\ orderJob[n] = "none"
    /\ verInbox' = verInbox \ {VersionCreated(n)}
    /\ orderJob' = [orderJob EXCEPT ![n] =
                       IF orderCurrent[e] = None THEN "insert" ELSE "update"]
    /\ verCrossed' = CrossedBy(n)
    /\ UNCHANGED <<verOwners, mirrorTax, orderCurrent, verReq, verOverlap,
                   verLost, verFaults>>

InsertProductVariant(n) ==
    LET e == versionRow[n].entity IN
    /\ orderJob[n] = "insert"
    /\ orderJob' = [orderJob EXCEPT ![n] = "none"]
    /\ IF orderCurrent[e] = None
       THEN orderCurrent' = [orderCurrent EXCEPT ![e] = n] /\ UNCHANGED verInbox
       ELSE verInbox' = verInbox \cup {VersionCreated(n)}
            /\ UNCHANGED orderCurrent
    /\ UNCHANGED <<verOwners, mirrorTax, verReq, verHistory, verFaults>>

(* UpdateNothing: a variant that is there is left as it is.                 *)
UpdateNothing(n) ==
    /\ orderJob[n] = "update"
    /\ orderJob' = [orderJob EXCEPT ![n] = "none"]
    /\ UNCHANGED <<verOwners, mirrorTax, verInbox, orderCurrent, verReq,
                   verHistory, verFaults>>

UpdateProductVariantVersion(n) ==
    /\ orderJob[n] = "update"
    /\ orderJob' = [orderJob EXCEPT ![n] = "none"]
    /\ orderCurrent' = [orderCurrent EXCEPT ![versionRow[n].entity] = n]
    /\ UNCHANGED <<verOwners, mirrorTax, verInbox, verReq, verHistory, verFaults>>

(* A handler fails, or an event that was handled comes again.               *)
VersionAgain(n) ==
    /\ n \in DOMAIN versionRow /\ versionRow[n].entity \notin verLost
    /\ VersionCreated(n) \notin verInbox
    /\ \A r \in Requests : VersionCreated(n) \notin Range(verReq[r].events)
    /\ verFaults < MaxVerFaults /\ verFaults' = verFaults + 1
    /\ verInbox' = verInbox \cup {VersionCreated(n)}
    /\ orderJob' = [orderJob EXCEPT ![n] = "none"]
    /\ UNCHANGED <<verOwners, mirrorTax, orderCurrent, verReq, verHistory>>

-----------------------------------------------------------------------------
VerRequest(r) ==
    \/ \E t \in TaxRates : CreateTaxRate(r, t)
    \/ \E v \in PricedVariants : CreateVariant(r, v)
    \/ \E e \in Entities : NumberVersion(r, e)
    \/ InsertVersion(r) \/ PublishNext(r) \/ PublishNextFails(r)
    \/ VerRequestFails(r)

VerHandle(n) ==
    \/ n \in DOMAIN versionRow
       /\ (OnTaxRateVersionCreated(n) \/ OnProductVariantVersionCreated(n))
    \/ InsertProductVariant(n)
    \/ UpdateProductVariantVersion(n)

VersionsNext ==
    \/ \E r \in Requests : VerRequest(r)
    \/ \E t \in TaxRates : RegisterTaxRate(t)
    \/ \E n \in VersionIds : VerHandle(n) \/ VersionAgain(n)

VersionsSpec == VersionsInit /\ [][VersionsNext]_verVars

-----------------------------------------------------------------------------
(* Two versions of an entity have the same number only if the transactions  *)
(* that made them overlapped: no lock and no constraint keeps the read of   *)
(* the highest number and the insert together (insertTaxRateVersion,        *)
(* createVersionInternal).                                                  *)
NumbersAreUnique ==
    \A n, m \in DOMAIN versionRow :
        /\ n # m
        /\ versionRow[n].entity = versionRow[m].entity
        /\ versionRow[n].number = versionRow[m].number
        => versionRow[n].entity \in verOverlap

(* When no event of an entity is under way, the order service charges the   *)
(* version its owner shows as the current one, unless an event was never    *)
(* published or the events came out of order: then it charges another one   *)
(* until the next version.                                                  *)
Settled(e) ==
    /\ \A n \in VersionsOf(e) : VersionCreated(n) \notin verInbox
                                /\ orderJob[n] = "none"
    /\ \A r \in Requests : \A n \in VersionsOf(e) :
          VersionCreated(n) \notin Range(verReq[r].events)

OrderChargesCurrent ==
    \A e \in Entities :
        Settled(e) /\ e \notin verCrossed \cup verLost =>
            orderCurrent[e] = current[e]
=============================================================================
