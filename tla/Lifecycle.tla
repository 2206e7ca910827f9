------------------------------ MODULE Lifecycle ------------------------------
(***************************************************************************)
(* What a collection of documents with server-made ids promises: a         *)
(* document is inserted once, is about the same thing for as long as it    *)
(* exists, and once it was deleted its id is never seen again.  The        *)
(* shopping cart, the reviews and the wishlists implement this.            *)
(***************************************************************************)
CONSTANTS
    Ids,       \* ids of documents
    Subjects   \* what a document can be about: its owner, its product variant

VARIABLES
    life,      \* life[i]: "absent", "present" or "gone"
    about      \* about[i]: the subject of a document that is present

Init == life = [i \in Ids |-> "absent"]

Keep(i) == life'[i] = life[i] /\ (life[i] = "present" => about'[i] = about[i])
Insert(i) == life[i] = "absent" /\ life'[i] = "present" /\ about'[i] \in Subjects
Delete(i) == life[i] = "present" /\ life'[i] = "gone"

(* One write inserts and deletes any number of documents.                   *)
Write == \A i \in Ids : Keep(i) \/ Insert(i) \/ Delete(i)

Spec == Init /\ [][Write]_<<life, about>>
=============================================================================
