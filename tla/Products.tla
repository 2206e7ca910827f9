------------------------------ MODULE Products -------------------------------
(***************************************************************************)
(* The rows of products and product variants in the catalog service.       *)
(*                                                                         *)
(* An update loads the row, replaces the fields the request asked for, and *)
(* writes the whole row back; the transaction is READ COMMITTED and the    *)
(* load takes no lock.  The versions of a variant are the subject of       *)
(* module Versions.  The internal name, a field like the visibility, and   *)
(* the categories, which never change, are left out.                       *)
(***************************************************************************)
EXTENDS Shop

CONSTANTS
    CatProducts,  \* product ids
    CatVariants   \* product variant ids

ProductRows == [visible : BOOLEAN, default : CatVariants]
VariantRows == [product : CatProducts, visible : BOOLEAN]

ASSUME ProductsAssumption ==
    /\ CatProducts \cap CatVariants = {}
    /\ None \notin CatProducts \cup CatVariants \cup ProductRows \cup VariantRows

VARIABLES
    product,      \* product[p]: visibility and default variant, or None
    variant,      \* variant[v]: its product and its visibility, or None
    prodReq       \* prodReq[r]: the update r in progress

prodVars == <<product, variant, prodReq>>

-----------------------------------------------------------------------------
(* An update: the row it will write, the fields it asked for, and whether   *)
(* no other update of the row was in progress with it (history).            *)
ProdIdle == [id |-> None, row |-> None, asked |-> {}, alone |-> TRUE]

ProductsTypeOK ==
    /\ product \in [CatProducts -> ProductRows \cup {None}]
    /\ variant \in [CatVariants -> VariantRows \cup {None}]
    /\ \A r \in Requests :
          LET q == prodReq[r] IN
          /\ q.id \in CatProducts \cup CatVariants \cup {None}
          /\ q.id \in CatProducts => q.row \in ProductRows
          /\ q.id \in CatVariants => q.row \in VariantRows
          /\ q.asked \subseteq {"visible", "default"}
          /\ q.alone \in BOOLEAN

ProductsInit ==
    /\ product = [p \in CatProducts |-> None]
    /\ variant = [v \in CatVariants |-> None]
    /\ prodReq = [r \in Requests |-> ProdIdle]

-----------------------------------------------------------------------------
(* CreateProductUnpatched: the default variant is not filled in.            *)
CreateProductUnpatched(p, v, shown, variantShown) ==
    /\ product[p] = None /\ variant[v] = None
    /\ product' = [product EXCEPT ![p] = [visible |-> shown, default |-> None]]
    /\ variant' = [variant EXCEPT ![v] = [product |-> p, visible |-> variantShown]]
    /\ UNCHANGED prodReq

(* One transaction inserts the product, its default variant and the first   *)
(* version of it.                                                           *)
CreateProduct(p, v, shown, variantShown) ==
    /\ product[p] = None /\ variant[v] = None
    /\ product' = [product EXCEPT ![p] = [visible |-> shown, default |-> v]]
    /\ variant' = [variant EXCEPT ![v] = [product |-> p, visible |-> variantShown]]
    /\ UNCHANGED prodReq

CreateProductVariant(p, v, shown) ==
    /\ product[p] # None /\ variant[v] = None
    /\ variant' = [variant EXCEPT ![v] = [product |-> p, visible |-> shown]]
    /\ UNCHANGED <<product, prodReq>>

(* The updates of a row in progress; the load of another one ends the       *)
(* solitude of all of them.                                                 *)
UpdatesOf(id) == {r \in Requests : prodReq[r].id = id}
Load(r, id, row, asked) ==
    /\ prodReq[r].id = None
    /\ prodReq' = [x \in Requests |->
          IF x = r THEN [id |-> id, row |-> row, asked |-> asked,
                         alone |-> UpdatesOf(id) = {}]
          ELSE IF x \in UpdatesOf(id) THEN [prodReq[x] EXCEPT !.alone = FALSE]
          ELSE prodReq[x]]
    /\ UNCHANGED <<product, variant>>

Patched(row, fields) ==
    [f \in DOMAIN row |-> IF f \in DOMAIN fields THEN fields[f] ELSE row[f]]

(* UpdateProductAny: the product of the new default variant is not checked. *)
UpdateProductAny(r, p, fields) ==
    /\ product[p] # None
    /\ "default" \in DOMAIN fields => variant[fields.default] # None
    /\ Load(r, p, Patched(product[p], fields), DOMAIN fields)

(* updateProduct up to the write: a new default variant is one of the       *)
(* product's own.                                                           *)
UpdateProduct(r, p, fields) ==
    /\ product[p] # None
    /\ "default" \in DOMAIN fields =>
          variant[fields.default] # None /\ variant[fields.default].product = p
    /\ Load(r, p, Patched(product[p], fields), DOMAIN fields)

(* updateProductVariant: a visibility that is not given is written all the  *)
(* same.                                                                    *)
UpdateProductVariant(r, v, fields) ==
    /\ variant[v] # None
    /\ Load(r, v, Patched(variant[v], fields), DOMAIN fields)

(* WriteZeroValues: a visibility that was not asked for is written as zero. *)
WriteZeroValues(r) ==
    LET q == prodReq[r]
        row == IF "visible" \in q.asked THEN q.row
               ELSE [q.row EXCEPT !.visible = FALSE]
    IN  /\ q.id # None
        /\ IF q.id \in CatProducts
           THEN product' = [product EXCEPT ![q.id] = row] /\ UNCHANGED variant
           ELSE variant' = [variant EXCEPT ![q.id] = row] /\ UNCHANGED product
        /\ prodReq' = [prodReq EXCEPT ![r] = ProdIdle]

WriteRow(r) ==
    LET q == prodReq[r] IN
    /\ q.id # None
    /\ IF q.id \in CatProducts
       THEN product' = [product EXCEPT ![q.id] = q.row] /\ UNCHANGED variant
       ELSE variant' = [variant EXCEPT ![q.id] = q.row] /\ UNCHANGED product
    /\ prodReq' = [prodReq EXCEPT ![r] = ProdIdle]

(* A statement fails, and the transaction is rolled back.                   *)
UpdateFails(r) ==
    /\ prodReq[r].id # None
    /\ prodReq' = [prodReq EXCEPT ![r] = ProdIdle]
    /\ UNCHANGED <<product, variant>>

-----------------------------------------------------------------------------
ShownPatch == UNION {[F -> BOOLEAN] : F \in SUBSET {"visible"}}
ProductPatch ==
    {fields \in UNION {[F -> BOOLEAN \cup CatVariants] :
                          F \in SUBSET {"visible", "default"}} :
        /\ "visible" \in DOMAIN fields => fields.visible \in BOOLEAN
        /\ "default" \in DOMAIN fields => fields.default \in CatVariants}

ProductsNext ==
    \/ \E p \in CatProducts, v \in CatVariants, shown \in BOOLEAN :
          \/ \E variantShown \in BOOLEAN : CreateProduct(p, v, shown, variantShown)
          \/ CreateProductVariant(p, v, shown)
    \/ \E r \in Requests, p \in CatProducts, fields \in ProductPatch :
          UpdateProduct(r, p, fields)
    \/ \E r \in Requests, v \in CatVariants : \E s \in ShownPatch :
          UpdateProductVariant(r, v, s)
    \/ \E r \in Requests : WriteRow(r) \/ UpdateFails(r)

ProductsSpec == ProductsInit /\ [][ProductsNext]_prodVars

-----------------------------------------------------------------------------
(* A field of a product or a variant changes only by an update that asked   *)
(* for it, or by one that overlapped with another update of the row, whose  *)
(* change its stale row undoes (UpdateProduct, UpdateProductVariant): an    *)
(* update that leaves a field alone reverts no update that was answered     *)
(* before it began.                                                         *)
KeepsFields(r) ==
    LET q == prodReq[r] IN
    prodReq'[r] # q /\ q.alone =>
       /\ q.id \in CatProducts =>
             \A f \in {"visible", "default"} \ q.asked :
                product'[q.id][f] = product[q.id][f]
       /\ q.id \in CatVariants =>
             \A f \in {"product", "visible"} \ q.asked :
                variant'[q.id][f] = variant[q.id][f]

(* Every update of a product or variant keeps what KeepsFields asks of it.  *)
FieldsKept == [][\A r \in Requests : KeepsFields(r)]_prodVars

(* The default variant of a product is one of its own, whatever is created  *)
(* and updated at once.                                                     *)
DefaultIsOwn ==
    \A p \in CatProducts : product[p] # None =>
        variant[product[p].default] # None
        /\ variant[product[p].default].product = p
=============================================================================
