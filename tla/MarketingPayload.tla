-------------------------- MODULE MarketingPayload --------------------------
(***************************************************************************)
(* What MarketingRepository.ts accepts as a published page.                *)
(*                                                                         *)
(* An object of the payload is a record: "exact" says that it has no key   *)
(* outside its list, "scalars" that each of its strings, booleans and      *)
(* enumerated values passes its own check; arrays are sequences, an absent *)
(* array the empty one.                                                    *)
(***************************************************************************)
EXTENDS Integers, Sequences

CONSTANTS MAX_BLOCKS, MAX_ITEMS, MAX_CTAS, None

RequireScalars(object) == object.exact /\ object.scalars

RequireCta(cta) == RequireScalars(cta)

RequireCtasArray(ctas) ==
    /\ Len(ctas) <= MAX_CTAS
    /\ \A i \in DOMAIN ctas : RequireCta(ctas[i])

RequireItem(item) ==
    /\ RequireScalars(item)
    /\ item.cta # None => RequireCta(item.cta)

RequireItemsArray(items) ==
    /\ Len(items) <= MAX_ITEMS
    /\ \A i \in DOMAIN items : RequireItem(items[i])

RequireBlock(block) ==
    /\ RequireScalars(block)
    /\ RequireCtasArray(block.ctas)
    /\ RequireItemsArray(block.items)

RequireBlocksArray(blocks) ==
    /\ Len(blocks) \in 1 .. MAX_BLOCKS
    /\ \A i \in DOMAIN blocks : RequireBlock(blocks[i])

RequireSeo(seo) == RequireScalars(seo)

\* The page is served; otherwise the public read answers with an error.
RequirePagePayload(payload) ==
    /\ payload.exact
    /\ payload.schemaVersion >= 1
    /\ RequireBlocksArray(payload.blocks)
    /\ RequireSeo(payload.seo)
=============================================================================
