--------------------------- MODULE MCMarketingCms ---------------------------
(***************************************************************************)
(* Small instances of MarketingCms for TLC.                                *)
(***************************************************************************)
EXTENDS MarketingCms, TLC

Scalars == [exact |-> TRUE, scalars |-> TRUE]

Block(heading, ctas) ==
    [exact |-> TRUE, scalars |-> heading, ctas |-> ctas,
     items |-> <<[exact |-> TRUE, scalars |-> TRUE, cta |-> Scalars]>>]

Page(schema, oversize, blocks) ==
    [exact |-> TRUE, oversize |-> oversize, schemaVersion |-> schema,
     blocks |-> blocks, seo |-> Scalars]

\* A good page, one whose block has a call to action with an unknown key, and
\* one beyond the size limit.
Good == Page(1, FALSE, <<Block(TRUE, <<Scalars>>)>>)
BadCta == Page(2, FALSE, <<Block(TRUE, <<[exact |-> FALSE, scalars |-> TRUE]>>)>>)
Oversize == Page(3, TRUE, <<Block(TRUE, << >>)>>)

Drafts == {"good", "badCta", "oversize"}

Structure == [good |-> Good, badCta |-> BadCta, oversize |-> Oversize]

EditorSymmetry == Permutations(Editors)
=============================================================================
