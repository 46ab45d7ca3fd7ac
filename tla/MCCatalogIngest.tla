--------------------------- MODULE MCCatalogIngest ---------------------------
(* Small instances of CatalogIngest for TLC: one course scraped with its    *)
(* code or without, the same code with other content, under one key.        *)
EXTENDS CatalogIngest, TLC

CONSTANTS coded, changed, uncoded, code

MCCodeOf == coded :> code @@ changed :> code @@ uncoded :> NoCode
Tr(cells, bad, row) == [cells |-> cells, bad |-> bad, row |-> row]
Page(total, links, trs) == [total |-> total, links |-> links, trs |-> trs]

\* An empty catalog; two rows of one course over two pages, the second page with a
\* banner and a row that lacks its credit; one page without a marker; two pages
\* with an odd description; a missing link; nothing that is understood.
MCSites == {
  <<Page(1, {}, <<Tr(1, {}, coded)>>)>>,
  <<Page(2, {2}, <<Tr(25, {}, coded)>>),
    Page(2, {1}, <<Tr(1, {}, coded), Tr(25, {8}, uncoded), Tr(25, {}, changed)>>)>>,
  <<Page(0, {}, <<Tr(25, {}, uncoded)>>)>>,
  <<Page(2, {7}, <<Tr(26, {24}, changed)>>), Page(2, {}, <<Tr(25, {}, uncoded)>>)>>,
  <<Page(2, {}, <<Tr(25, {}, coded)>>), Page(2, {}, <<Tr(25, {}, coded)>>)>>,
  <<Page(1, {}, <<Tr(25, {5, 8}, coded)>>)>> }
MCKeyOf == [r \in Rows |-> "key"]
=============================================================================
