---------------------------- MODULE CatalogFiles ----------------------------
(***************************************************************************)
(* What one CSV file brings to the catalog: parse_csv_snapshot,             *)
(* extract_source_identity and the filters of import_snapshot, over files   *)
(* given as sequences of rows.  A row is the source identity its URL holds, *)
(* or Untrusted when the row has to be deferred: no name, no URL, a URL     *)
(* without a trustworthy id, no valid price.                                *)
(***************************************************************************)
EXTENDS Naturals, Sequences

CONSTANTS Retailer, Identity, Content,
          Rows,         \* the rows of each file content
          NsOf,         \* the retailer whose extractor finds the id in a URL
          Untrusted,    \* a row that is deferred for every retailer
          Malformed,    \* contents on which parse_csv_snapshot itself raises
          Filter        \* ingest filters: the observations each one matches

ASSUME CatalogFilesAssumption ==
    /\ Rows \in [Content -> Seq(Identity \cup {Untrusted})]
    /\ NsOf \in [Identity -> Retailer]
    /\ Untrusted \notin Identity
    /\ Malformed \subseteq Content
    /\ Filter \subseteq SUBSET (Content \X Identity)

(* parse_csv_snapshot: the rows of c that become observations of r.         *)
Observations(r, c) ==
    {n \in DOMAIN Rows[c] : Rows[c][n] # Untrusted /\ NsOf[Rows[c][n]] = r}

(* _partition_unique_observations: an identity met twice is skipped.        *)
Unique(r, c) ==
    {n \in Observations(r, c) :
        \A m \in Observations(r, c) : Rows[c][m] = Rows[c][n] => m = n}

(* Mutant: the filter sees the observations before the duplicates go.       *)
MatchedWithDuplicates(r, c, f) == {n \in Observations(r, c) : <<c, Rows[c][n]>> \in f}

(* _apply_ingest_filter.                                                    *)
Matched(r, c, f) == {n \in Unique(r, c) : <<c, Rows[c][n]>> \in f}

Seen(c, rows) == {Rows[c][n] : n \in rows}

(* The empty filter, which is bulk ingest.                                  *)
Bulk == Content \X Identity
=============================================================================
