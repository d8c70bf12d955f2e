------------------------------- MODULE Records -------------------------------
(* What src/hodl/report.py makes of a comparison's rows: comparison_records, which
   is printed as one table for each date and exported as one CSV file.  A row is a
   record [strategy, asset, target, status, usd]. *)
EXTENDS Integers, Sequences

CONSTANTS VaultsOf,  \* names of the catalog's plain vaults on a starting asset
          None

IsComplete(row) == row.status = "complete" /\ row.usd # None

\* the rows among which the best of a row's date is sought
OptionsOfAsset(rows, row) ==
  {i \in DOMAIN rows : /\ rows[i].asset = row.asset /\ rows[i].target = row.target
                       /\ IsComplete(rows[i])}
OptionsAtAnyDate(rows, row) == {i \in DOMAIN rows : IsComplete(rows[i])}
Options(rows, row) ==
  {i \in DOMAIN rows : rows[i].target = row.target /\ IsComplete(rows[i])}

\* max(): the first of the greatest
Greatest(rows, S) ==
  IF S = {} THEN None
  ELSE rows[CHOOSE i \in S : \A j \in S : \/ rows[j].usd < rows[i].usd
                                          \/ rows[j].usd = rows[i].usd /\ i <= j]
winner(rows, row) == Greatest(rows, Options(rows, row))

Group(rows, row) ==
  {i \in DOMAIN rows : rows[i].asset = row.asset /\ rows[i].target = row.target}
VaultRows(rows, row) ==
  {i \in Group(rows, row) : rows[i].strategy \in VaultsOf[row.asset]}
vault(rows, row) ==
  Greatest(rows, {i \in VaultRows(rows, row) : IsComplete(rows[i])})
vault_status(rows, row) ==
  IF vault(rows, row) # None THEN "complete"
  ELSE IF VaultsOf[row.asset] = {} THEN "not in catalog"
  ELSE IF VaultRows(rows, row) # {} THEN "unavailable" ELSE "not selected"

Versus(row, other) ==
  IF row.status = "complete" /\ row.usd # None /\ other # None THEN row.usd - other.usd
  ELSE None
comparison_record(rows, row) ==
  [row |-> row, best |-> winner(rows, row), versus_best |-> Versus(row, winner(rows, row)),
   vault |-> vault(rows, row), vault_status |-> vault_status(rows, row),
   versus_vault |-> Versus(row, vault(rows, row))]
comparison_records(rows) ==
  [i \in DOMAIN rows |-> comparison_record(rows, rows[i])]

\* render(): the rows of one date, at their places, compared with each other
RowsAt(rows, target) == {i \in DOMAIN rows : rows[i].target = target}
table(rows, target) == comparison_records([i \in RowsAt(rows, target) |-> rows[i]])
\* asset_table(): its headline is that of the first record of the asset
headline(records, asset) ==
  LET places == {i \in DOMAIN records : records[i].row.asset = asset}
      first == records[CHOOSE i \in places : \A j \in places : i <= j]
  IN  [best |-> first.best, vault |-> first.vault, vault_status |-> first.vault_status]
=============================================================================
