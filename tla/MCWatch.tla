------------------------------- MODULE MCWatch --------------------------------
(* Watch over small tables and what a few statements do to them, for TLC.   *)
EXTENDS Watch

Col(name, type, auto, primary) ==
  [name |-> name, type |-> type, auto |-> auto, primary |-> primary,
   dated |-> name \in {"created_at", "updated_at"}, safe |-> TRUE]

Serial  == Col("id", "bigint", TRUE, TRUE)
Given   == Col("id", "int", FALSE, TRUE)
Uuid    == Col("id", "uuid", FALSE, TRUE)
Created == Col("created_at", "timestamp", FALSE, FALSE)
Updated == Col("updated_at", "timestamp", FALSE, FALSE)
Changed == [Updated EXCEPT !.type = "date"]
Odd     == [Serial EXCEPT !.safe = FALSE]

Shapes ==
  {<<Serial>>, <<Serial, Updated>>, <<Updated, Serial>>, <<Given, Updated>>, <<Uuid>>, <<Uuid, Updated>>,
   <<Uuid, Created, Updated>>, <<Uuid, Changed>>, <<Odd, Changed>>}

\* A copy: the table in question, another that nothing touches, one with a name that cannot
\* be quoted, and a directory.
Table(cols) == [cols |-> cols, rows |-> <<>>, safe |-> TRUE]

Begun(cols) ==
  [tables |-> [orders |-> Table(cols), rooms |-> [Table(<<Uuid>>) EXCEPT !.rows = 7 :> [id |-> 1]],
               other  |-> [Table(cols) EXCEPT !.safe = FALSE]],
   dirs |-> <<[base |-> "uploads", files |-> 0]>>, tick |-> 0]

\* The values of a row that is written now: a serial column takes the next of its sequence, an
\* integer the writer gives is any that is free, a date the day, the rest takes the time.
Fresh(col, now, old) ==
  CASE col.auto                                           -> {now}
    [] col.primary                                        -> (1..4) \ {old[r].id : r \in DOMAIN old}
    [] col.type = "date"                                  -> {1}
    [] OTHER                                              -> {now}

RowsOf(cols, now, old) ==
  {r \in [{cols[k].name : k \in DOMAIN cols} -> 1..4] :
     \A k \in DOMAIN cols : r[cols[k].name] \in Fresh(cols[k], now, old)}

Stamped(cols, row, now) == [c \in DOMAIN row |-> IF c = "updated_at" /\ Changed \notin cols THEN now ELSE row[c]]

\* A statement, an upload, and a migration.
After(c) ==
  LET now  == c.tick + 1
      old  == c.tables.orders.rows
      cols == c.tables.orders.cols
      put(them) == [c EXCEPT !.tables.orders.rows = them, !.tick = now]
  IN  IF "orders" \notin DOMAIN c.tables THEN {}
      ELSE {put((now :> row) @@ old) : row \in RowsOf(cols, now, old)}
           \cup {put([old EXCEPT ![r] = Stamped({cols[k] : k \in DOMAIN cols}, @, now)]) : r \in DOMAIN old}
           \cup {put([q \in DOMAIN old \ {r} |-> old[q]]) : r \in DOMAIN old}
           \cup {[c EXCEPT !.dirs[1].files = @ + 1, !.tick = now],
                 [c EXCEPT !.tables = ("invoices" :> Table(<<Serial>>)) @@ @, !.tick = now],
                 [c EXCEPT !.tables = [t \in DOMAIN @ \ {"orders"} |-> @[t]], !.tick = now]}

\* Every two statements after every one or two that came before the first reading.
Starts0 == {Begun(cols) : cols \in Shapes}
Starts1 == UNION {After(x) : x \in Starts0}

Histories ==
  UNION {UNION {{<<a, b, c>> : c \in After(b)} : b \in After(a)} :
           a \in Starts0 \cup Starts1 \cup UNION {After(x) : x \in Starts1}}

\* A new row of such a table, and a change to an old one, move what is read of it.
Keeps(driver, cols, col) == col \in {cols[k] : k \in DOMAIN cols} /\ Key(driver, cols) = col.name
TellsInserts(driver, cols) == \E col \in {Serial, Created, Updated} : Keeps(driver, cols, col)
TellsUpdates(driver, cols) == Keeps(driver, cols, Updated)

NetOf(x, y) == Cardinality(DOMAIN y.tables.orders.rows) - Cardinality(DOMAIN x.tables.orders.rows)

\* What the ledger says of two readings is what was done in between: the units that were
\* watched, by as many rows as they gained or lost, margins that add up, the biggest first; and
\* a table that ends with as many rows has moved where its key can tell.
ReadingsTell ==
  \A driver \in {"mysql", "postgres"}, h \in Histories :
    LET units == Discovered(driver, h[1].tables, {})
        reads == [k \in 1..3 |-> Watermark(units, h[k].tables, h[k].dirs)]
        told(j, k)    == MovedBetween(reads[j], reads[k])
        of(j, k, u)   == SelectSeq(told(j, k), LAMBDA m : m.unit = u)
        net(j, k, u)  == IF of(j, k, u) = <<>> THEN 0 ELSE of(j, k, u)[1].rows
        cols          == h[1].tables.orders.cols
        orders        == <<"table", "orders">>
    IN  \A j \in 1..2 : \A k \in (j + 1)..3 : ("orders" \in DOMAIN h[k].tables /\ "orders" \in DOMAIN h[1].tables) =>
          LET x == h[j].tables.orders.rows
              y == h[k].tables.orders.rows
          IN  /\ {told(j, k)[m].unit : m \in DOMAIN told(j, k)} \subseteq {orders, <<"files", "uploads">>}
              /\ Len(of(j, k, orders)) <= 1
              /\ net(j, k, orders) = NetOf(h[j], h[k])
              /\ net(j, k, <<"files", "uploads">>) = h[k].dirs[1].files - h[j].dirs[1].files
              /\ x = y => of(j, k, orders) = <<>>
              /\ TellsInserts(driver, cols) /\ ~(DOMAIN y \subseteq DOMAIN x) => of(j, k, orders) # <<>>
              /\ TellsUpdates(driver, cols) /\ x # y => of(j, k, orders) # <<>>
              /\ "orders" \in DOMAIN h[3].tables => net(1, 3, orders) = net(1, 2, orders) + net(2, 3, orders)
              /\ \A m \in 1..(Len(told(j, k)) - 1) : Magnitude(told(j, k)[m].rows) >= Magnitude(told(j, k)[m + 1].rows)
=============================================================================
