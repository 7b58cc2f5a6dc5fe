------------------------------ MODULE MCSandbox ------------------------------
(* Sandbox on a small session, and what every copy it brings up is made of,  *)
(* over small compose files and what can be said of them, and what is read   *)
(* of it.                                                                    *)
EXTENDS Sandbox, Copy, MCWatch

\* Who may need whom: no circle, compose refuses one.
Graphs ==
  {g \in SUBSET ({"app", "db", "job"} \X {"app", "db", "job"}) :
     \E rank \in [{"app", "db", "job"} -> 1..3] : \A edge \in g : rank[edge[1]] < rank[edge[2]]}

Plain == [needs |-> <<>>, profiles |-> {}, ports |-> {}, name |-> Unset, mounts |-> {},
          joins |-> {}, restart |-> FALSE, loopback |-> FALSE, login |-> TRUE]

Network(external, name) == [external |-> external, name |-> name, bridge |-> TRUE, open |-> TRUE]

\* Three services, what each needs, and a profile that may gate them.
Structure(g, required, gated) ==
  [project |-> "hotel", networks |-> <<>>, volumes |-> <<>>,
   services |-> [s \in {"app", "db", "job"} |->
     [Plain EXCEPT !.needs = [t \in {u \in {"app", "db", "job"} : <<s, u>> \in g} |-> <<s, t>> \in required],
                   !.login = s # "job",
                   !.profiles = IF s \in gated THEN {"tools"} ELSE {}]]]

Structures ==
  UNION {{Structure(g, required, gated) : required \in SUBSET g, gated \in SUBSET {"app", "db", "job"}} : g \in Graphs}

\* What can be said of them; every service has a port, and a reason where one is due.
Judgements ==
  {[role |-> ("app" :> "tested") @@ others, why |-> {"app", "db", "job"}, sql |-> sql,
    answers |-> {"app", "db", "job"}, writable |-> {}, egress |-> "deny"] :
     others \in [{"db", "job"} -> Roles], sql \in SUBSET {"db", "job"}}

\* Two services and all they hold of the machine.
Mount(kind, source, target) == [kind |-> kind, source |-> <<kind, source>>, target |-> target, ro |-> FALSE]

Holding(mounts, ext, named, on) ==
  [project |-> "hotel", networks |-> on.nets,
   volumes |-> [v \in {<<"volume", "data">>} |-> [external |-> ext, name |-> "hotel_data"]],
   services |-> [s \in {"app", "db"} |->
     [Plain EXCEPT !.ports = {<<s, 80>>}, !.name = IF named THEN s ELSE Unset, !.restart = TRUE,
                   !.joins = IF s = "app" THEN on.joins ELSE {},
                   !.mounts = IF s = "app" THEN mounts ELSE {Mount("volume", "data", "/data")}]]]

Cables ==
  {[nets |-> <<>>, joins |-> {}],
   [nets |-> [n \in {Default} |-> Network(FALSE, "hotel_default")], joins |-> {}],
   [nets |-> [n \in {"shared"} |-> Network(TRUE, "theirs")], joins |-> {"shared"}],
   [nets |-> [n \in {"shared"} |-> Network(TRUE, "theirs")], joins |-> {}],
   [nets |-> [n \in {"shared"} |-> [Network(FALSE, "woven") EXCEPT !.bridge = FALSE]], joins |-> {"shared"}],
   [nets |-> [n \in {"shared", Default} |->
      IF n = "shared" THEN [Network(FALSE, "woven") EXCEPT !.bridge = FALSE] ELSE Network(FALSE, "hotel_default")],
    joins |-> {"shared", Default}]}

Holdings ==
  {Holding(mounts, ext, named, on) :
     mounts \in SUBSET {Mount("bind", "src", "/app"), Mount("bind", "up", "/up"), Mount("volume", "data", "/data")},
     ext \in BOOLEAN, named \in BOOLEAN, on \in Cables}

Isolations ==
  {[role |-> ("app" :> "tested") @@ ("db" :> r), why |-> {}, sql |-> sql, answers |-> {"app", "db"},
    writable |-> writable, egress |-> egress] :
     r \in {"support", "schema", "on_demand"}, sql \in SUBSET {"db"},
     writable \in SUBSET {"/up", "/data"}, egress \in {Unset, "allow"}}

ASSUME NamesAreNames ==
  Project # "hotel" /\ Unset \notin {"hotel_data", "hotel_default", "theirs", "woven"}

EveryCopyBoots ==
  \A c \in Structures : \A e \in Judgements :
    Environment(c, e) => BootsLikeTheirs(c, e) /\ RunsAsAsked(c, e)
EveryCopyIsApart ==
  \A c \in Holdings : \A e \in Isolations : Environment(c, e) => IsApart(c, e)

\* A copy that is up came up where the developer's own file does, and runs what was asked
\* and nothing else: see BootsLikeTheirs and RunsAsAsked.
CopyBootsAsAsked == copy # "down" => EveryCopyBoots

\* A copy that is up is apart from the developer's own stack: see IsApart.
CopyIsApart == copy # "down" => EveryCopyIsApart

\* A copy that is up and denied egress cannot call out: see IsCutOff.  It does not hold.
CopyIsCutOff ==
  copy # "down" => \A c \in Holdings : \A e \in Isolations : Environment(c, e) => IsCutOff(c, e)

\* What the ledger says a copy that is up has moved is what was done to it: see ReadingsTell.
LedgerTellsTheCopy == copy # "down" => ReadingsTell
=============================================================================
