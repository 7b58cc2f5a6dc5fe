--------------------------- MODULE MCRouteSources ---------------------------
(* RouteSources over small functions and small graphs, for TLC.            *)
EXTENDS RouteSources

Written(kind) == [kind |-> kind, says |-> <<kind>>]
Slash         == [kind |-> "path", says |-> <<>>]

Stmt(op, in, recv, via, along, name, path, verb) ==
  [op |-> op, in |-> in, recv |-> recv, via |-> via, along |-> along, name |-> name, path |-> path, verb |-> verb]

Alongs == {Written(k) : k \in {"path", "unreadable", "other"}}

\* A binding of a name, a closure over a router, a block of an if.
Openers(in) ==
  {Stmt("let", in, "r", "none", Slash, "g", Slash, "read"), Stmt("let", in, "s.r", "none", Slash, "g", Slash, "read"),
   Stmt("let", in, "r", "ctor", Slash, "g", Slash, "read"), Stmt("block", in, "r", "none", Slash, "r", Slash, "read")}
  \cup {Stmt("let", in, "r", "Group", along, name, Slash, "read") : along \in Alongs, name \in {"r", "g"}}
  \cup {Stmt("scope", in, recv, via, along, "r", Slash, "read") :
          recv \in {"r", "g"}, via \in {"Route", "Group"}, along \in Alongs}

\* A registration on a router, on a field, on what is none, and on a group that has no name.
Registrations(in) ==
  {Stmt("reg", in, recv, "none", Slash, Unnamed, text, "read") : recv \in {"r", "g", "s.r"}, text \in Alongs}
  \cup {Stmt("reg", in, "cache", "none", Slash, Unnamed, Written("path"), "read"),
        Stmt("reg", in, "r", "none", Slash, Unnamed, Written("path"), "unreadable")}
  \cup {Stmt("reg", in, "r", "Group", along, Unnamed, Written("path"), "read") : along \in Alongs}

\* The program as it runs, of routers that are handed to it at the root: where each router is.
Handed    == {"r", "s.r"}
NoBase  == <<"no router">>

Ran(prog, i, names) ==
  LET st   == prog[i]
      base == InScope(prog, names, st.in, st.recv, NoBase)
      c    == IF st.op = "scope" THEN i ELSE st.in
  IN  IF st.op \notin {"let", "scope"} THEN names
      ELSE Bind(names, c, st.name, IF st.via = "ctor" THEN <<>> ELSE base \o st.along.says)

Running(prog, handed) ==
  LET after[i \in 0..Len(prog)] ==
        IF i = 0 THEN [x \in {0} \X handed |-> <<>>] ELSE Ran(prog, i, after[i - 1])
  IN  after

RouterAt(prog, handed, i) == InScope(prog, Running(prog, handed)[i - 1], prog[i].in, prog[i].recv, NoBase)

ServedAt(prog, handed, i) == RouterAt(prog, handed, i) \o prog[i].along.says \o prog[i].path.says

\* Names are used where they are bound.
Compiles(prog, handed) ==
  \A i \in DOMAIN prog : prog[i].recv # "cache" /\ prog[i].via # "ctor" => RouterAt(prog, handed, i) # NoBase

Openings ==
  {f \in UNION {{<<x, y>> : y \in UNION {Openers(in) : in \in {0, 1}}} : x \in Openers(0)} : Compiles(f, Handed)}

Programs == {p \in {Append(f, z) : f \in Openings, z \in UNION {Registrations(in) : in \in 0..2}} : Compiles(p, Handed)}

\* What the reader gets wrong, by name: a prefix that does not begin with a slash, and one of
\* a group that it cannot read, are lost; a closure in what is bound to a name is not read.
PrefixDropped(prog) ==
  \E i \in DOMAIN prog : \/ prog[i].along.kind = "other"
                         \/ prog[i].along.kind = "unreadable" /\ ~(prog[i].op = "scope" /\ prog[i].via = "Route")

UnreadClosure(prog) == \E i \in DOMAIN prog : prog[i].in # 0 /\ prog[prog[i].in].op = "let"

\* A field that is given a name before anything was seen to be done with it.
UnseenField(prog, params, fields) ==
  \E i \in DOMAIN prog :
    /\ prog[i].op = "let" /\ prog[i].via = "none" /\ prog[i].recv \in fields
    /\ InScope(prog, Envs(prog, params, fields)[i - 1], prog[i].in, prog[i].recv, NoRouter) = NoRouter

\* Of one function: an endpoint it is said to have is one it serves, one whose path cannot be
\* told is said to be there, and what is no router has none.
ToldAsServed(prog, params, fields) ==
  LET told   == Routes(prog, params, fields)
      handed == params \cup fields
  IN  ~PrefixDropped(prog) /\ ~UnseenField(prog, params, fields) =>
        \A i \in DOMAIN told :
          /\ RouterAt(prog, handed, i) = NoBase => told[i] = {}
          /\ \A t \in told[i] : t.emitted => t.path = ServedAt(prog, handed, i)
          /\ (/\ ~UnreadClosure(prog) /\ RouterAt(prog, handed, i) # NoBase
              /\ prog[i].verb = "read" /\ prog[i].path.kind # "other")
               => told[i] # {}

\* An endpoint that a Go file is said to have is one it serves, and one whose path cannot be
\* told is said to be there.
GoRoutesAreServed == \A prog \in Programs : ToldAsServed(prog, Handed \ {"s.r"}, {"s.r"})

-----------------------------------------------------------------------------

App     == [file |-> "app", name |-> "app"]
Orders  == [file |-> "orders", name |-> "router"]
Items   == [file |-> "items", name |-> "items"]
Ghost   == [file |-> "app", name |-> "ghost"]
Ref(n, says) == [kind |-> "ref", ref |-> n, says |-> says]

Decls == {Written("path"), Written("unreadable")}

OwnersWith(p, q, marked) ==
  <<[ref |-> App, prefix |-> Slash, root |-> TRUE, exported |-> FALSE, decls |-> {}],
    [ref |-> Orders, prefix |-> p, root |-> FALSE, exported |-> marked, decls |-> Decls],
    [ref |-> Items, prefix |-> q, root |-> FALSE, exported |-> FALSE, decls |-> Decls]>>

\* The path a name stands for, and who else binds the name.
Binds   == [name |-> "API", value |-> <<"api">>]
Agrees  == Binds
Differs == [name |-> "API", value |-> <<"test">>]

MountPrefixes == {Written("path"), Written("unreadable"), Ref("API", <<"api">>)}

MountCases ==
  [parent: {App, Orders, Items, Ghost},
   child: {[file |-> "orders", name |-> Unnamed], Items, Orders},
   spec: {Unnamed}, prefix: MountPrefixes, override: BOOLEAN]
  \cup [parent: {App}, child: {[file |-> "?", name |-> Unnamed]}, spec: {"orders", "vendor"},
        prefix: {Written("path")}, override: {FALSE}]

Graphs2 ==
  {[owners |-> OwnersWith(p, q, marked), mounts |-> {m, n}, consts |-> c] :
     p \in {Slash, Written("path"), Written("unreadable")}, q \in {Slash, Ref("API", <<"api">>)}, marked \in BOOLEAN,
     m \in {x \in MountCases : x.parent = App \/ (x.prefix.kind = "path" /\ ~x.override)},
     n \in {x \in MountCases : x.parent # App /\ ~x.override /\ x.prefix.kind # "ref"},
     c \in {{}, {Binds}, {Binds, Differs}}}

\* The routes a project serves: along every chain of mounts from an application.
Down(graph, v) ==
  {[owner |-> Find(graph.owners, m.child), seen |-> v.seen \cup {Find(graph.owners, m.child).ref},
    base |-> v.base \o m.prefix.says \o (IF m.override THEN <<>> ELSE Find(graph.owners, m.child).prefix.says)] :
     m \in {m \in graph.mounts : /\ m.parent = v.owner.ref
                                 /\ Find(graph.owners, m.child).ref \notin v.seen \cup {NoOwner.ref}}}

Heads(graph) == {[owner |-> o, seen |-> {o.ref}, base |-> o.prefix.says] : o \in {o \in OwnersOf(graph) : o.root}}

Chains(graph) ==
  LET level[n \in 0..Len(graph.owners)] ==
        IF n = 0 THEN Heads(graph)
        ELSE UNION {Down(graph, v) : v \in level[n - 1]}
  IN  UNION {level[n] : n \in 0..Len(graph.owners)}

Served(graph) == UNION {{<<v.owner.ref, v.base \o d.says>> : d \in v.owner.decls} : v \in Chains(graph)}

\* Routers that mount each other in a circle.
Circled(graph) ==
  \E U \in (SUBSET {o.ref : o \in OwnersOf(graph)}) \ {{}} :
    \A r \in U : \E m \in graph.mounts : Find(graph.owners, m.child).ref = r /\ m.parent \in U

\* Of one project: an endpoint put together from mounts is one it serves, and every
\* declaration of a router the mounts lead to is told.
TellsWhatIsServed(graph) ==
  /\ \A t \in Composed(graph) : t.emitted => <<t.of, t.path>> \in Served(graph)
  /\ (\A m \in graph.mounts : m.parent \in {o.ref : o \in OwnersOf(graph)}) /\ ~Circled(graph) =>
       \A o \in OwnersOf(graph) : \A d \in o.decls : \E t \in Composed(graph) : t.of = o.ref /\ t.decl = d

\* An endpoint put together from mounts is one the project serves, and every declaration of
\* a router the mounts lead to is told.
MountedRoutesAreServed == \A g \in Graphs2 : TellsWhatIsServed(Link(g, {"app", "orders", "items"}))
=============================================================================
