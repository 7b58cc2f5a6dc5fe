---------------------------- MODULE RouteSources -----------------------------
(***************************************************************************)
(* Where the endpoints of an index come from when the code is read: a Go   *)
(* file by itself (cli/internal/index/golang), and the routers of a        *)
(* project that attach one another from file to file                       *)
(* (cli/internal/index/lang/lexical/mount.go).                             *)
(*                                                                         *)
(* A path argument is [kind, says]: "path" is written so that the reader   *)
(* can tell it, "other" is a text that is no path, "ref" a name some other *)
(* file binds, "unreadable" whatever else there is.  What it says is the   *)
(* path it stands for when the program runs, a sequence of segments, of    *)
(* which a reader knows only what is a "path".                             *)
(*                                                                         *)
(* A Go function is a sequence of statements.  A statement stands in the   *)
(* block or closure of an earlier one, its in, or in the body, 0.          *)
(*                                                                         *)
(* Operators whose names end in _ are mutants of the operator after them.  *)
(***************************************************************************)
EXTENDS Integers, Sequences, FiniteSets, TLC

-----------------------------------------------------------------------------
(* A Go file: what the walker makes of a function.                         *)

\* A binding: the prefix its routes hang off, and whether that is a guess.
Fresh    == [prefix |-> <<>>, unknown |-> FALSE]
NoRouter == [prefix |-> <<"no router">>, unknown |-> TRUE]

\* Mutant: a router derived from one whose prefix is a guess is none.
DeriveAfresh_(base, says) == [prefix |-> base.prefix \o says, unknown |-> FALSE]

\* derive.
Derive(base, says) == [prefix |-> base.prefix \o says, unknown |-> base.unknown]

\* env.names: what a name is in a block or closure from now on.
Bind(names, scope, name, b) ==
  [x \in {<<scope, name>>} \cup DOMAIN names |-> IF x = <<scope, name>> THEN b ELSE names[x]]

\* env.lookup: the nearest block or closure that has the name.
InScope(prog, names, scope, name, none) ==
  LET seen[k \in 0..Len(prog)] ==
        IF <<k, name>> \in DOMAIN names THEN names[<<k, name>>]
        ELSE IF k = 0 THEN none ELSE seen[prog[k].in]
  IN  seen[scope]

\* env.root: the nearest function or closure.
RootOf(prog, scope) ==
  LET up[k \in 0..Len(prog)] == IF k = 0 \/ prog[k].op # "block" THEN k ELSE up[prog[k].in]
  IN  up[scope]

\* router: a struct field that holds a router is bound where it is first seen; resolve alone,
\* which is what a name is bound by, looks a field up and does not bind it.
Bound(prog, names, st, fields) ==
  IF /\ st.op # "block" /\ st.via # "ctor" /\ ~(st.op = "let" /\ st.via = "none")
     /\ st.recv \in fields /\ InScope(prog, names, st.in, st.recv, NoRouter) = NoRouter
  THEN Bind(names, RootOf(prog, st.in), st.recv, Fresh)
  ELSE names

\* resolve, of r, r.Group(path) and r.Route(path, ...).
Resolved(prog, names, st) ==
  LET base == InScope(prog, names, st.in, st.recv, NoRouter) IN
  IF st.via = "ctor" THEN Fresh
  ELSE IF base = NoRouter \/ st.via = "none" THEN base
  ELSE Derive(base, IF st.along.kind = "path" THEN st.along.says ELSE <<>>)

\* scopeCall: what the parameter of the closure is; none where the call is not one of a router.
Scoped(prog, names, st) ==
  LET base  == InScope(prog, names, st.in, st.recv, NoRouter)
      scope == Derive(base, IF st.along.kind = "path" THEN st.along.says ELSE <<>>)
  IN  IF base = NoRouter \/ (st.via # "Group" /\ st.along.kind = "other") THEN NoRouter
      ELSE [scope EXCEPT !.unknown = @ \/ (st.via # "Group" /\ st.along.kind = "unreadable")]

\* assign: what is bound to a name is not walked, the closure in it included.
Walked(prog, i) ==
  LET on[k \in 0..Len(prog)] ==
        k = 0 \/ (on[prog[k].in] /\ (prog[k].in = 0 \/ prog[prog[k].in].op # "let"))
  IN  on[i]

\* stmt: what the names are after a statement.
After(prog, i, names, fields) ==
  LET st == prog[i]
      e  == Bound(prog, names, st, fields)
      b  == CASE st.op = "let" -> Resolved(prog, e, st) [] st.op = "scope" -> Scoped(prog, e, st)
              [] OTHER -> NoRouter
  IN  IF ~Walked(prog, i) THEN names
      ELSE IF b = NoRouter THEN e
      ELSE Bind(e, IF st.op = "scope" THEN i ELSE st.in, st.name, b)

\* block: what they are after each.
Envs(prog, params, fields) ==
  LET after[i \in 0..Len(prog)] ==
        IF i = 0 THEN [x \in {0} \X params |-> Fresh] ELSE After(prog, i, after[i - 1], fields)
  IN  after

\* add, of the router that a registration is made on.
Added(b, says) == [path |-> b.prefix \o says, emitted |-> ~b.unknown]

\* verbNamed, verbFirst, handle and unresolved: what is told of a registration; "nothing" where
\* the receiver is no router, the verb cannot be read or the argument is no path.
ToldOf(prog, names, st) ==
  LET router == Resolved(prog, names, st) IN
  IF router = NoRouter \/ st.verb = "unreadable" \/ st.path.kind = "other" THEN {}
  ELSE IF st.path.kind = "path" THEN {Added(router, st.path.says)}
  ELSE {Added([router EXCEPT !.unknown = TRUE], <<>>)}

\* File.Routes: each registration with what was told of it.
Routes(prog, params, fields) ==
  LET after == Envs(prog, params, fields) IN
  [i \in {k \in DOMAIN prog : prog[k].op = "reg"} |->
     IF Walked(prog, i) THEN ToldOf(prog, after[i], prog[i]) ELSE {}]

-----------------------------------------------------------------------------
(* Routers that are mounted by others.                                     *)
(* A graph is [owners, mounts, consts], the owners in order; an owner      *)
(* [ref, prefix, root, exported, decls], a mount [parent, child, spec,     *)
(* prefix, override], a ref [file, name], where the name Unnamed is        *)
(* whatever the file exports.                                              *)

\* The empty string.
Unnamed == "unnamed"

NoOwner == [ref |-> [file |-> Unnamed, name |-> Unnamed], prefix |-> [kind |-> "path", says |-> <<>>],
            root |-> FALSE, exported |-> FALSE, decls |-> {}]

\* Link: a module that is not in the index is dropped.
Link(graph, files) ==
  [graph EXCEPT !.mounts =
     {[m EXCEPT !.child.file = IF m.spec = Unnamed THEN @ ELSE m.spec] : m \in {m \in @ : m.spec \in files \cup {Unnamed}}}]

\* fill and fillOne: a name that every file binding it binds to the same path.
Filled(consts, p) ==
  LET known == {c.value : c \in {d \in consts : p.kind = "ref" /\ d.name = p.ref}} IN
  IF p.kind = "path" THEN [says |-> p.says, unknown |-> FALSE]
  ELSE IF Cardinality(known) = 1 THEN [says |-> CHOOSE v \in known : TRUE, unknown |-> FALSE]
  ELSE [says |-> <<"<unread>">>, unknown |-> TRUE]

\* Find: by name; by the mark of an export; or the only router of the file.
Find(owners, ref) ==
  LET here   == {k \in DOMAIN owners : owners[k].ref.file = ref.file}
      named  == {k \in here : owners[k].ref.name = ref.name}
      marked == {k \in here : owners[k].exported}
      sub    == {k \in here : ~owners[k].root}
      first(ks) == IF ks = {} THEN NoOwner ELSE owners[CHOOSE k \in ks : \A j \in ks : k <= j]
  IN  IF ref.name # Unnamed THEN first(named)
      ELSE IF marked # {} THEN first(marked)
      ELSE IF Cardinality(sub) = 1 THEN first(sub)
      ELSE NoOwner

OwnersOf(graph) == {graph.owners[k] : k \in DOMAIN graph.owners}

MountedRefs(graph) ==
  {m.child : m \in graph.mounts} \cup {Find(graph.owners, m.child).ref : m \in graph.mounts}

\* walk, on its way into an owner.
Visit(graph, o, above, override, seen) ==
  LET own == Filled(graph.consts, o.prefix) IN
  [owner |-> o, base |-> above.says \o (IF override THEN <<>> ELSE own.says),
   unknown |-> above.unknown \/ own.unknown, seen |-> seen \cup {o.ref}]

\* walk, on its way down: an owner that is above itself is not entered.
Below(graph, v) ==
  {LET p == Filled(graph.consts, m.prefix) IN
   Visit(graph, Find(graph.owners, m.child), [says |-> v.base \o p.says, unknown |-> v.unknown \/ p.unknown],
         m.override, v.seen) :
     m \in {m \in graph.mounts : /\ m.parent = v.owner.ref
                                    /\ Find(graph.owners, m.child).ref \notin v.seen \cup {NoOwner.ref}}}

\* Resolve: from the roots, and from every owner nobody mounts.
Starts(graph) ==
  {Visit(graph, o, [says |-> <<>>, unknown |-> FALSE], FALSE, {}) : o \in {o \in OwnersOf(graph) : o.root}}
  \cup {Visit(graph, o, [says |-> <<"<unmounted>">>, unknown |-> TRUE], FALSE, {}) :
          o \in {o \in OwnersOf(graph) : ~o.root /\ o.ref \notin MountedRefs(graph)}}

Visits(graph) ==
  LET level[n \in 0..Len(graph.owners)] ==
        IF n = 0 THEN Starts(graph) ELSE UNION {Below(graph, v) : v \in level[n - 1]}
  IN  UNION {level[n] : n \in 0..Len(graph.owners)}

\* What is said of each declaration, in either list.
Composed(graph) ==
  UNION {{[of |-> v.owner.ref, decl |-> d, path |-> v.base \o d.says,
           emitted |-> ~v.unknown /\ d.kind = "path"] : d \in v.owner.decls} : v \in Visits(graph)}
=============================================================================
