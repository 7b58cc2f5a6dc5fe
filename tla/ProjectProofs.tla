---------------------------- MODULE ProjectProofs ----------------------------
(***************************************************************************)
(* Proofs about what a machine knows of the code, and about the thread the *)
(* web keeps for a project.                                                *)
(*                                                                         *)
(* CodeIndex: its type invariant, that a pass answered from the cache says *)
(* what a full pass would say, and that the table of extractions keeps     *)
(* what the model read for the pass that is stored.                        *)
(*                                                                         *)
(* Conversation: its type invariant, that an answer follows its question   *)
(* directly, and that every attempt is given the same history.             *)
(*                                                                         *)
(* RouteSources: that an endpoint which reading the source puts in the     *)
(* index is served, of every Go function and every graph of mounts.        *)
(***************************************************************************)
EXTENDS MCCodeIndex, Conversation, FiniteSetTheorems, SequenceTheorems, TLAPS

-----------------------------------------------------------------------------
(* CodeIndex: the strengthening.                                         *)

\* Routes are those of a tree, but for files the model has still to read.
RoutesOf(r, t, e) ==
  \A f \in File : \/ r[f] = EndpointsOf(t, e)[f]
                  \/ WantsAI(e) /\ f \in Candidates(t) /\ r[f] = None

\* A row says what its key says: which version of the file, behind which gateway.
RowsOK ==
  \A r \in extractions : r.file = r.key[1] /\ (untouched => r.endpoints = r.key)

\* A key the table answers for.
Covered(k) == \E r \in extractions : r.key = k

StoredOK ==
  /\ stored.files = Hashes(stored.of)
  /\ untouched => /\ RoutesOf(stored.routes, stored.of, stored.env)
                  /\ stored.alone => \A f \in stored.kept : Covered(Key(stored.of, stored.of, f))

\* What a pass knows at each of its stages.
PassOK(x) ==
  /\ x.pc \in {"hashing", "loading"} /\ x.alone => x.before = stored.files
  /\ x.pc = "loading" => HashesEqual(x.before, Hashes(x.seen))
  /\ x.pc = "served" /\ x.alone /\ x.whole /\ untouched /\ (\A f \in File : x.before[f] # NoHash)
       => x.found = EndpointsOf(x.seen, x.env)
  /\ x.pc = "extracting" => x.found = EndpointsOf(x.seen, [x.env EXCEPT !.ai = FALSE])
  /\ x.pc = "asking" =>
       /\ x.todo \subseteq Candidates(x.body) /\ x.kept \subseteq Candidates(x.body)
       /\ untouched =>
            /\ x.body = [f \in File |-> IF f \in ToRead(x) THEN x.seen[f] ELSE None]
            /\ RoutesOf(x.found, x.seen, x.env)
            /\ x.alone => \A f \in x.kept : Covered(KeyIn(x, f))

IInv == CodeIndexTypeOK /\ RowsOK /\ StoredOK /\ \A p \in Proc : PassOK(pass[p])

-----------------------------------------------------------------------------
(* CodeIndex: hashes, keys and readings.                                 *)

\* Where nothing is too large, a hash map is told from another by its paths and hashes.
LEMMA EqualMaps ==
  ASSUME NEW m \in [File -> Version \cup {None, NoHash}],
         NEW n \in [File -> Version \cup {None, NoHash}],
         HashesEqual(m, n), \A f \in File : m[f] # NoHash
  PROVE  m = n
<1>1. \A f \in Paths(m) : n[f] = m[f] /\ f \in Paths(n)
  BY DEF HashesEqual, Paths, Lookup
<1>2. Paths(m) \subseteq Paths(n)
  BY <1>1
<1>3. IsFiniteSet(Paths(n))
  BY FileAssumption, FS_Subset DEF Paths
<1>4. Paths(m) = Paths(n)
  BY <1>2, <1>3, FS_Subset DEF HashesEqual
<1>5. \A f \in File : m[f] = n[f]
  BY <1>1, <1>4 DEF Paths
<1> QED BY <1>5

\* Where nothing is too large, the hashes tell the trees apart.
LEMMA EqualTrees ==
  ASSUME NEW t \in Tree, NEW u \in Tree, Hashes(t) = Hashes(u),
         \A f \in File : Hashes(t)[f] # NoHash
  PROVE  t = u
<1>1. \A f \in File : t[f] = u[f]
  <2> TAKE f \in File
  <2>1. Hash(t[f]) = Hash(u[f]) /\ Hash(t[f]) # NoHash
    BY DEF Hashes
  <2> QED BY <2>1 DEF Hash
<1> QED BY <1>1 DEF Tree

\* The key of a file that did not change between its readings names what was read.
LEMMA KeyIsReading ==
  ASSUME NEW t \in Tree, NEW f \in Candidates(t)
  PROVE  Key(t, t, f) = Extract(t, f)
BY DEF Key, Extract, Hash, Routed, Candidates, Legible

\* The text of the files to read is as good as the whole tree.
LEMMA BodiesSuffice ==
  ASSUME NEW t \in Tree, NEW b \in Tree,
         b = [f \in File |-> IF f \in Candidates(t) THEN t[f] ELSE None]
  PROVE  /\ Candidates(b) = Candidates(t)
         /\ \A f \in Candidates(t) : Key(t, b, f) = Extract(t, f) /\ Extract(b, f) = Extract(t, f)
<1>1. Candidates(b) = Candidates(t)
  BY FileAssumption DEF Candidates, Legible
<1>2. \A f \in File : Routed(b, f) <=> Routed(t, f)
  BY <1>1 DEF Routed
<1>3. ASSUME NEW f \in Candidates(t) PROVE Key(t, b, f) = Extract(t, f) /\ Extract(b, f) = Extract(t, f)
  <2>1. f \in File
    BY FileAssumption DEF Candidates
  <2>2. Key(t, b, f) = Key(t, t, f)
    BY <1>2, <2>1 DEF Key
  <2>3. b[f] = t[f] /\ (Routed(t, f) => b[Gateway] = t[Gateway])
    BY <2>1, FileAssumption DEF Routed, Candidates
  <2>4. Extract(b, f) = Extract(t, f)
    BY <1>2, <2>1, <2>3 DEF Extract
  <2> QED BY <2>2, <2>4, KeyIsReading
<1> QED BY <1>1, <1>3

\* Where the model has read every file, the routes are those of the tree.
LEMMA WholeRoutes ==
  ASSUME NEW r, r \in [File -> Readings], NEW t \in Tree, NEW e \in Env, RoutesOf(r, t, e),
         WantsAI(e) => \A f \in Candidates(t) : r[f] # None
  PROVE  r = EndpointsOf(t, e)
<1>1. \A f \in File : r[f] = EndpointsOf(t, e)[f]
  BY DEF RoutesOf
<1>2. EndpointsOf(t, e) = [f \in File |-> EndpointsOf(t, e)[f]]
  BY DEF EndpointsOf
<1> QED BY <1>1, <1>2

-----------------------------------------------------------------------------
(* CodeIndex: types.                                                     *)

LEMMA HashTypes ==
  /\ \A v \in Version \cup {None} : Hash(v) \in Version \cup {None, NoHash}
  /\ \A t \in Tree : Hashes(t) \in [File -> Version \cup {None, NoHash}]
BY DEF Hash, Hashes, Tree

LEMMA ReadingTypes ==
  ASSUME NEW t \in Tree
  PROVE  /\ \A e \in Env : EndpointsOf(t, e) \in [File -> Readings]
         /\ \A f \in Candidates(t) : Extract(t, f) \in Readings
<1>1. ASSUME NEW f \in File, Legible(t[f]) PROVE t[f] \in Version
  BY <1>1 DEF Tree, Legible
<1>2. ASSUME NEW f \in File, Legible(t[f]) PROVE Extract(t, f) \in Version \X (Version \cup {None})
  <2>1. CASE Routed(t, f)
    <3>1. Gateway \in File /\ Legible(t[Gateway])
      BY <2>1, FileAssumption DEF Routed, Candidates
    <3> QED BY <1>1, <1>2, <2>1, <3>1 DEF Extract
  <2>2. CASE ~Routed(t, f)
    BY <1>1, <1>2, <2>2 DEF Extract
  <2> QED BY <2>1, <2>2
<1>3. \A f \in Candidates(t) : Extract(t, f) \in Readings
  BY <1>2, FileAssumption DEF Candidates, Readings
<1>4. ASSUME NEW e \in Env, NEW f \in File PROVE EndpointsOf(t, e)[f] \in Readings
  BY <1>1, <1>2 DEF EndpointsOf, Readings
<1>5. \A e \in Env : EndpointsOf(t, e) \in [File -> Readings]
  BY <1>4 DEF EndpointsOf
<1> QED BY <1>3, <1>5

LEMMA KeyTypes ==
  ASSUME NEW t \in Tree, NEW b \in Tree, NEW f \in File
  PROVE  Key(t, b, f) \in (Version \cup {None, NoHash}) \X (Version \cup {None, NoHash})
<1>1. Hash(t[f]) \in Version \cup {None, NoHash}
  BY HashTypes DEF Tree
<1>2. Routed(b, f) => Hash(t[Gateway]) \in Version \cup {None, NoHash}
  BY HashTypes, FileAssumption DEF Tree, Routed, Candidates
<1> QED BY <1>1, <1>2 DEF Key

LEMMA BeginningTypes == Idle \in PassState /\ Unread \in [File -> SUBSET (Version \cup {None})]
                        /\ Nowhere \in Tree /\ Nowhere \in [File -> Readings]
BY DEF Idle, PassState, Nowhere, Tree, Env, Readings, Unread

LEMMA DisturbTypes ==
  ASSUME NEW changed \in [Proc -> PassState], Disturb(changed) PROVE pass' \in [Proc -> PassState]
BY BeginningTypes DEF Disturb, PassState

LEMMA ReadingOfTypes ==
  ASSUME CodeIndexTypeOK, NEW p \in Proc, Reading(p) \/ Done(p)
  PROVE  had' \in [Proc -> [File -> SUBSET (Version \cup {None})]]
BY BeginningTypes DEF CodeIndexTypeOK, Reading, Done, Tree

\* A pass stays one when a field of it is given a value.
LEMMA FieldTypes ==
  ASSUME NEW x \in PassState
  PROVE  /\ \A f \in File : [x EXCEPT !.todo = @ \ {f}] \in PassState
         /\ \A f \in File : [x EXCEPT !.kept = @ \cup {f}] \in PassState
         /\ \A f \in File, r \in Readings : [x EXCEPT !.found[f] = r] \in PassState
         /\ \A s \in BOOLEAN : [x EXCEPT !.env.spec = s] \in PassState
         /\ \A b \in Tree : [x EXCEPT !.body = b] \in PassState
         /\ [x EXCEPT !.pc = "scanning"] \in PassState
         /\ [x.env EXCEPT !.ai = FALSE] \in Env
         /\ \A t \in Tree, r \in [File -> Readings] :
               [x EXCEPT !.pc = "extracting", !.seen = t, !.listed = {}, !.found = r] \in PassState
<1>1. \A f \in File : [x EXCEPT !.todo = @ \ {f}] \in PassState
  BY DEF PassState
<1>2. \A f \in File : [x EXCEPT !.kept = @ \cup {f}] \in PassState
  BY DEF PassState
<1>3. ASSUME NEW f \in File, NEW r \in Readings PROVE [x EXCEPT !.found[f] = r] \in PassState
  <2>1. [x.found EXCEPT ![f] = r] \in [File -> Readings]
    BY DEF PassState
  <2> QED BY <2>1 DEF PassState
<1>4. ASSUME NEW s \in BOOLEAN PROVE [x EXCEPT !.env.spec = s] \in PassState
  <2>1. [x.env EXCEPT !.spec = s] \in Env
    BY DEF PassState, Env
  <2> QED BY <2>1 DEF PassState
<1>5. \A b \in Tree : [x EXCEPT !.body = b] \in PassState
  BY DEF PassState
<1>6. [x EXCEPT !.pc = "scanning"] \in PassState
  BY DEF PassState
<1>7. [x.env EXCEPT !.ai = FALSE] \in Env
  BY DEF PassState, Env
<1>8. ASSUME NEW t \in Tree, NEW r \in [File -> Readings]
      PROVE  [x EXCEPT !.pc = "extracting", !.seen = t, !.listed = {}, !.found = r] \in PassState
  BY DEF PassState
<1> QED BY <1>1, <1>2, <1>3, <1>4, <1>5, <1>6, <1>7, <1>8

\* Every step of a pass leaves the other passes as they are.
LEMMA OnePassTypes ==
  ASSUME CodeIndexTypeOK, NEW p \in Proc, NEW x \in PassState, pass' = [pass EXCEPT ![p] = x]
  PROVE  pass' \in [Proc -> PassState]
BY DEF CodeIndexTypeOK

LEMMA TypeKept ==
  ASSUME CodeIndexTypeOK, \A p \in Proc : PassOK(pass[p]), [Next]_vars
  PROVE  CodeIndexTypeOK'
<1> USE DEF CodeIndexTypeOK
<1>1. ASSUME NEW f \in Edited, Edit(f) PROVE CodeIndexTypeOK'
  <2>1. PICK v \in (Version \cup {None}) \ {tree[f]} :
          /\ tree' = [tree EXCEPT ![f] = v]
          /\ had' = [p \in Proc |-> IF pass[p].pc \in {"hashing", "scanning", "extracting"}
                                    THEN [had[p] EXCEPT ![f] = @ \cup {v}] ELSE had[p]]
    BY <1>1 DEF Edit
  <2>2. tree' \in Tree
    BY <2>1 DEF Tree
  <2>3. had' \in [Proc -> [File -> SUBSET (Version \cup {None})]]
    <3>1. \A p \in Proc : /\ had[p] \in [File -> SUBSET (Version \cup {None})]
                           /\ [had[p] EXCEPT ![f] = @ \cup {v}] \in [File -> SUBSET (Version \cup {None})]
      BY FileAssumption
    <3> QED BY <2>1, <3>1
  <2> QED BY <1>1, <2>2, <2>3 DEF Edit
<1>2. CASE Configure
  <2>1. /\ [env EXCEPT !.declared = ~@] \in Env
        /\ [env EXCEPT !.spec = ~@] \in Env
        /\ [env EXCEPT !.ai = ~@] \in Env
    BY DEF Env
  <2>2. env' \in Env
    BY <1>2, <2>1, Zenon DEF Configure
  <2> QED BY <1>2, <2>2 DEF Configure
<1>3. CASE Upgrade
  <2>1. pass' \in [Proc -> PassState]
    BY <1>3, DisturbTypes DEF Upgrade
  <2>2. stored' \in [files : [File -> Version \cup {None, NoHash}], routes : [File -> Readings],
                     of : Tree, env : Env, kept : SUBSET File, alone : BOOLEAN]
    BY <1>3, BeginningTypes DEF Upgrade, Empty, Idle, PassState, Nowhere
  <2> QED BY <1>3, <2>1, <2>2 DEF Upgrade
<1>4. ASSUME NEW p \in Proc, Begin(p) PROVE CodeIndexTypeOK'
  <2>1. PICK key \in BOOLEAN, listed \in SUBSET File, pc \in {"hashing", "resolving"} :
          pass' = [pass EXCEPT ![p] = [Idle EXCEPT !.pc = pc, !.key = key, !.env = env,
                                                   !.before = stored.files, !.listed = listed]]
    BY <1>4 DEF Begin
  <2>2. [Idle EXCEPT !.pc = pc, !.key = key, !.env = env, !.before = stored.files,
                     !.listed = listed] \in PassState
    BY <2>1, BeginningTypes DEF PassState
  <2>3. Reading(p) \/ Done(p)
    BY <1>4 DEF Begin
  <2>4. pass' \in [Proc -> PassState]
    BY <2>1, <2>2
  <2>5. had' \in [Proc -> [File -> SUBSET (Version \cup {None})]]
    BY <2>3, ReadingOfTypes
  <2> QED BY <1>4, <2>4, <2>5 DEF Begin
<1>5. ASSUME NEW p \in Proc, HashPaths(p) PROVE CodeIndexTypeOK'
  <2>1. PICK t \in Tree :
          \/ pass' = [pass EXCEPT ![p] = [pass[p] EXCEPT !.pc = "loading", !.seen = t]]
          \/ pass' = [pass EXCEPT ![p] = [pass[p] EXCEPT !.pc = "resolving", !.before = Nowhere]]
    BY <1>5 DEF HashPaths, Found
  <2>2. /\ [pass[p] EXCEPT !.pc = "loading", !.seen = t] \in PassState
        /\ [pass[p] EXCEPT !.pc = "resolving", !.before = Nowhere] \in PassState
    BY BeginningTypes DEF PassState, Nowhere
  <2>3. pass' \in [Proc -> PassState]
    BY <2>1, <2>2
  <2> QED BY <1>5, <2>3, ReadingOfTypes DEF HashPaths
<1>6. ASSUME NEW p \in Proc, Load(p) PROVE CodeIndexTypeOK'
  <2> DEFINE w == Whole(stored) /\ stored.env = pass[p].env
  <2>1. w \in BOOLEAN
    BY DEF Whole
  <2> HIDE DEF w
  <2>2. /\ [pass[p] EXCEPT !.pc = "served", !.found = stored.routes, !.whole = w] \in PassState
        /\ [pass[p] EXCEPT !.pc = "resolving", !.seen = Nowhere, !.before = Nowhere] \in PassState
    BY <2>1, BeginningTypes DEF PassState, Nowhere
  <2>3. \/ pass' = [pass EXCEPT ![p] = [pass[p] EXCEPT !.pc = "served", !.found = stored.routes,
                                                       !.whole = w]]
        \/ pass' = [pass EXCEPT ![p] = [pass[p] EXCEPT !.pc = "resolving", !.seen = Nowhere,
                                                       !.before = Nowhere]]
    BY <1>6 DEF Load, w
  <2>4. pass' \in [Proc -> PassState]
    BY <2>2, <2>3
  <2> QED BY <1>6, <2>4 DEF Load
<1>7. ASSUME NEW p \in Proc, Resolve(p) PROVE CodeIndexTypeOK'
  <2>1. pass' = [pass EXCEPT ![p] = [[pass[p] EXCEPT !.pc = "scanning"] EXCEPT !.env.spec = env.spec]]
    BY <1>7 DEF Resolve
  <2>2. [pass[p] EXCEPT !.pc = "scanning"] \in PassState /\ env.spec \in BOOLEAN
    BY FieldTypes DEF Env
  <2>3. [[pass[p] EXCEPT !.pc = "scanning"] EXCEPT !.env.spec = env.spec] \in PassState
    BY <2>2, FieldTypes
  <2>4. pass' \in [Proc -> PassState]
    BY <2>1, <2>3
  <2> QED BY <1>7, <2>4, ReadingOfTypes DEF Resolve
<1>8. ASSUME NEW p \in Proc, Scan(p) PROVE CodeIndexTypeOK'
  <2>1. PICK t \in Tree :
          pass' = [pass EXCEPT ![p] = [pass[p] EXCEPT !.pc = "extracting", !.seen = t, !.listed = {},
                                         !.found = EndpointsOf(t, [pass[p].env EXCEPT !.ai = FALSE])]]
    BY <1>8 DEF Scan, Found
  <2>2. [pass[p].env EXCEPT !.ai = FALSE] \in Env
    BY FieldTypes
  <2>3. EndpointsOf(t, [pass[p].env EXCEPT !.ai = FALSE]) \in [File -> Readings]
    BY <2>2, ReadingTypes
  <2>4. [pass[p] EXCEPT !.pc = "extracting", !.seen = t, !.listed = {},
           !.found = EndpointsOf(t, [pass[p].env EXCEPT !.ai = FALSE])] \in PassState
    BY <2>3, FieldTypes
  <2> QED BY <1>8, <2>1, <2>4, OnePassTypes, ReadingOfTypes DEF Scan
<1>9. ASSUME NEW p \in Proc, LookUp(p) PROVE CodeIndexTypeOK'
  <2>1. PICK b \in Tree :
          LET x     == [pass[p] EXCEPT !.body = b]
              hits  == {f \in Candidates(b) : \E r \in extractions : r.key = KeyIn(x, f)}
              row(f) == CHOOSE r \in extractions : r.key = KeyIn(x, f)
          IN /\ pass' = [pass EXCEPT ![p] =
                  [x EXCEPT !.pc = "asking", !.kept = hits,
                            !.todo = IF x.key THEN Candidates(b) \ hits ELSE {},
                            !.found = [f \in File |-> IF f \in hits THEN row(f).endpoints
                                                      ELSE x.found[f]]]]
             /\ untouched' = (untouched /\ \A f \in ToRead(x) : b[f] = x.seen[f])
    BY <1>9 DEF LookUp, Found
  <2> DEFINE x == [pass[p] EXCEPT !.body = b]
             hits == {f \in Candidates(b) : \E r \in extractions : r.key = KeyIn(x, f)}
             row(f) == CHOOSE r \in extractions : r.key = KeyIn(x, f)
             found == [f \in File |-> IF f \in hits THEN row(f).endpoints ELSE x.found[f]]
             todo == IF x.key THEN Candidates(b) \ hits ELSE {}
  <2>2. pass' = [pass EXCEPT ![p] = [x EXCEPT !.pc = "asking", !.kept = hits, !.todo = todo,
                                              !.found = found]]
        /\ untouched' \in BOOLEAN
    BY <2>1
  <2>3. hits \in SUBSET File /\ todo \in SUBSET File
    BY FileAssumption DEF Candidates
  <2>4. x \in PassState
    BY FieldTypes
  <2>5. \A f \in hits : row(f) \in extractions
    OBVIOUS
  <2>6. \A f \in File : found[f] \in Readings
    BY <2>4, <2>5 DEF PassState
  <2>7. found \in [File -> Readings]
    BY <2>6
  <2> HIDE DEF x, hits, found, todo
  <2>8. [x EXCEPT !.pc = "asking", !.kept = hits, !.todo = todo, !.found = found] \in PassState
    BY <2>3, <2>4, <2>7 DEF PassState
  <2> QED BY <1>9, <2>2, <2>8, OnePassTypes, ReadingOfTypes DEF LookUp
<1>10. ASSUME NEW p \in Proc, NEW f \in File, Ask(p, f) PROVE CodeIndexTypeOK'
  <2>1. f \in Candidates(pass[p].body) /\ pass[p].body \in Tree /\ pass[p].seen \in Tree
    BY <1>10 DEF Ask, PassOK, PassState
  <2>2. Extract(pass[p].body, f) \in Readings
    BY <2>1, ReadingTypes
  <2>3. Hash(pass[p].seen[f]) \in Version \cup {None, NoHash}
    BY <2>1, HashTypes DEF Tree
  <2>4. KeyIn(pass[p], f) \in (Version \cup {None, NoHash}) \X (Version \cup {None, NoHash})
    BY <2>1, KeyTypes DEF KeyIn
  <2>5. extractions' \subseteq [key : (Version \cup {None, NoHash}) \X (Version \cup {None, NoHash}),
                                file : Version \cup {None, NoHash}, endpoints : Readings]
    BY <1>10, <2>2, <2>3, <2>4 DEF Ask, SaveExtracted
  <2>6. [pass[p] EXCEPT !.todo = @ \ {f}] \in PassState
    BY FieldTypes
  <2>7. [[pass[p] EXCEPT !.todo = @ \ {f}] EXCEPT !.kept = @ \cup {f}] \in PassState
    BY <2>6, FieldTypes
  <2>8. /\ [[[pass[p] EXCEPT !.todo = @ \ {f}] EXCEPT !.kept = @ \cup {f}]
             EXCEPT !.found[f] = Extract(pass[p].body, f)] \in PassState
        /\ [[pass[p] EXCEPT !.todo = @ \ {f}] EXCEPT !.found[f] = Extract(pass[p].body, f)] \in PassState
    BY <2>2, <2>6, <2>7, FieldTypes
  <2> DEFINE less == [pass[p] EXCEPT !.todo = @ \ {f}]
             more == [less EXCEPT !.kept = @ \cup {f}]
             e == Extract(pass[p].body, f)
  <2>9. \/ pass' = [pass EXCEPT ![p] = [more EXCEPT !.found[f] = e]]
        \/ pass' = [pass EXCEPT ![p] = [less EXCEPT !.found[f] = e]]
        \/ pass' = [pass EXCEPT ![p] = less]
    BY <1>10 DEF Ask
  <2>10. pass' \in [Proc -> PassState]
    BY <2>6, <2>8, <2>9, Zenon
  <2> QED BY <1>10, <2>5, <2>10 DEF Ask
<1>11. ASSUME NEW p \in Proc, Save(p) PROVE CodeIndexTypeOK'
  <2>1. [pass EXCEPT ![p] = Idle] \in [Proc -> PassState]
    BY BeginningTypes
  <2>2. pass' \in [Proc -> PassState]
    BY <1>11, <2>1, DisturbTypes DEF Save
  <2>3. Hashes(pass[p].seen) \in [File -> Version \cup {None, NoHash}]
    BY HashTypes DEF PassState
  <2>4. stored' \in [files : [File -> Version \cup {None, NoHash}], routes : [File -> Readings],
                     of : Tree, env : Env, kept : SUBSET File, alone : BOOLEAN]
    BY <1>11, <2>3 DEF Save, PassState
  <2> QED BY <1>11, <2>2, <2>4 DEF Save, Pruned
<1>12. ASSUME NEW p \in Proc, End(p) PROVE CodeIndexTypeOK'
  BY <1>12, BeginningTypes, ReadingOfTypes DEF End
<1>13. CASE UNCHANGED vars
  BY <1>13 DEF vars
<1> QED BY <1>1, <1>2, <1>3, <1>4, <1>5, <1>6, <1>7, <1>8, <1>9, <1>10, <1>11, <1>12, <1>13 DEF Next

-----------------------------------------------------------------------------
(* CodeIndex: the first state.                                           *)

\* An empty cache is the answer for an empty tree.
LEMMA EmptyIsOK ==
  /\ Empty.files = Hashes(Empty.of) /\ Empty.kept = {}
  /\ RoutesOf(Empty.routes, Empty.of, Empty.env)
<1>1. Hashes(Nowhere) = Nowhere
  BY VersionAssumption DEF Hashes, Hash, Nowhere
<1>2. RoutesOf(Nowhere, Nowhere, Empty.env)
  BY DEF RoutesOf, EndpointsOf, Nowhere, Legible
<1> QED BY <1>1, <1>2 DEF Empty

LEMMA FirstOK == Init => IInv
<1> SUFFICES ASSUME Init PROVE IInv
  OBVIOUS
<1>1. CodeIndexTypeOK
  <2>1. stored \in [files : [File -> Version \cup {None, NoHash}], routes : [File -> Readings],
                    of : Tree, env : Env, kept : SUBSET File, alone : BOOLEAN]
    BY BeginningTypes DEF Init, Empty, Idle, PassState, Nowhere
  <2>2. pass \in [Proc -> PassState] /\ had \in [Proc -> [File -> SUBSET (Version \cup {None})]]
    BY BeginningTypes DEF Init
  <2>3. tree \in Tree
    BY TreeAssumption DEF Init, Tree
  <2> QED BY <2>1, <2>2, <2>3 DEF Init, CodeIndexTypeOK
<1>2. RowsOK
  BY DEF Init, RowsOK
<1>3. StoredOK
  BY EmptyIsOK DEF Init, StoredOK
<1>4. \A p \in Proc : PassOK(pass[p])
  BY DEF Init, PassOK, Idle
<1> QED BY <1>1, <1>2, <1>3, <1>4 DEF IInv

-----------------------------------------------------------------------------
(* CodeIndex: what a step does to the passes it is not about.            *)

\* A pass that is left alone, while the cache is left alone or gains a row.
LEMMA OthersKept ==
  ASSUME NEW q \in Proc, PassOK(pass[q]), pass'[q] = pass[q], stored' = stored,
         untouched' => untouched, \A k : Covered(k) => Covered(k)'
  PROVE  PassOK(pass[q])'
BY DEF PassOK, KeyIn

\* What is stored, and the rows, while the cache is left alone.
LEMMA CacheKept ==
  ASSUME RowsOK, StoredOK, stored' = stored, extractions' = extractions, untouched' => untouched
  PROVE  RowsOK' /\ StoredOK'
BY DEF RowsOK, StoredOK, Covered

\* After somebody else has written.
LEMMA DisturbedOK ==
  ASSUME NEW q \in Proc, NEW changed \in [Proc -> PassState], changed[q] = Idle \/ changed[q] = pass[q],
         PassOK(pass[q]), Disturb(changed), untouched' = untouched
  PROVE  PassOK(pass[q])'
<1>1. CASE changed[q].pc = "idle"
  <2>1. pass'[q] = Idle
    BY <1>1 DEF Disturb
  <2> QED BY <2>1 DEF PassOK, Idle
<1>2. CASE changed[q].pc # "idle"
  <2>1. /\ changed[q] = pass[q] /\ pass[q] \in PassState
        /\ pass'[q] = [pass[q] EXCEPT !.alone = FALSE]
    <3>1. changed[q] = pass[q]
      BY <1>2 DEF Idle
    <3>2. pass'[q] = [changed[q] EXCEPT !.alone = FALSE]
      BY <1>2 DEF Disturb
    <3> QED BY <3>1, <3>2
  <2>2. /\ pass'[q].alone = FALSE /\ pass'[q].pc = pass[q].pc /\ pass'[q].before = pass[q].before
        /\ pass'[q].seen = pass[q].seen /\ pass'[q].env = pass[q].env
        /\ pass'[q].found = pass[q].found /\ pass'[q].todo = pass[q].todo
        /\ pass'[q].kept = pass[q].kept /\ pass'[q].body = pass[q].body
    BY <2>1 DEF PassState
  <2>3. ToRead(pass'[q]) = ToRead(pass[q])
    BY <2>2 DEF ToRead
  <2> QED BY <2>2, <2>3 DEF PassOK, ToRead
<1> QED BY <1>1, <1>2

-----------------------------------------------------------------------------
(* CodeIndex: steps.                                                     *)

\* The other passes, and a step that leaves the cache alone.
LEMMA StepOfOne ==
  ASSUME IInv, NEW p \in Proc, NEW y, pass' = [pass EXCEPT ![p] = y],
         UNCHANGED <<stored, extractions>>, untouched' => untouched, PassOK(pass[p])'
  PROVE  RowsOK' /\ StoredOK' /\ \A q \in Proc : PassOK(pass[q])'
<1>1. \A k : Covered(k) => Covered(k)'
  BY DEF Covered
<1>2. ASSUME NEW q \in Proc PROVE PassOK(pass[q])'
  <2>1. CASE q = p
    BY <2>1
  <2>2. CASE q # p
    <3>1. pass'[q] = pass[q]
      BY <2>2 DEF IInv, CodeIndexTypeOK
    <3> QED BY <1>1, <3>1, OthersKept DEF IInv
  <2> QED BY <2>1, <2>2
<1>3. RowsOK' /\ StoredOK'
  BY CacheKept DEF IInv
<1> QED BY <1>2, <1>3

LEMMA LoadKept ==
  ASSUME IInv, NEW p \in Proc, Load(p)
  PROVE  RowsOK' /\ StoredOK' /\ \A q \in Proc : PassOK(pass[q])'
<1> DEFINE x == pass[p]
<1>1. x \in PassState /\ x.pc = "loading" /\ PassOK(x)
  BY DEF Load, IInv, CodeIndexTypeOK
<1>2. CASE pass' = [pass EXCEPT ![p].pc = "served", ![p].found = stored.routes,
                                ![p].whole = Whole(stored) /\ stored.env = x.env]
  <2> DEFINE w == Whole(stored) /\ stored.env = x.env
             y == [x EXCEPT !.pc = "served", !.found = stored.routes, !.whole = w]
  <2>1. pass' = [pass EXCEPT ![p] = y]
    BY <1>2
  <2>2. pass'[p] = y
    BY <2>1 DEF IInv, CodeIndexTypeOK
  <2> HIDE DEF w
  <2>3. /\ y.pc = "served" /\ y.found = stored.routes /\ y.whole = w /\ y.alone = x.alone
        /\ y.before = x.before /\ y.seen = x.seen /\ y.env = x.env
    BY <1>1 DEF PassState
  <2>4. ASSUME x.alone, w, untouched, \A f \in File : x.before[f] # NoHash
        PROVE  stored.routes = EndpointsOf(x.seen, x.env)
    <3>1. /\ stored.of \in Tree /\ stored.env \in Env /\ stored.routes \in [File -> Readings]
          /\ x.seen \in Tree /\ Hashes(x.seen) \in [File -> Version \cup {None, NoHash}]
          /\ x.before \in [File -> Version \cup {None, NoHash}]
      BY <1>1, HashTypes DEF IInv, CodeIndexTypeOK, PassState
    <3>2. x.before = Hashes(stored.of) /\ HashesEqual(x.before, Hashes(x.seen))
      BY <1>1, <2>4 DEF PassOK, IInv, StoredOK
    <3>3. x.before = Hashes(x.seen)
      BY <2>4, <3>1, <3>2, EqualMaps
    <3>4. stored.of = x.seen
      BY <2>4, <3>1, <3>2, <3>3, EqualTrees
    <3>5. RoutesOf(stored.routes, stored.of, stored.env)
      BY <2>4 DEF IInv, StoredOK
    <3>6. stored.env = x.env /\ (WantsAI(stored.env) => \A f \in Candidates(stored.of) : stored.routes[f] # None)
      BY <2>4 DEF w, Whole
    <3>7. stored.routes = EndpointsOf(stored.of, stored.env)
      BY <3>1, <3>5, <3>6, WholeRoutes
    <3> QED BY <3>4, <3>6, <3>7
  <2> HIDE DEF x, y
  <2>5. PassOK(pass[p])'
    BY <2>2, <2>3, <2>4 DEF PassOK, Load
  <2> QED BY <2>1, <2>5, StepOfOne DEF Load
<1>3. CASE pass' = [pass EXCEPT ![p].pc = "resolving", ![p].seen = Nowhere, ![p].before = Nowhere]
  <2> DEFINE y == [x EXCEPT !.pc = "resolving", !.seen = Nowhere, !.before = Nowhere]
  <2>1. pass' = [pass EXCEPT ![p] = y]
    BY <1>3
  <2>2. pass'[p].pc = "resolving"
    BY <1>1, <2>1 DEF IInv, CodeIndexTypeOK, PassState
  <2>3. PassOK(pass[p])'
    BY <2>2 DEF PassOK
  <2> QED BY <2>1, <2>3, StepOfOne DEF Load
<1> QED BY <1>2, <1>3 DEF Load

\* The stages before the model is asked, but for the answer from the cache.
LEMMA EarlyKept ==
  ASSUME IInv, NEW p \in Proc, Begin(p) \/ HashPaths(p) \/ Resolve(p) \/ Scan(p) \/ End(p)
  PROVE  RowsOK' /\ StoredOK' /\ \A q \in Proc : PassOK(pass[q])'
<1> DEFINE x == pass[p]
<1>1. x \in PassState /\ PassOK(x)
  BY DEF IInv, CodeIndexTypeOK
<1>2. CASE Begin(p)
  <2>1. PICK key \in BOOLEAN, listed \in SUBSET File, pc \in {"hashing", "resolving"} :
          pass' = [pass EXCEPT ![p] = [Idle EXCEPT !.pc = pc, !.key = key, !.env = env,
                                                   !.before = stored.files, !.listed = listed]]
    BY <1>2 DEF Begin
  <2> DEFINE y == [Idle EXCEPT !.pc = pc, !.key = key, !.env = env, !.before = stored.files,
                               !.listed = listed]
  <2>2. pass' = [pass EXCEPT ![p] = y] /\ pass'[p] = y
    BY <2>1 DEF IInv, CodeIndexTypeOK
  <2>3. y.pc \in {"hashing", "resolving"} /\ y.before = stored.files
    BY BeginningTypes DEF PassState
  <2> HIDE DEF y
  <2>4. PassOK(pass[p])'
    BY <1>2, <2>2, <2>3 DEF PassOK, Begin
  <2> QED BY <1>2, <2>2, <2>4, StepOfOne DEF Begin
<1>3. CASE HashPaths(p)
  <2>1. PICK t \in Tree :
          \/ /\ HashesEqual(x.before, Hashes(t))
             /\ pass' = [pass EXCEPT ![p] = [x EXCEPT !.pc = "loading", !.seen = t]]
          \/ pass' = [pass EXCEPT ![p] = [x EXCEPT !.pc = "resolving", !.before = Nowhere]]
    BY <1>3 DEF HashPaths, Found
  <2>2. CASE /\ HashesEqual(x.before, Hashes(t))
             /\ pass' = [pass EXCEPT ![p] = [x EXCEPT !.pc = "loading", !.seen = t]]
    <3> DEFINE y == [x EXCEPT !.pc = "loading", !.seen = t]
    <3>1. pass' = [pass EXCEPT ![p] = y] /\ pass'[p] = y
      BY <2>2 DEF IInv, CodeIndexTypeOK
    <3>2. y.pc = "loading" /\ y.seen = t /\ y.before = x.before /\ y.alone = x.alone
      BY <1>1 DEF PassState
    <3>3. x.alone => x.before = stored.files
      BY <1>1, <1>3 DEF PassOK, HashPaths
    <3> HIDE DEF x, y
    <3>4. PassOK(pass[p])'
      BY <1>3, <2>2, <3>1, <3>2, <3>3 DEF PassOK, HashPaths
    <3> QED BY <1>3, <3>1, <3>4, StepOfOne DEF HashPaths
  <2>3. CASE pass' = [pass EXCEPT ![p] = [x EXCEPT !.pc = "resolving", !.before = Nowhere]]
    <3> DEFINE y == [x EXCEPT !.pc = "resolving", !.before = Nowhere]
    <3>1. pass' = [pass EXCEPT ![p] = y] /\ pass'[p].pc = "resolving"
      BY <1>1, <2>3 DEF IInv, CodeIndexTypeOK, PassState
    <3>2. PassOK(pass[p])'
      BY <3>1 DEF PassOK
    <3> QED BY <1>3, <3>1, <3>2, StepOfOne DEF HashPaths
  <2> QED BY <2>1, <2>2, <2>3
<1>4. CASE Resolve(p)
  <2> DEFINE y == [[x EXCEPT !.pc = "scanning"] EXCEPT !.env.spec = env.spec]
  <2>1. pass' = [pass EXCEPT ![p] = y]
    BY <1>4 DEF Resolve
  <2>2. pass'[p].pc = "scanning"
    BY <1>1, <2>1 DEF IInv, CodeIndexTypeOK, PassState
  <2>3. PassOK(pass[p])'
    BY <2>2 DEF PassOK
  <2> QED BY <1>4, <2>1, <2>3, StepOfOne DEF Resolve
<1>5. CASE Scan(p)
  <2>1. PICK t \in Tree :
          pass' = [pass EXCEPT ![p] = [x EXCEPT !.pc = "extracting", !.seen = t, !.listed = {},
                                         !.found = EndpointsOf(t, [x.env EXCEPT !.ai = FALSE])]]
    BY <1>5 DEF Scan, Found
  <2> DEFINE r == EndpointsOf(t, [x.env EXCEPT !.ai = FALSE])
             y == [x EXCEPT !.pc = "extracting", !.seen = t, !.listed = {}, !.found = r]
  <2>2. pass' = [pass EXCEPT ![p] = y] /\ pass'[p] = y
    BY <2>1 DEF IInv, CodeIndexTypeOK
  <2> HIDE DEF r
  <2>3. y.pc = "extracting" /\ y.seen = t /\ y.env = x.env /\ y.found = r
    BY <1>1 DEF PassState
  <2> USE DEF r
  <2> HIDE DEF x, y
  <2>4. PassOK(pass[p])'
    BY <2>2, <2>3 DEF PassOK
  <2> QED BY <1>5, <2>2, <2>4, StepOfOne DEF Scan
<1>6. CASE End(p)
  <2>1. pass' = [pass EXCEPT ![p] = Idle] /\ pass'[p].pc = "idle"
    BY <1>6 DEF End, IInv, CodeIndexTypeOK, Idle
  <2>2. PassOK(pass[p])'
    BY <2>1 DEF PassOK
  <2> QED BY <1>6, <2>1, <2>2, StepOfOne DEF End
<1> QED BY <1>2, <1>3, <1>4, <1>5, <1>6

\* Somebody else writes: the developer upgrades.
LEMMA UpgradeKept ==
  ASSUME IInv, Upgrade PROVE RowsOK' /\ StoredOK' /\ \A q \in Proc : PassOK(pass[q])'
<1>1. \A q \in Proc : PassOK(pass[q])'
  BY DisturbedOK DEF Upgrade, IInv, CodeIndexTypeOK
<1>2. RowsOK' /\ StoredOK'
  BY EmptyIsOK DEF Upgrade, RowsOK, StoredOK
<1> QED BY <1>1, <1>2

\* The developer edits, or changes the configuration.
LEMMA DeveloperKept ==
  ASSUME IInv, UNCHANGED <<stored, extractions, pass, untouched>>
  PROVE  RowsOK' /\ StoredOK' /\ \A q \in Proc : PassOK(pass[q])'
<1>1. \A q \in Proc : PassOK(pass[q])'
  <2> TAKE q \in Proc
  <2>1. \A k : Covered(k) => Covered(k)'
    BY DEF Covered
  <2> QED BY <2>1, OthersKept DEF IInv
<1> QED BY <1>1, CacheKept DEF IInv

\* A file that is the same in both readings: its key is what the model makes of it.
LEMMA SameReadings ==
  ASSUME NEW x \in PassState, x.body = [f \in File |-> IF f \in ToRead(x) THEN x.seen[f] ELSE None],
         NEW f \in Candidates(x.body)
  PROVE  /\ WantsAI(x.env) /\ f \in File /\ f \in Candidates(x.seen)
         /\ Extract(x.body, f) = KeyIn(x, f) /\ Key(x.seen, x.seen, f) = KeyIn(x, f)
         /\ EndpointsOf(x.seen, x.env)[f] = KeyIn(x, f)
<1>1. f \in File /\ Legible(x.body[f])
  BY FileAssumption DEF Candidates
<1>2. f \in ToRead(x)
  BY <1>1 DEF Legible
<1>3. WantsAI(x.env) /\ ToRead(x) = Candidates(x.seen) /\ f \in Candidates(x.seen)
  BY <1>2 DEF ToRead
<1>4. x.seen \in Tree /\ x.body \in Tree
  BY DEF PassState
<1>5. Key(x.seen, x.body, f) = Extract(x.seen, f) /\ Extract(x.body, f) = Extract(x.seen, f)
  BY <1>3, <1>4, BodiesSuffice
<1>6. Key(x.seen, x.seen, f) = Extract(x.seen, f)
  BY <1>3, <1>4, KeyIsReading
<1>7. EndpointsOf(x.seen, x.env)[f] = Extract(x.seen, f)
  BY <1>1, <1>3 DEF EndpointsOf, WantsAI, Candidates
<1> QED BY <1>1, <1>3, <1>5, <1>6, <1>7 DEF KeyIn

LEMMA LookUpKept ==
  ASSUME IInv, NEW p \in Proc, LookUp(p)
  PROVE  RowsOK' /\ StoredOK' /\ \A q \in Proc : PassOK(pass[q])'
<1>1. pass[p] \in PassState /\ PassOK(pass[p]) /\ pass[p].pc = "extracting"
  BY DEF IInv, CodeIndexTypeOK, LookUp
<1>2. PICK b \in Tree :
        LET x     == [pass[p] EXCEPT !.body = b]
            hits  == {f \in Candidates(b) : \E r \in extractions : r.key = KeyIn(x, f)}
            row(f) == CHOOSE r \in extractions : r.key = KeyIn(x, f)
        IN /\ \A f \in File : b[f] \in IF f \in ToRead(pass[p]) THEN had[p][f] ELSE {None}
           /\ pass' = [pass EXCEPT ![p] =
                [x EXCEPT !.pc = "asking", !.kept = hits,
                          !.todo = IF x.key THEN Candidates(b) \ hits ELSE {},
                          !.found = [f \in File |-> IF f \in hits THEN row(f).endpoints
                                                    ELSE x.found[f]]]]
           /\ untouched' = (untouched /\ \A f \in ToRead(x) : b[f] = x.seen[f])
  BY DEF LookUp, Found
<1> DEFINE x == [pass[p] EXCEPT !.body = b]
           hits == {f \in Candidates(b) : \E r \in extractions : r.key = KeyIn(x, f)}
           row(f) == CHOOSE r \in extractions : r.key = KeyIn(x, f)
           found == [f \in File |-> IF f \in hits THEN row(f).endpoints ELSE x.found[f]]
           todo == IF x.key THEN Candidates(b) \ hits ELSE {}
           y == [x EXCEPT !.pc = "asking", !.kept = hits, !.todo = todo, !.found = found]
<1>3. pass' = [pass EXCEPT ![p] = y] /\ pass'[p] = y
  BY <1>2 DEF IInv, CodeIndexTypeOK
<1>4. untouched' = (untouched /\ \A f \in ToRead(x) : b[f] = x.seen[f])
  BY <1>2
<1>5. \A f \in File : f \notin ToRead(pass[p]) => b[f] = None
  BY <1>2
<1>6. x \in PassState
  BY <1>1, FieldTypes
<1>7. /\ x.body = b /\ x.seen = pass[p].seen /\ x.env = pass[p].env /\ x.found = pass[p].found
      /\ x.found \in [File -> Readings]
  BY <1>1 DEF PassState
<1>8. ToRead(x) = ToRead(pass[p])
  BY <1>7 DEF ToRead
<1>9. \A f \in hits : row(f) \in extractions /\ row(f).key = KeyIn(x, f)
  OBVIOUS
<1>10. hits \subseteq Candidates(b) /\ todo \subseteq Candidates(b)
       /\ \A f \in hits : Covered(KeyIn(x, f))
  BY DEF Covered
<1>11. ASSUME untouched'
       PROVE  /\ untouched
              /\ x.body = [f \in File |-> IF f \in ToRead(x) THEN x.seen[f] ELSE None]
              /\ RoutesOf(found, x.seen, x.env)
  <2>1. untouched /\ \A f \in ToRead(x) : b[f] = x.seen[f]
    BY <1>4, <1>11
  <2>2. b = [f \in File |-> IF f \in ToRead(x) THEN x.seen[f] ELSE None]
    BY <1>5, <1>8, <2>1 DEF Tree
  <2>3. x.body = [f \in File |-> IF f \in ToRead(x) THEN x.seen[f] ELSE None]
    BY <1>7, <2>2
  <2>4. x.found = EndpointsOf(x.seen, [x.env EXCEPT !.ai = FALSE])
    BY <1>1, <1>7 DEF PassOK
  <2>5. ASSUME NEW f \in hits PROVE found[f] = EndpointsOf(x.seen, x.env)[f]
    <3>1. f \in File /\ EndpointsOf(x.seen, x.env)[f] = KeyIn(x, f)
      BY <1>6, <1>7, <2>3, SameReadings
    <3>2. row(f).endpoints = row(f).key
      BY <1>9, <2>1 DEF IInv, RowsOK
    <3>3. found[f] = row(f).endpoints
      BY <3>1
    <3> QED BY <1>9, <3>1, <3>2, <3>3
  <2>6. ASSUME NEW f \in File, f \notin hits
        PROVE  \/ found[f] = EndpointsOf(x.seen, x.env)[f]
               \/ WantsAI(x.env) /\ f \in Candidates(x.seen) /\ found[f] = None
    <3> DEFINE off == [x.env EXCEPT !.ai = FALSE]
    <3>1. found[f] = EndpointsOf(x.seen, off)[f]
      BY <2>4, <2>6
    <3>2. off.declared = x.env.declared /\ off.spec = x.env.spec /\ off.ai = FALSE
      BY <1>6 DEF PassState, Env
    <3> HIDE DEF off, found, x
    <3>3. FromFiles(off) <=> FromFiles(x.env)
      BY <3>2 DEF FromFiles
    <3>4. CASE ~FromFiles(x.env) \/ ~Legible(x.seen[f]) \/ f \notin Dark
      BY <3>1, <3>3, <3>4 DEF EndpointsOf
    <3>5. CASE FromFiles(x.env) /\ Legible(x.seen[f]) /\ f \in Dark
      <4>1. found[f] = None /\ f \in Candidates(x.seen)
        BY <3>1, <3>2, <3>3, <3>5 DEF EndpointsOf, Candidates
      <4>2. ~x.env.ai => EndpointsOf(x.seen, x.env)[f] = None
        BY <3>5 DEF EndpointsOf
      <4> QED BY <3>5, <4>1, <4>2 DEF WantsAI
    <3> QED BY <3>4, <3>5
  <2> QED BY <2>1, <2>3, <2>5, <2>6 DEF RoutesOf
<1> HIDE DEF x, hits, row, found, todo
<1>12. /\ y.pc = "asking" /\ y.kept = hits /\ y.todo = todo /\ y.found = found
       /\ y.body = x.body /\ y.seen = x.seen /\ y.env = x.env
  BY <1>6 DEF PassState
<1>13. ToRead(y) = ToRead(x) /\ \A f : KeyIn(y, f) = KeyIn(x, f)
  BY <1>12 DEF ToRead, KeyIn
<1> HIDE DEF y
<1>14. PassOK(pass[p])'
  <2>1. pass'[p].pc = "asking" /\ pass'[p].todo \subseteq Candidates(pass'[p].body)
        /\ pass'[p].kept \subseteq Candidates(pass'[p].body)
    BY <1>3, <1>7, <1>10, <1>12
  <2>2. ASSUME untouched'
        PROVE  /\ pass'[p].body = [f \in File |-> IF f \in ToRead(pass'[p]) THEN pass'[p].seen[f] ELSE None]
               /\ RoutesOf(pass'[p].found, pass'[p].seen, pass'[p].env)
    BY <1>3, <1>11, <1>12, <1>13, <2>2
  <2>3. \A f \in pass'[p].kept : Covered(KeyIn(pass'[p], f))
    BY <1>3, <1>10, <1>12, <1>13
  <2>4. \A f \in pass'[p].kept : \E r \in extractions' : r.key = KeyIn(pass'[p], f)
    BY <2>3 DEF LookUp, Covered
  <2> QED BY <2>1, <2>2, <2>4 DEF PassOK, Covered, ToRead, KeyIn
<1>15. untouched' => untouched
  BY <1>4
<1> QED BY <1>3, <1>14, <1>15, StepOfOne DEF LookUp

\* A row is replaced by one with its key, so that what was covered still is.
LEMMA RowsGrow ==
  ASSUME IInv, NEW p \in Proc, NEW f \in Candidates(pass[p].body), pass[p].pc = "asking",
         SaveExtracted(pass[p], f), untouched' = untouched, stored' = stored
  PROVE  /\ \A k : Covered(k) => Covered(k)'
         /\ \E r \in extractions' : r.key = KeyIn(pass[p], f)
         /\ RowsOK' /\ StoredOK'
<1> DEFINE x == pass[p]
           new == [key |-> KeyIn(x, f), file |-> Hash(x.seen[f]), endpoints |-> Extract(x.body, f)]
<1>1. x \in PassState /\ PassOK(x) /\ f \in File
  BY FileAssumption DEF IInv, CodeIndexTypeOK, Candidates
<1>2. extractions' = {r \in extractions : r.key # KeyIn(x, f)} \cup {new}
  BY DEF SaveExtracted
<1>3. new.key = KeyIn(x, f) /\ new.file = new.key[1]
  BY DEF KeyIn, Key
<1>4. untouched => new.endpoints = new.key
  <2>1. untouched => x.body = [g \in File |-> IF g \in ToRead(x) THEN x.seen[g] ELSE None]
    BY <1>1 DEF PassOK
  <2>2. untouched => Extract(x.body, f) = KeyIn(x, f)
    BY <1>1, <2>1, SameReadings
  <2> QED BY <2>2
<1> HIDE DEF new
<1>5. \A k : Covered(k) => Covered(k)'
  BY <1>2, <1>3 DEF Covered
<1>6. \E r \in extractions' : r.key = KeyIn(x, f)
  BY <1>2, <1>3
<1>7. RowsOK'
  BY <1>2, <1>3, <1>4 DEF IInv, RowsOK
<1>8. StoredOK'
  BY <1>5 DEF IInv, StoredOK
<1> QED BY <1>5, <1>6, <1>7, <1>8

LEMMA AskKept ==
  ASSUME IInv, NEW p \in Proc, NEW f \in File, Ask(p, f)
  PROVE  RowsOK' /\ StoredOK' /\ \A q \in Proc : PassOK(pass[q])'
<1> DEFINE x == pass[p]
           less == [x EXCEPT !.todo = @ \ {f}]
           more == [less EXCEPT !.kept = @ \cup {f}]
           e == Extract(x.body, f)
<1>1. x \in PassState /\ PassOK(x) /\ x.pc = "asking" /\ f \in x.todo
      /\ untouched' = untouched /\ stored' = stored
  BY DEF IInv, CodeIndexTypeOK, Ask
<1>2. f \in Candidates(x.body) /\ x.todo \subseteq Candidates(x.body) /\ x.kept \subseteq Candidates(x.body)
  BY <1>1 DEF PassOK
<1>3. PICK y : /\ pass' = [pass EXCEPT ![p] = y]
               /\ \/ SaveExtracted(x, f) /\ y = [more EXCEPT !.found[f] = e]
                  \/ extractions' = extractions /\ y = [less EXCEPT !.found[f] = e]
                  \/ extractions' = extractions /\ y = less
  <2>1. \/ SaveExtracted(x, f) /\ pass' = [pass EXCEPT ![p] = [more EXCEPT !.found[f] = e]]
        \/ extractions' = extractions /\ pass' = [pass EXCEPT ![p] = [less EXCEPT !.found[f] = e]]
        \/ extractions' = extractions /\ pass' = [pass EXCEPT ![p] = less]
    <3>1. CASE /\ SaveExtracted(pass[p], f)
               /\ pass' = [pass EXCEPT ![p].todo = @ \ {f}, ![p].kept = @ \cup {f},
                                       ![p].found[f] = Extract(pass[p].body, f)]
      <4>1. pass' = [pass EXCEPT ![p] = [more EXCEPT !.found[f] = e]]
        BY <3>1
      <4> QED BY <3>1, <4>1
    <3>2. CASE /\ extractions' = extractions
               /\ pass' = [pass EXCEPT ![p].todo = @ \ {f},
                                       ![p].found[f] = Extract(pass[p].body, f)]
      <4>1. pass' = [pass EXCEPT ![p] = [less EXCEPT !.found[f] = e]]
        BY <3>2
      <4> QED BY <3>2, <4>1
    <3>3. CASE extractions' = extractions /\ pass' = [pass EXCEPT ![p].todo = @ \ {f}]
      BY <3>3
    <3> QED BY <3>1, <3>2, <3>3 DEF Ask
  <2> HIDE DEF x, less, more, e
  <2> QED BY <2>1
<1>4. pass'[p] = y
  BY <1>3 DEF IInv, CodeIndexTypeOK
<1>5. /\ y.pc = "asking" /\ y.todo \subseteq x.todo /\ y.seen = x.seen /\ y.body = x.body
      /\ y.env = x.env /\ y.alone = x.alone
      /\ y.found = x.found \/ y.found = [x.found EXCEPT ![f] = e]
      /\ y.kept = x.kept \/ (SaveExtracted(x, f) /\ y.kept = x.kept \cup {f})
  <2>1. /\ less.pc = x.pc /\ less.todo \subseteq x.todo /\ less.seen = x.seen /\ less.body = x.body
        /\ less.env = x.env /\ less.alone = x.alone /\ less.found = x.found /\ less.kept = x.kept
    BY <1>1 DEF PassState
  <2>2. less \in PassState
    BY <1>1, FieldTypes
  <2> HIDE DEF x, less, e
  <2>3. /\ more.pc = x.pc /\ more.todo \subseteq x.todo /\ more.seen = x.seen /\ more.body = x.body
        /\ more.env = x.env /\ more.alone = x.alone /\ more.found = x.found
        /\ more.kept = x.kept \cup {f}
    BY <2>1, <2>2 DEF PassState
  <2>4. more \in PassState
    BY <2>2, FieldTypes
  <2> HIDE DEF more
  <2> DEFINE told(z) == [z EXCEPT !.found[f] = e]
  <2>5. ASSUME NEW z \in PassState
        PROVE  /\ told(z).pc = z.pc /\ told(z).todo = z.todo /\ told(z).seen = z.seen
               /\ told(z).body = z.body /\ told(z).env = z.env /\ told(z).alone = z.alone
               /\ told(z).kept = z.kept /\ told(z).found = [z.found EXCEPT ![f] = e]
    BY SMTT(30) DEF PassState
  <2>6. (y = told(more) /\ SaveExtracted(x, f)) \/ y = told(less) \/ y = less
    BY <1>3
  <2> HIDE DEF told, less
  <2>7. CASE y = told(more) /\ SaveExtracted(x, f)
    BY <1>1, <2>3, <2>5, <2>4, <2>7
  <2>8. CASE y = told(less)
    BY <1>1, <2>1, <2>5, <2>2, <2>8
  <2>9. CASE y = less
    BY <1>1, <2>1, <2>9
  <2> QED BY <2>6, <2>7, <2>8, <2>9
<1>6. ToRead(y) = ToRead(x) /\ \A g : KeyIn(y, g) = KeyIn(x, g)
  BY <1>5 DEF ToRead, KeyIn
<1>7. /\ \A k : Covered(k) => Covered(k)'
      /\ RowsOK' /\ StoredOK'
      /\ SaveExtracted(x, f) => \E r \in extractions' : r.key = KeyIn(x, f)
  <2>1. CASE SaveExtracted(x, f)
    BY <1>1, <1>2, <2>1, RowsGrow
  <2>2. CASE ~SaveExtracted(x, f)
    <3>1. extractions' = extractions
      BY <1>3, <2>2
    <3> QED BY <1>1, <2>2, <3>1, CacheKept DEF Covered, IInv
  <2> QED BY <2>1, <2>2
<1>8. ASSUME untouched
      PROVE  /\ y.body = [g \in File |-> IF g \in ToRead(y) THEN y.seen[g] ELSE None]
             /\ RoutesOf(y.found, y.seen, y.env)
             /\ y.alone => \A g \in y.kept : \E r \in extractions' : r.key = KeyIn(y, g)
  <2>1. /\ x.body = [g \in File |-> IF g \in ToRead(x) THEN x.seen[g] ELSE None]
        /\ RoutesOf(x.found, x.seen, x.env)
        /\ x.alone => \A g \in x.kept : Covered(KeyIn(x, g))
    BY <1>1, <1>8 DEF PassOK
  <2>2. e = EndpointsOf(x.seen, x.env)[f]
    BY <1>1, <1>2, <2>1, SameReadings
  <2>3. x.found \in [File -> Readings]
    BY <1>1 DEF PassState
  <2> HIDE DEF x, e
  <2>4. y.body = [g \in File |-> IF g \in ToRead(y) THEN y.seen[g] ELSE None]
    BY <1>5, <1>6, <2>1
  <2>5. RoutesOf(y.found, y.seen, y.env)
    BY <1>5, <2>1, <2>2, <2>3 DEF RoutesOf
  <2>6. ASSUME y.alone, NEW g \in y.kept PROVE \E r \in extractions' : r.key = KeyIn(y, g)
    <3>1. g \in x.kept => Covered(KeyIn(x, g))
      BY <1>5, <2>1, <2>6
    <3>2. \E r \in extractions' : r.key = KeyIn(x, g)
      BY <1>5, <1>7, <2>6, <3>1 DEF Covered
    <3> QED BY <1>6, <3>2
  <2> QED BY <2>4, <2>5, <2>6
<1> HIDE DEF x, less, more, e
<1>9. PassOK(pass[p])'
  BY <1>1, <1>2, <1>4, <1>5, <1>8 DEF PassOK, Covered, ToRead, KeyIn
<1>10. ASSUME NEW q \in Proc, q # p PROVE PassOK(pass[q])'
  <2>1. pass'[q] = pass[q]
    BY <1>3, <1>10 DEF IInv, CodeIndexTypeOK
  <2> QED BY <1>1, <1>7, <2>1, OthersKept DEF IInv
<1> QED BY <1>7, <1>9, <1>10

LEMMA SaveKept ==
  ASSUME IInv, NEW p \in Proc, Save(p)
  PROVE  RowsOK' /\ StoredOK' /\ \A q \in Proc : PassOK(pass[q])'
<1> DEFINE x == pass[p]
<1>1. /\ x \in PassState /\ PassOK(x) /\ x.pc = "asking" /\ x.seen \in Tree
      /\ untouched' = untouched
      /\ stored' = [files |-> Hashes(x.seen), routes |-> x.found, of |-> x.seen,
                    env |-> x.env, kept |-> x.kept, alone |-> x.alone]
      /\ extractions' = Pruned(extractions, Hashes(x.seen))
  BY DEF IInv, CodeIndexTypeOK, Save, PassState
<1>2. RowsOK'
  BY <1>1 DEF IInv, RowsOK, Pruned
<1>3. ASSUME untouched, x.alone, NEW f \in x.kept
      PROVE  \E r \in extractions' : r.key = Key(x.seen, x.seen, f)
  <2>1. /\ x.body = [g \in File |-> IF g \in ToRead(x) THEN x.seen[g] ELSE None]
        /\ f \in Candidates(x.body) /\ Covered(KeyIn(x, f))
    BY <1>1, <1>3 DEF PassOK
  <2>2. f \in File /\ f \in Candidates(x.seen) /\ Key(x.seen, x.seen, f) = KeyIn(x, f)
    BY <1>1, <2>1, SameReadings
  <2>3. PICK r \in extractions : r.key = Key(x.seen, x.seen, f)
    BY <2>1, <2>2 DEF Covered
  <2>4. r.file = Hash(x.seen[f])
    BY <2>3 DEF IInv, RowsOK, Key
  <2>5. f \in Paths(Hashes(x.seen)) /\ r.file = Hashes(x.seen)[f]
    BY <2>2, <2>4, VersionAssumption DEF Paths, Hashes, Hash, Candidates, Legible
  <2> QED BY <1>1, <2>3, <2>5 DEF Pruned
<1>4. StoredOK'
  <2>1. stored'.files = Hashes(stored'.of)
    BY <1>1
  <2>2. ASSUME untouched' PROVE RoutesOf(stored'.routes, stored'.of, stored'.env)
    BY <1>1, <2>2 DEF PassOK
  <2>3. ASSUME untouched', stored'.alone, NEW f \in stored'.kept
        PROVE  \E r \in extractions' : r.key = Key(stored'.of, stored'.of, f)
    BY <1>1, <1>3, <2>3
  <2> QED BY <2>1, <2>2, <2>3 DEF StoredOK, Covered, RoutesOf
<1>5. \A q \in Proc : PassOK(pass[q])'
  <2> DEFINE changed == [pass EXCEPT ![p] = Idle]
  <2>1. changed \in [Proc -> PassState] /\ Disturb(changed)
    BY BeginningTypes DEF IInv, CodeIndexTypeOK, Save
  <2>2. \A q \in Proc : changed[q] = Idle \/ changed[q] = pass[q]
    BY DEF IInv, CodeIndexTypeOK
  <2> HIDE DEF changed
  <2> QED BY <1>1, <2>1, <2>2, DisturbedOK DEF IInv
<1> QED BY <1>2, <1>4, <1>5

-----------------------------------------------------------------------------
(* CodeIndex: the theorems.                                              *)

LEMMA IInvKept == IInv /\ [Next]_vars => IInv'
<1> SUFFICES ASSUME IInv, [Next]_vars PROVE RowsOK' /\ StoredOK' /\ \A q \in Proc : PassOK(pass[q])'
  BY TypeKept DEF IInv
<1>1. ASSUME NEW f \in Edited, Edit(f) PROVE UNCHANGED <<stored, extractions, pass, untouched>>
  BY <1>1 DEF Edit
<1>2. CASE Configure \/ UNCHANGED vars
  BY <1>2, DeveloperKept DEF Configure, vars
<1>3. CASE Upgrade
  BY <1>3, UpgradeKept
<1>4. ASSUME NEW p \in Proc,
             \/ Begin(p) \/ HashPaths(p) \/ Load(p) \/ Resolve(p) \/ Scan(p) \/ LookUp(p)
             \/ Save(p) \/ End(p)
             \/ \E f \in File : Ask(p, f)
      PROVE  RowsOK' /\ StoredOK' /\ \A q \in Proc : PassOK(pass[q])'
  BY <1>4, EarlyKept, LoadKept, LookUpKept, AskKept, SaveKept
<1> QED BY <1>1, <1>2, <1>3, <1>4, DeveloperKept DEF Next

LEMMA IInvHolds == Spec => []IInv
BY FirstOK, IInvKept, PTL DEF Spec

\* Every variable stays in its set: the rows of the cache and what a pass holds at each of
\* its stages (index.go, store.go).
THEOREM CodeIndexTypes == Spec => []CodeIndexTypeOK
<1>1. IInv => CodeIndexTypeOK
  BY DEF IInv
<1> QED BY <1>1, IInvHolds, PTL

\* "The stored snapshot already is the answer" (app/read.go), under the conditions the
\* property names.
THEOREM CacheAnswersForTheTree == Spec => []ServedIsCurrent
<1>1. IInv => ServedIsCurrent
  BY DEF IInv, ServedIsCurrent, PassOK
<1> QED BY <1>1, IInvHolds, PTL

\* What the model read for the pass that is stored stays in the table of extractions
\* (store.go, source/ai.go).
THEOREM ExtractionsAreKept == Spec => []CacheCoversTheIndex
<1>1. IInv => CacheCoversTheIndex
  BY DEF IInv, CacheCoversTheIndex, StoredOK, Covered
<1> QED BY <1>1, IInvHolds, PTL

-----------------------------------------------------------------------------
(* Conversation: the strengthening.                                      *)

\* The thread is a prefix of the places.
NoGaps == \E n \in 0..MaxPlaces : Taken = 1..n

\* A turn is where its question says: the question at its place, the answer right after.
TurnsInPlace ==
  \A p \in Place : thread[p] # Nothing =>
    LET q == thread[p].of IN
    /\ asking[q] \in {"asked", "cut"}
    /\ thread[p].author = "human" => p = seq[q]
    /\ thread[p].author = "agent" => p = AnswerPlace(q)

\* A place once chosen has no free place before it, and an asked question is in it.
PlacesChosen ==
  \A q \in Question : asking[q] # "unasked" =>
    /\ seq[q] \in Place /\ AnswerPlace(q) \in Place
    /\ \A p \in Place : p < seq[q] => thread[p] # Nothing
    /\ asking[q] \in {"asked", "cut"} => thread[seq[q]] = [author |-> "human", of |-> q]

\* Only an asked question has work, and only work has attempts.
WorkIsAsked ==
  \A q \in Question :
    /\ job[q] # "none" => asking[q] = "asked"
    /\ \A a \in Attempt : doing[q][a] # "nothing" => job[q] # "none"

\* An attempt past its reading holds the history before its question.
ReadsHold ==
  \A q \in Question : \A a \in Attempt :
    doing[q][a] \in {"answering", "settling"} => read[q][a] = HistoryBefore(q)

ThreadInv == /\ ConversationTypeOK /\ NoGaps /\ TurnsInPlace /\ PlacesChosen /\ WorkIsAsked
        /\ ReadsHold

-----------------------------------------------------------------------------
(* Conversation: types and places.                                       *)

\* The last place taken ends the prefix.
LEMMA TopEnds ==
  ASSUME NEW n \in 0..MaxPlaces, Taken = 1..n PROVE Top = n
<1>1. CASE n = 0
  BY <1>1 DEF Top
<1>2. CASE n > 0
  <2>1. Taken # {} /\ n \in Taken /\ \A o \in Taken : o <= n
    BY <1>2
  <2> DEFINE P(p) == p \in Taken /\ \A o \in Taken : o <= p
  <2>2. \A p : P(p) => p = n
    BY <2>1
  <2> QED BY <2>1, <2>2 DEF Top
<1> QED BY <1>1, <1>2

LEMMA ThreadTypeKept ==
  ASSUME ConversationTypeOK, NoGaps, WorkIsAsked, PlacesChosen, [ThreadNext]_threadVars
  PROVE  ConversationTypeOK'
<1> USE ConversationBounds DEF ConversationTypeOK
<1>1. ASSUME NEW q \in Question, ChoosePlace(q) PROVE ConversationTypeOK'
  <2>1. PICK n \in 0..MaxPlaces : Taken = 1..n
    BY DEF NoGaps
  <2>2. NextPlace = n + 1
    BY <2>1, TopEnds DEF NextPlace
  <2>3. NextPlace \in 0..MaxPlaces
    BY <1>1, <2>2 DEF ChoosePlace
  <2>4. seq' \in [Question -> 0..MaxPlaces] /\ asking' \in [Question -> {"unasked", "placing", "asked", "refused", "cut"}]
    BY <1>1, <2>3 DEF ChoosePlace
  <2> QED BY <1>1, <2>4 DEF ChoosePlace
<1>2. ASSUME NEW q \in Question, PlaceQuestion(q) PROVE ConversationTypeOK'
  <2>1. seq[q] \in Place /\ [author |-> "human", of |-> q] \in Turn
    BY <1>2 DEF PlaceQuestion, PlacesChosen, Turn
  <2>2. thread' \in [Place -> Turn \cup {Nothing}]
    BY <1>2, <2>1 DEF PlaceQuestion
  <2> QED BY <1>2, <2>2 DEF PlaceQuestion
<1>3. ASSUME NEW q \in Question, Enqueue(q) PROVE ConversationTypeOK'
  BY <1>3 DEF Enqueue
<1>4. ASSUME NEW q \in Question, Hold(q) PROVE ConversationTypeOK'
  BY <1>4 DEF Hold, Attempt
<1>5. ASSUME NEW q \in Question, Reap(q) PROVE ConversationTypeOK'
  BY <1>5 DEF Reap
<1>6. ASSUME NEW q \in Question, NEW a \in Attempt, Read(q, a) PROVE ConversationTypeOK'
  <2>1. HistoryBefore(q) \subseteq Turn
    BY DEF HistoryBefore, Taken
  <2> QED BY <1>6, <2>1 DEF Read
<1>7. ASSUME NEW q \in Question, NEW a \in Attempt, Answer(q, a) PROVE ConversationTypeOK'
  BY <1>7 DEF Answer, Turn
<1>8. ASSUME NEW q \in Question, NEW a \in Attempt, Settle(q, a) PROVE ConversationTypeOK'
  BY <1>8 DEF Settle
<1>9. ASSUME NEW q \in Question, NEW a \in Attempt, Die(q, a) PROVE ConversationTypeOK'
  BY <1>9 DEF Die
<1>10. CASE UNCHANGED threadVars
  BY <1>10 DEF threadVars
<1> QED BY <1>1, <1>2, <1>3, <1>4, <1>5, <1>6, <1>7, <1>8, <1>9, <1>10 DEF ThreadNext

-----------------------------------------------------------------------------
(* Conversation: what writes the thread.                                 *)

\* The thread changes in one free place, by a question put in its place or an answer put
\* in the place after its question.
ThreadWritten ==
  \/ thread' = thread
  \/ \E q \in Question :
       /\ PlaceQuestion(q) /\ thread[seq[q]] = Nothing
       /\ thread' = [thread EXCEPT ![seq[q]] = [author |-> "human", of |-> q]]
       /\ asking' = [asking EXCEPT ![q] = "asked"]
  \/ \E q \in Question :
       /\ asking[q] = "asked" /\ thread[AnswerPlace(q)] = Nothing
       /\ thread' = [thread EXCEPT ![AnswerPlace(q)] = [author |-> "agent", of |-> q]]
       /\ asking' = asking /\ seq' = seq

LEMMA Writes == ASSUME WorkIsAsked, [ThreadNext]_threadVars PROVE ThreadWritten
<1>1. ASSUME NEW q \in Question, ChoosePlace(q) \/ Enqueue(q) \/ Hold(q) \/ Reap(q)
      PROVE  thread' = thread
  BY <1>1 DEF ChoosePlace, Enqueue, Hold, Reap
<1>2. ASSUME NEW q \in Question, PlaceQuestion(q) PROVE ThreadWritten
  BY <1>2 DEF PlaceQuestion, ThreadWritten
<1>3. ASSUME NEW q \in Question, NEW a \in Attempt, Answer(q, a) PROVE ThreadWritten
  <2>1. asking[q] = "asked"
    BY <1>3 DEF Answer, WorkIsAsked
  <2> QED BY <1>3, <2>1 DEF Answer, ThreadWritten
<1>4. ASSUME NEW q \in Question, NEW a \in Attempt, Read(q, a) \/ Settle(q, a) \/ Die(q, a)
      PROVE  thread' = thread
  BY <1>4 DEF Read, Settle, Die
<1>5. CASE UNCHANGED threadVars
  BY <1>5 DEF threadVars, ThreadWritten
<1> QED BY <1>1, <1>2, <1>3, <1>4, <1>5 DEF ThreadNext, ThreadWritten

\* A place once taken keeps its turn.
LEMMA TurnsStay ==
  ASSUME ConversationTypeOK, WorkIsAsked, [ThreadNext]_threadVars,
         NEW p \in Place, thread[p] # Nothing
  PROVE  thread'[p] = thread[p]
<1>1. thread \in [Place -> Turn \cup {Nothing}]
  BY DEF ConversationTypeOK
<1>2. ASSUME NEW o, thread[o] = Nothing, NEW v, thread' = [thread EXCEPT ![o] = v]
      PROVE  thread'[p] = thread[p]
  BY <1>1, <1>2
<1>3. CASE thread' = thread
  BY <1>3
<1>4. ASSUME NEW q \in Question, thread[seq[q]] = Nothing,
             thread' = [thread EXCEPT ![seq[q]] = [author |-> "human", of |-> q]]
      PROVE  thread'[p] = thread[p]
  BY <1>2, <1>4
<1>5. ASSUME NEW q \in Question, thread[AnswerPlace(q)] = Nothing,
             thread' = [thread EXCEPT ![AnswerPlace(q)] = [author |-> "agent", of |-> q]]
      PROVE  thread'[p] = thread[p]
  BY <1>2, <1>5
<1> QED BY <1>3, <1>4, <1>5, Writes DEF ThreadWritten

\* A question once given a place keeps it, and stays asked.
LEMMA SeqStays ==
  ASSUME ConversationTypeOK, [ThreadNext]_threadVars, NEW q \in Question, asking[q] # "unasked"
  PROVE  /\ seq'[q] = seq[q] /\ asking'[q] # "unasked"
         /\ asking[q] \in {"asked", "cut"} => asking'[q] \in {"asked", "cut"}
<1> USE DEF ConversationTypeOK
<1>1. ASSUME NEW o \in Question, ChoosePlace(o) \/ PlaceQuestion(o) \/ Enqueue(o)
      PROVE  /\ seq'[q] = seq[q] /\ asking'[q] # "unasked"
             /\ asking[q] \in {"asked", "cut"} => asking'[q] \in {"asked", "cut"}
  BY <1>1 DEF ChoosePlace, PlaceQuestion, Enqueue
<1>2. ASSUME NEW o \in Question, \/ Hold(o) \/ Reap(o)
                                 \/ \E a \in Attempt : Read(o, a) \/ Answer(o, a) \/ Settle(o, a) \/ Die(o, a)
      PROVE  seq' = seq /\ asking' = asking
  BY <1>2 DEF Hold, Reap, Read, Answer, Settle, Die
<1>3. CASE UNCHANGED threadVars
  BY <1>3 DEF threadVars
<1> QED BY <1>1, <1>2, <1>3 DEF ThreadNext

-----------------------------------------------------------------------------
(* Conversation: each conjunct is kept.                                  *)

LEMMA NoGapsKept ==
  ASSUME ConversationTypeOK, NoGaps, PlacesChosen, WorkIsAsked, [ThreadNext]_threadVars
  PROVE  NoGaps'
<1> USE ConversationBounds DEF Place
<1>1. PICK n \in 0..MaxPlaces : Taken = 1..n
  BY DEF NoGaps
<1>2. thread \in [Place -> Turn \cup {Nothing}]
  BY DEF ConversationTypeOK
<1>3. CASE thread' = thread
  BY <1>1, <1>3 DEF NoGaps, Taken
<1>4. ASSUME NEW q \in Question, asking[q] # "unasked",
             NEW o \in {seq[q], AnswerPlace(q)}, thread[o] = Nothing,
             \A p \in Place : p < o => thread[p] # Nothing,
             NEW t \in Turn, thread' = [thread EXCEPT ![o] = t]
      PROVE  NoGaps'
  <2>1. o \in Place
    BY <1>4 DEF PlacesChosen
  <2>2. \A p \in Place : p \in Taken <=> p <= n
    BY <1>1
  <2>3. \A p \in Place : p \in Taken <=> thread[p] # Nothing
    BY DEF Taken
  <2>4. o = n + 1
    <3>1. ~ (o <= n)
      BY <1>4, <2>1, <2>2, <2>3
    <3>2. ~ (n + 1 < o)
      BY <1>4, <2>1, <2>2, <2>3
    <3> QED BY <2>1, <3>1, <3>2
  <2>5. t # Nothing
    BY NothingAssumption
  <2>6. \A p \in Place : thread'[p] # Nothing <=> p <= n + 1
    BY <1>2, <1>4, <2>1, <2>2, <2>3, <2>4, <2>5
  <2>7. Taken' = 1..(n + 1)
    BY <2>1, <2>4, <2>6 DEF Taken
  <2> QED BY <2>1, <2>4, <2>7 DEF NoGaps
<1>5. ASSUME NEW q \in Question, PlaceQuestion(q), thread[seq[q]] = Nothing,
             thread' = [thread EXCEPT ![seq[q]] = [author |-> "human", of |-> q]]
      PROVE  NoGaps'
  <2>1. asking[q] # "unasked" /\ [author |-> "human", of |-> q] \in Turn
    BY <1>5 DEF PlaceQuestion, Turn
  <2>2. \A p \in Place : p < seq[q] => thread[p] # Nothing
    BY <2>1 DEF PlacesChosen
  <2> QED BY <1>4, <1>5, <2>1, <2>2
<1>6. ASSUME NEW q \in Question, asking[q] = "asked", thread[AnswerPlace(q)] = Nothing,
             thread' = [thread EXCEPT ![AnswerPlace(q)] = [author |-> "agent", of |-> q]]
      PROVE  NoGaps'
  <2>1. [author |-> "agent", of |-> q] \in Turn
    BY DEF Turn
  <2>2. seq[q] \in Place /\ \A p \in Place : p < seq[q] => thread[p] # Nothing
    BY <1>6 DEF PlacesChosen
  <2>3. thread[seq[q]] # Nothing
    <3>1. thread[seq[q]] = [author |-> "human", of |-> q]
      BY <1>6 DEF PlacesChosen
    <3>2. [author |-> "human", of |-> q] \in Turn
      BY DEF Turn
    <3> QED BY <3>1, <3>2, NothingAssumption
  <2>4. \A p \in Place : p < AnswerPlace(q) => thread[p] # Nothing
    BY <2>2, <2>3 DEF AnswerPlace
  <2> QED BY <1>4, <1>6, <2>1, <2>4
<1> QED BY <1>3, <1>5, <1>6, Writes DEF ThreadWritten

LEMMA PlacesKept ==
  ASSUME ConversationTypeOK, NoGaps, PlacesChosen, WorkIsAsked, [ThreadNext]_threadVars
  PROVE  PlacesChosen'
<1> SUFFICES ASSUME NEW q \in Question, asking'[q] # "unasked"
             PROVE  /\ seq'[q] \in Place /\ AnswerPlace(q)' \in Place
                    /\ \A p \in Place : p < seq'[q] => thread'[p] # Nothing
                    /\ asking'[q] \in {"asked", "cut"} =>
                         thread'[seq'[q]] = [author |-> "human", of |-> q]
  BY DEF PlacesChosen, Place
<1> USE DEF ConversationTypeOK
<1>1. CASE asking[q] # "unasked"
  <2>1. seq'[q] = seq[q] /\ seq[q] \in Place /\ AnswerPlace(q) \in Place /\ AnswerPlace(q)' \in Place
    BY <1>1, SeqStays DEF PlacesChosen, AnswerPlace
  <2>2. \A p \in Place : p < seq'[q] => thread'[p] # Nothing
    BY <1>1, <2>1, TurnsStay DEF PlacesChosen
  <2>3. CASE asking[q] \in {"asked", "cut"}
    <3>1. thread[seq[q]] = [author |-> "human", of |-> q]
      BY <2>3 DEF PlacesChosen
    <3>2. thread[seq[q]] # Nothing
      BY <3>1, NothingAssumption DEF Turn
    <3>3. thread'[seq[q]] = thread[seq[q]]
      BY <2>1, <3>2, TurnsStay
    <3> QED BY <2>1, <2>2, <3>1, <3>3
  <2>4. CASE asking[q] \notin {"asked", "cut"} /\ asking'[q] \in {"asked", "cut"}
    <3>1. PlaceQuestion(q) /\ thread[seq[q]] = Nothing
      <4>1. ASSUME NEW o \in Question, PlaceQuestion(o) PROVE o = q /\ thread[seq[q]] = Nothing
        BY <2>4, <4>1 DEF PlaceQuestion
      <4>2. ASSUME NEW o \in Question, ChoosePlace(o) \/ Enqueue(o) PROVE FALSE
        BY <2>4, <4>2 DEF ChoosePlace, Enqueue
      <4>3. ASSUME NEW o \in Question, \/ Hold(o) \/ Reap(o)
                                       \/ \E a \in Attempt : Read(o, a) \/ Answer(o, a) \/ Settle(o, a) \/ Die(o, a)
            PROVE FALSE
        BY <2>4, <4>3 DEF Hold, Reap, Read, Answer, Settle, Die
      <4>4. CASE UNCHANGED threadVars
        BY <2>4, <4>4 DEF threadVars
      <4> QED BY <4>1, <4>2, <4>3, <4>4 DEF ThreadNext
    <3>2. thread'[seq[q]] = [author |-> "human", of |-> q]
      BY <2>1, <3>1 DEF PlaceQuestion
    <3> QED BY <2>1, <2>2, <3>2
  <2> QED BY <2>1, <2>2, <2>3, <2>4
<1>2. CASE asking[q] = "unasked"
  <2>1. ChoosePlace(q)
    <3>1. ASSUME NEW o \in Question, ChoosePlace(o) PROVE o = q
      BY <1>2, <3>1 DEF ChoosePlace
    <3>2. ASSUME NEW o \in Question, PlaceQuestion(o) \/ Enqueue(o) PROVE FALSE
      BY <1>2, <3>2 DEF PlaceQuestion, Enqueue
    <3>3. ASSUME NEW o \in Question, \/ Hold(o) \/ Reap(o)
                                     \/ \E a \in Attempt : Read(o, a) \/ Answer(o, a) \/ Settle(o, a) \/ Die(o, a)
          PROVE FALSE
      BY <1>2, <3>3 DEF Hold, Reap, Read, Answer, Settle, Die
    <3>4. CASE UNCHANGED threadVars
      BY <1>2, <3>4 DEF threadVars
    <3> QED BY <3>1, <3>2, <3>3, <3>4 DEF ThreadNext
  <2>2. PICK n \in 0..MaxPlaces : Taken = 1..n
    BY DEF NoGaps
  <2>3. NextPlace = n + 1
    BY <2>2, TopEnds DEF NextPlace
  <2>4. seq'[q] = n + 1 /\ n + 1 < MaxPlaces /\ asking'[q] = "placing" /\ thread' = thread
    BY <2>1, <2>3 DEF ChoosePlace
  <2>5. \A p \in Place : p < n + 1 => thread'[p] # Nothing
    BY <2>2, <2>4 DEF Taken, Place
  <2>6. seq'[q] \in Place /\ AnswerPlace(q)' \in Place
    BY <2>4, ConversationBounds DEF AnswerPlace, Place
  <2> QED BY <2>4, <2>5, <2>6
<1> QED BY <1>1, <1>2

LEMMA TurnsKept ==
  ASSUME ConversationTypeOK, PlacesChosen, TurnsInPlace, WorkIsAsked, [ThreadNext]_threadVars
  PROVE  TurnsInPlace'
<1> DEFINE InPlace(p) == LET q == thread[p].of IN
             /\ asking[q] \in {"asked", "cut"}
             /\ thread[p].author = "human" => p = seq[q]
             /\ thread[p].author = "agent" => p = AnswerPlace(q)
<1> SUFFICES ASSUME NEW p \in Place, thread'[p] # Nothing PROVE InPlace(p)'
  BY DEF TurnsInPlace, Place
<1> USE DEF ConversationTypeOK
<1>1. CASE thread'[p] = thread[p]
  <2>1. thread[p] \in Turn /\ thread[p].of \in Question
    BY <1>1 DEF Turn
  <2>2. InPlace(p)
    BY <1>1 DEF TurnsInPlace
  <2> QED BY <1>1, <2>1, <2>2, SeqStays DEF AnswerPlace
<1>2. ASSUME NEW q \in Question, PlaceQuestion(q), thread'[p] # thread[p],
             thread' = [thread EXCEPT ![seq[q]] = [author |-> "human", of |-> q]],
             asking' = [asking EXCEPT ![q] = "asked"]
      PROVE  InPlace(p)'
  BY <1>2 DEF PlaceQuestion
<1>3. ASSUME NEW q \in Question, asking[q] = "asked", thread'[p] # thread[p],
             thread' = [thread EXCEPT ![AnswerPlace(q)] = [author |-> "agent", of |-> q]],
             asking' = asking, seq' = seq
      PROVE  InPlace(p)'
  BY <1>3 DEF AnswerPlace
<1> QED BY <1>1, <1>2, <1>3, Writes DEF ThreadWritten

LEMMA WorkKept == ASSUME ConversationTypeOK, WorkIsAsked, [ThreadNext]_threadVars PROVE WorkIsAsked'
<1> USE DEF ConversationTypeOK, WorkIsAsked
<1>1. ASSUME NEW q \in Question, ChoosePlace(q) PROVE WorkIsAsked'
  BY <1>1 DEF ChoosePlace
<1>2. ASSUME NEW q \in Question, PlaceQuestion(q) PROVE WorkIsAsked'
  BY <1>2 DEF PlaceQuestion
<1>3. ASSUME NEW q \in Question, Enqueue(q) PROVE WorkIsAsked'
  BY <1>3 DEF Enqueue
<1>4. ASSUME NEW q \in Question, Hold(q) PROVE WorkIsAsked'
  BY <1>4 DEF Hold
<1>5. ASSUME NEW q \in Question, Reap(q) PROVE WorkIsAsked'
  BY <1>5 DEF Reap
<1>6. ASSUME NEW q \in Question, NEW a \in Attempt, Read(q, a) PROVE WorkIsAsked'
  BY <1>6 DEF Read
<1>9. ASSUME NEW q \in Question, NEW a \in Attempt, Answer(q, a) PROVE WorkIsAsked'
  BY <1>9 DEF Answer
<1>10. ASSUME NEW q \in Question, NEW a \in Attempt, Die(q, a) PROVE WorkIsAsked'
  BY <1>10 DEF Die
<1>7. ASSUME NEW q \in Question, NEW a \in Attempt, Settle(q, a) PROVE WorkIsAsked'
  BY <1>7 DEF Settle
<1>8. CASE UNCHANGED threadVars
  BY <1>8 DEF threadVars
<1> QED BY <1>1, <1>2, <1>3, <1>4, <1>5, <1>6, <1>7, <1>8, <1>9, <1>10 DEF ThreadNext

\* The history before an asked question does not change.
LEMMA HistoryStays ==
  ASSUME ConversationTypeOK, PlacesChosen, WorkIsAsked, [ThreadNext]_threadVars,
         NEW q \in Question, asking[q] # "unasked"
  PROVE  HistoryBefore(q)' = HistoryBefore(q)
<1>1. seq'[q] = seq[q]
  BY SeqStays
<1>2. \A p \in Place : p < seq[q] => thread[p] # Nothing /\ thread'[p] = thread[p]
  BY TurnsStay DEF PlacesChosen
<1>3. {p \in Taken : p < seq[q]}' = {p \in Taken : p < seq[q]}
  BY <1>1, <1>2 DEF Taken, Place
<1>4. \A p \in {o \in Taken : o < seq[q]} : thread'[p] = thread[p]
  BY <1>2 DEF Taken
<1> QED BY <1>3, <1>4 DEF HistoryBefore

LEMMA ReadsKept ==
  ASSUME ConversationTypeOK, PlacesChosen, WorkIsAsked, ReadsHold, [ThreadNext]_threadVars
  PROVE  ReadsHold'
<1> SUFFICES ASSUME NEW q \in Question, NEW a \in Attempt,
                    doing'[q][a] \in {"answering", "settling"}
             PROVE  read'[q][a] = HistoryBefore(q)'
  BY DEF ReadsHold, Attempt
<1> USE DEF ConversationTypeOK
<1>1. CASE doing[q][a] \in {"answering", "settling"} /\ read'[q][a] = read[q][a]
  <2>1. asking[q] # "unasked"
    BY <1>1 DEF WorkIsAsked
  <2> QED BY <1>1, <2>1, HistoryStays DEF ReadsHold
<1>2. CASE Read(q, a)
  <2>1. asking[q] # "unasked"
    BY <1>2 DEF WorkIsAsked, Read
  <2> QED BY <1>2, <2>1, HistoryStays DEF Read
<1>3. \/ doing[q][a] \in {"answering", "settling"} /\ read'[q][a] = read[q][a]
      \/ Read(q, a)
  <2>1. ASSUME NEW o \in Question, \/ ChoosePlace(o) \/ PlaceQuestion(o) \/ Enqueue(o) \/ Reap(o)
        PROVE  doing' = doing /\ read' = read
    BY <2>1 DEF ChoosePlace, PlaceQuestion, Enqueue, Reap
  <2>2. ASSUME NEW o \in Question, Hold(o) PROVE doing[q][a] = doing'[q][a] /\ read' = read
    BY <2>2 DEF Hold
  <2>3. ASSUME NEW o \in Question, NEW b \in Attempt, Read(o, b), ~ Read(q, a)
        PROVE  doing'[q][a] = doing[q][a] /\ read'[q][a] = read[q][a]
    BY <2>3 DEF Read
  <2>4. ASSUME NEW o \in Question, NEW b \in Attempt, Answer(o, b)
        PROVE  doing[q][a] \in {"answering", "settling"} /\ read' = read
    BY <2>4 DEF Answer
  <2>5. ASSUME NEW o \in Question, NEW b \in Attempt, Settle(o, b) \/ Die(o, b)
        PROVE  doing[q][a] \in {"answering", "settling"} /\ read' = read
    <3>1. CASE Settle(o, b)
      BY <3>1 DEF Settle
    <3>2. CASE Die(o, b)
      BY <3>2 DEF Die
    <3> QED BY <2>5, <3>1, <3>2
  <2>6. CASE UNCHANGED threadVars
    BY <2>6 DEF threadVars
  <2> QED BY <2>1, <2>2, <2>3, <2>4, <2>5, <2>6 DEF ThreadNext
<1> QED BY <1>1, <1>2, <1>3

-----------------------------------------------------------------------------
(* Conversation: the theorems.                                           *)

LEMMA ThreadBegins == ThreadInit => ThreadInv
<1> SUFFICES ASSUME ThreadInit PROVE ThreadInv
  OBVIOUS
<1>1. ConversationTypeOK
  BY ConversationBounds DEF ThreadInit, ConversationTypeOK
<1>2. NoGaps
  <2>1. Taken = {} /\ 0 \in 0..MaxPlaces
    BY ConversationBounds DEF ThreadInit, Taken
  <2>2. 1..0 = {}
    OBVIOUS
  <2> QED BY <2>1, <2>2 DEF NoGaps
<1>3. TurnsInPlace /\ PlacesChosen /\ WorkIsAsked /\ ReadsHold
  BY DEF ThreadInit, TurnsInPlace, PlacesChosen, WorkIsAsked, ReadsHold
<1> QED BY <1>1, <1>2, <1>3 DEF ThreadInv

LEMMA Inductive == ThreadSpec => []ThreadInv
<1>1. ThreadInv /\ [ThreadNext]_threadVars => ThreadInv'
  BY ThreadTypeKept, NoGapsKept, TurnsKept, PlacesKept, WorkKept, ReadsKept DEF ThreadInv
<1> QED BY <1>1, ThreadBegins, PTL DEF ThreadSpec

\* Every variable of the thread keeps to its type.
THEOREM ConversationTyped == ThreadSpec => []ConversationTypeOK
<1>1. ThreadInv => ConversationTypeOK
  BY DEF ThreadInv
<1> QED BY <1>1, Inductive, PTL

\* However attempts overlap and die, an answer that is in the thread is right after its
\* question (answeredIn's slot).
THEOREM AnswersFollow == ThreadSpec => []AnswersFollowTheirQuestions
<1>1. ThreadInv => AnswersFollowTheirQuestions
  <2> SUFFICES ASSUME ThreadInv, NEW p \in Taken, thread[p].author = "agent"
               PROVE  p > 1 /\ thread[p - 1] = [author |-> "human", of |-> thread[p].of]
    BY DEF AnswersFollowTheirQuestions
  <2> DEFINE q == thread[p].of
  <2>1. p \in Place /\ thread[p] # Nothing /\ thread[p] \in Turn /\ q \in Question
    BY DEF ThreadInv, ConversationTypeOK, Taken, Turn
  <2>2. asking[q] \in {"asked", "cut"} /\ p = seq[q] + 1
    BY <2>1 DEF ThreadInv, TurnsInPlace, AnswerPlace
  <2>3. seq[q] \in Place /\ thread[seq[q]] = [author |-> "human", of |-> q]
    BY <2>1, <2>2 DEF ThreadInv, PlacesChosen
  <2> QED BY <2>2, <2>3 DEF Place
<1> QED BY <1>1, Inductive, PTL

\* Whoever asks in the meantime, every attempt at an answer is given the same history, the
\* question itself not in it (historyBefore).
THEOREM AttemptsReadAlike == ThreadSpec => []AttemptsReadTheSame
<1>1. ThreadInv => AttemptsReadTheSame
  <2> SUFFICES ASSUME ThreadInv, NEW q \in Question, NEW a \in Attempt,
                      doing[q][a] \in {"answering", "settling"}
               PROVE  read[q][a] = HistoryBefore(q) /\ \A t \in read[q][a] : t.of # q
    BY DEF AttemptsReadTheSame
  <2>1. read[q][a] = HistoryBefore(q)
    BY DEF ThreadInv, ReadsHold
  <2>2. ASSUME NEW p \in Taken, p < seq[q], thread[p].of = q PROVE FALSE
    <3>1. p \in Place /\ thread[p] # Nothing /\ thread[p] \in Turn
      BY DEF ThreadInv, ConversationTypeOK, Taken
    <3>2. seq[q] \in Nat
      BY DEF ThreadInv, ConversationTypeOK
    <3>3. p = seq[q] \/ p = seq[q] + 1
      BY <2>2, <3>1 DEF ThreadInv, TurnsInPlace, AnswerPlace, Turn
    <3> QED BY <2>2, <3>1, <3>2, <3>3 DEF Place
  <2> QED BY <2>1, <2>2 DEF HistoryBefore
<1> QED BY <1>1, Inductive, PTL

-----------------------------------------------------------------------------
(* RouteSources: the walker's scopes and names, unfolded.                  *)

\* A set of naturals that is not empty has a least.
LEMMA LeastNatural ==
  ASSUME NEW S \in SUBSET Nat, S # {} PROVE \E m \in S : \A k \in S : m <= k
<1> DEFINE R == {ss \in Nat \X Nat : ss[1] < ss[2]}
<1>1. IsWellFoundedOn(R, Nat)
  BY NatLessThanWellFounded DEF OpToRel
<1>2. PICK m \in S : \A k \in S : ~ (<<k, m>> \in R)
  <2> HIDE DEF R
  <2> QED BY <1>1, WFMin
<1>3. ASSUME NEW k \in S PROVE m <= k
  <2>1. <<k, m>> \in Nat \X Nat /\ k \in Nat /\ m \in Nat
    OBVIOUS
  <2>2. ~ (k < m)
    BY <1>2, <2>1
  <2> QED BY <2>1, <2>2
<1> QED BY <1>3

\* Every statement stands in the body or in an earlier one.
Nested(prog) == Len(prog) \in Nat /\ \A k \in 1..Len(prog) : prog[k].in \in 0..(k - 1)

\* A walk outwards, from each scope to the first that ends it.
Outwards(f, N, up, B, v) == f = [k \in 0..N |-> IF k \in B THEN v[k] ELSE f[up[k]]]

\* Since a scope is in an earlier one, there is such a walk.
LEMMA OutwardsExist ==
  ASSUME NEW N \in Nat, NEW up, \A k \in 1..N : up[k] \in 0..(k - 1), NEW B, 0 \in B, NEW v
  PROVE  \E f : Outwards(f, N, up, B, v)
<1> DEFINE To(n, f) == Outwards(f, n, up, B, v)
           Beyond == {n \in Nat : n <= N /\ ~ \E f : To(n, f)}
<1>1. SUFFICES ASSUME Beyond # {} PROVE FALSE
  OBVIOUS
<1>2. PICK m \in Beyond : \A k \in Beyond : m <= k
  BY <1>1, LeastNatural
<1>3. CASE m = 0
  <2> DEFINE f == [k \in 0..0 |-> v[k]]
  <2>1. f = [k \in 0..0 |-> IF k \in B THEN v[k] ELSE f[up[k]]]
    OBVIOUS
  <2>2. To(0, f)
    BY <2>1 DEF Outwards
  <2> QED BY <1>2, <1>3, <2>2
<1>4. CASE m # 0
  <2>1. m - 1 \in Nat /\ m - 1 \notin Beyond /\ m - 1 <= N
    BY <1>2, <1>4
  <2>2. PICK f : To(m - 1, f)
    BY <2>1
  <2> DEFINE g == [k \in 0..m |-> IF k = m THEN (IF m \in B THEN v[m] ELSE f[up[m]]) ELSE f[k]]
  <2>3. \A k \in 0..(m - 1) : g[k] = f[k] /\ f[k] = IF k \in B THEN v[k] ELSE f[up[k]]
    BY <1>2, <2>2 DEF Outwards
  <2>4. ASSUME NEW k \in 0..m PROVE g[k] = IF k \in B THEN v[k] ELSE g[up[k]]
    <3>1. k # 0 => up[k] \in 0..(k - 1)
      BY <1>2
    <3>2. k \notin B => up[k] \in 0..(m - 1) /\ g[up[k]] = f[up[k]]
      BY <1>2, <2>3, <3>1
    <3>3. CASE k = m
      BY <1>2, <3>2, <3>3
    <3>4. CASE k # m
      <4>1. k \in 0..(m - 1)
        BY <1>2, <3>4
      <4> HIDE DEF g
      <4> QED BY <2>3, <3>2, <4>1
    <3> QED BY <3>3, <3>4
  <2>5. g = [k \in 0..m |-> IF k \in B THEN v[k] ELSE g[up[k]]]
    <3>1. g = [k \in 0..m |-> g[k]]
      OBVIOUS
    <3> HIDE DEF g
    <3> QED BY <2>4, <3>1
  <2>6. To(m, g)
    BY <2>5 DEF Outwards
  <2> QED BY <1>2, <2>6
<1> QED BY <1>3, <1>4

\* What env.lookup makes of a name, scope by scope.
SeenAll(g, prog, names, name, none) ==
  g = [k \in 0..Len(prog) |->
         IF <<k, name>> \in DOMAIN names THEN names[<<k, name>>]
         ELSE IF k = 0 THEN none ELSE g[prog[k].in]]

\* A name is what the scope has under it, or what the scope it stands in has.
LEMMA InScopeIs ==
  ASSUME NEW prog, Nested(prog), NEW names, NEW name, NEW none, NEW scope \in 0..Len(prog)
  PROVE  InScope(prog, names, scope, name, none) =
           IF <<scope, name>> \in DOMAIN names THEN names[<<scope, name>>]
           ELSE IF scope = 0 THEN none ELSE InScope(prog, names, prog[scope].in, name, none)
<1> DEFINE N == Len(prog)
           up == [k \in 1..N |-> prog[k].in]
           B == {k \in 0..N : k = 0 \/ <<k, name>> \in DOMAIN names}
           v == [k \in B |-> IF <<k, name>> \in DOMAIN names THEN names[<<k, name>>] ELSE none]
           g == CHOOSE f : SeenAll(f, prog, names, name, none)
<1>1. \A s : InScope(prog, names, s, name, none) = g[s]
  BY DEF InScope, SeenAll
<1>2. PICK f : Outwards(f, N, up, B, v)
  <2>1. N \in Nat /\ 0 \in B /\ \A k \in 1..N : up[k] \in 0..(k - 1)
    BY DEF Nested
  <2> HIDE DEF N, up, B, v
  <2> QED BY <2>1, OutwardsExist
<1>3. SeenAll(f, prog, names, name, none)
  <2>1. ASSUME NEW k \in 0..N
        PROVE  (IF k \in B THEN v[k] ELSE f[up[k]]) =
                 IF <<k, name>> \in DOMAIN names THEN names[<<k, name>>] ELSE IF k = 0 THEN none ELSE f[prog[k].in]
    BY DEF Nested
  <2>2. f = [k \in 0..N |-> IF k \in B THEN v[k] ELSE f[up[k]]]
    BY <1>2 DEF Outwards
  <2> HIDE DEF up, B, v
  <2>3. f = [k \in 0..N |->
               IF <<k, name>> \in DOMAIN names THEN names[<<k, name>>] ELSE IF k = 0 THEN none ELSE f[prog[k].in]]
    BY <2>1, <2>2
  <2> QED BY <2>3 DEF SeenAll
<1>4. SeenAll(g, prog, names, name, none)
  BY <1>3
<1> HIDE DEF g
<1>5. g[scope] = IF <<scope, name>> \in DOMAIN names THEN names[<<scope, name>>]
                 ELSE IF scope = 0 THEN none ELSE g[prog[scope].in]
  BY <1>4 DEF SeenAll
<1> QED BY <1>1, <1>5

\* The same of the function or closure a scope is of.
RootAll(g, prog) == g = [k \in 0..Len(prog) |-> IF k = 0 \/ prog[k].op # "block" THEN k ELSE g[prog[k].in]]

\* A scope that is no block is its own; a block has that of the scope it stands in.
LEMMA RootIs ==
  ASSUME NEW prog, Nested(prog), NEW scope \in 0..Len(prog)
  PROVE  RootOf(prog, scope) =
           IF scope = 0 \/ prog[scope].op # "block" THEN scope ELSE RootOf(prog, prog[scope].in)
<1> DEFINE N == Len(prog)
           up == [k \in 1..N |-> prog[k].in]
           B == {k \in 0..N : k = 0 \/ prog[k].op # "block"}
           v == [k \in B |-> k]
           g == CHOOSE f : RootAll(f, prog)
<1>1. \A s : RootOf(prog, s) = g[s]
  BY DEF RootOf, RootAll
<1>2. PICK f : Outwards(f, N, up, B, v)
  <2>1. N \in Nat /\ 0 \in B /\ \A k \in 1..N : up[k] \in 0..(k - 1)
    BY DEF Nested
  <2> HIDE DEF N, up, B, v
  <2> QED BY <2>1, OutwardsExist
<1>3. RootAll(f, prog)
  <2>1. ASSUME NEW k \in 0..N
        PROVE  (IF k \in B THEN v[k] ELSE f[up[k]]) = IF k = 0 \/ prog[k].op # "block" THEN k ELSE f[prog[k].in]
    BY DEF Nested
  <2>2. f = [k \in 0..N |-> IF k \in B THEN v[k] ELSE f[up[k]]]
    BY <1>2 DEF Outwards
  <2> HIDE DEF up, B, v
  <2>3. f = [k \in 0..N |-> IF k = 0 \/ prog[k].op # "block" THEN k ELSE f[prog[k].in]]
    BY <2>1, <2>2
  <2> QED BY <2>3 DEF RootAll
<1>4. RootAll(g, prog)
  BY <1>3
<1> HIDE DEF g
<1>5. g[scope] = IF scope = 0 \/ prog[scope].op # "block" THEN scope ELSE g[prog[scope].in]
  BY <1>4 DEF RootAll
<1> QED BY <1>1, <1>5

\* And of whether it is walked.
WalkedAll(g, prog) ==
  g = [k \in 0..Len(prog) |-> k = 0 \/ (g[prog[k].in] /\ (prog[k].in = 0 \/ prog[prog[k].in].op # "let"))]

\* A scope whose statements are read: it is, and it is not in what is bound to a name.
Open(prog, k) == Walked(prog, k) /\ (k = 0 \/ prog[k].op # "let")

\* A statement is walked where the scope it stands in is read.
LEMMA WalkedIs ==
  ASSUME NEW prog, Nested(prog)
  PROVE  Walked(prog, 0) /\ \A i \in 1..Len(prog) : Walked(prog, i) <=> Open(prog, prog[i].in)
<1> DEFINE N == Len(prog)
           up == [k \in 1..N |-> prog[k].in]
           B == {k \in 0..N : k = 0 \/ ~(prog[k].in = 0 \/ prog[prog[k].in].op # "let")}
           v == [k \in B |-> k = 0]
           g == CHOOSE f : WalkedAll(f, prog)
<1>1. \A s : Walked(prog, s) = g[s]
  BY DEF Walked, WalkedAll
<1>2. PICK f : Outwards(f, N, up, B, v)
  <2>1. N \in Nat /\ 0 \in B /\ \A k \in 1..N : up[k] \in 0..(k - 1)
    BY DEF Nested
  <2> HIDE DEF N, up, B, v
  <2> QED BY <2>1, OutwardsExist
<1>20. N \in Nat /\ \A k \in 1..N : up[k] = prog[k].in /\ up[k] \in 0..(k - 1)
  BY DEF Nested
<1>21. \A k \in 0..N : f[k] = IF k \in B THEN v[k] ELSE f[up[k]]
  BY <1>2 DEF Outwards
<1>22. \A k \in 0..N : f[k] \in BOOLEAN
  <2> DEFINE Odd == {k \in Nat : k <= N /\ f[k] \notin BOOLEAN}
  <2>1. SUFFICES ASSUME Odd # {} PROVE FALSE
    BY <1>20
  <2>2. PICK m \in Odd : \A k \in Odd : m <= k
    BY <2>1, LeastNatural
  <2>3. m \in 0..N /\ m \in B => v[m] \in BOOLEAN
    OBVIOUS
  <2>4. m \in 0..N
    BY <2>2, <1>20
  <2>5. m \notin B => m \in 1..N
    BY <2>4, <1>20
  <2> HIDE DEF B, v, N, up
  <2>6. m \notin B => up[m] \in Nat /\ up[m] <= N /\ up[m] < m
    BY <1>20, <2>5
  <2> QED BY <1>21, <2>2, <2>3, <2>4, <2>6
<1>3. WalkedAll(f, prog)
  <2>1. ASSUME NEW k \in 0..N
        PROVE  (IF k \in B THEN v[k] ELSE f[up[k]]) =
                 (k = 0 \/ (f[prog[k].in] /\ (prog[k].in = 0 \/ prog[prog[k].in].op # "let")))
    <3>1. CASE k = 0
      BY <3>1
    <3>2. CASE k # 0
      <4>1. f[prog[k].in] \in BOOLEAN
        BY <1>20, <1>22, <3>2
      <4> QED BY <1>20, <3>2, <4>1
    <3> QED BY <3>1, <3>2
  <2>2. f = [k \in 0..N |-> IF k \in B THEN v[k] ELSE f[up[k]]]
    BY <1>2 DEF Outwards
  <2> HIDE DEF up, B, v
  <2>3. f = [k \in 0..N |-> k = 0 \/ (f[prog[k].in] /\ (prog[k].in = 0 \/ prog[prog[k].in].op # "let"))]
    BY <2>1, <2>2
  <2> QED BY <2>3 DEF WalkedAll
<1>4. WalkedAll(g, prog)
  BY <1>3
<1> HIDE DEF g
<1>5. \A k \in 0..N : g[k] = (k = 0 \/ (g[prog[k].in] /\ (prog[k].in = 0 \/ prog[prog[k].in].op # "let")))
  BY <1>4 DEF WalkedAll
<1>6. g[0] = TRUE
  <2>1. 0 \in 0..N
    BY <1>20
  <2>2. g[0] = (0 = 0 \/ (g[prog[0].in] /\ (prog[0].in = 0 \/ prog[prog[0].in].op # "let")))
    BY <1>5, <2>1
  <2> QED BY <2>2
<1>7. \A i \in 1..N : g[i] = (g[prog[i].in] /\ (prog[i].in = 0 \/ prog[prog[i].in].op # "let"))
  BY <1>5, <1>20
<1>8. ASSUME NEW i \in 1..N PROVE Walked(prog, i) <=> Open(prog, prog[i].in)
  BY <1>1, <1>7 DEF Open
<1>9. Walked(prog, 0)
  BY <1>1, <1>6
<1> QED BY <1>8, <1>9

\* What the names are after each of the first n statements.
EnvsTo(n, f, prog, params, fields) ==
  f = [i \in 0..n |-> IF i = 0 THEN [x \in {0} \X params |-> Fresh] ELSE After(prog, i, f[i - 1], fields)]

\* There are such names.
LEMMA EnvsExist ==
  ASSUME NEW n \in Nat, NEW prog, NEW params, NEW fields PROVE \E f : EnvsTo(n, f, prog, params, fields)
<1> DEFINE To(k, f) == EnvsTo(k, f, prog, params, fields)
           start == [x \in {0} \X params |-> Fresh]
           next(x, k) == After(prog, k, x, fields)
           Beyond == {k \in Nat : ~ \E f : To(k, f)}
<1>0. ASSUME NEW k, NEW f PROVE To(k, f) <=> f = [j \in 0..k |-> IF j = 0 THEN start ELSE next(f[j - 1], j)]
  BY DEF EnvsTo
<1> HIDE DEF To, start, next
<1>1. SUFFICES ASSUME Beyond # {} PROVE FALSE
  BY DEF To
<1>2. PICK m \in Beyond : \A k \in Beyond : m <= k
  BY <1>1, LeastNatural
<1>3. CASE m = 0
  <2> DEFINE f == [k \in 0..0 |-> start]
  <2>1. f = [k \in 0..0 |-> IF k = 0 THEN start ELSE next(f[k - 1], k)]
    OBVIOUS
  <2>2. To(0, f)
    BY <1>0, <2>1
  <2> QED BY <1>2, <1>3, <2>2
<1>4. CASE m # 0
  <2>1. m - 1 \in Nat /\ m - 1 \notin Beyond
    BY <1>2, <1>4
  <2>2. PICK f : To(m - 1, f)
    BY <2>1
  <2> DEFINE g == [k \in 0..m |-> IF k = m THEN next(f[m - 1], m) ELSE f[k]]
  <2>3. \A k \in 0..(m - 1) : g[k] = f[k]
    BY <1>2
  <2>4. \A k \in 0..(m - 1) : f[k] = IF k = 0 THEN start ELSE next(f[k - 1], k)
    <3>1. f = [j \in 0..(m - 1) |-> IF j = 0 THEN start ELSE next(f[j - 1], j)]
      BY <1>0, <2>2
    <3> QED BY <3>1
  <2>5. ASSUME NEW k \in 0..m PROVE g[k] = IF k = 0 THEN start ELSE next(g[k - 1], k)
    <3>1. CASE k = m
      <4>1. g[m] = next(f[m - 1], m) /\ g[m - 1] = f[m - 1]
        BY <1>2, <1>4, <2>1, <2>3
      <4> QED BY <1>4, <3>1, <4>1
    <3>2. CASE k # m
      <4>1. k \in 0..(m - 1) /\ (k # 0 => k - 1 \in 0..(m - 1))
        BY <1>2, <3>2
      <4> HIDE DEF g
      <4> QED BY <2>3, <2>4, <4>1
    <3> QED BY <3>1, <3>2
  <2>6. g = [k \in 0..m |-> IF k = 0 THEN start ELSE next(g[k - 1], k)]
    <3>1. g = [k \in 0..m |-> g[k]]
      OBVIOUS
    <3> HIDE DEF g
    <3> QED BY <2>5, <3>1
  <2>7. To(m, g)
    BY <1>0, <2>6
  <2> QED BY <1>2, <2>7
<1> QED BY <1>3, <1>4

\* And after all of them.
EnvsOf(E, prog, params, fields) ==
  /\ E[0] = [x \in {0} \X params |-> Fresh]
  /\ \A k \in 1..Len(prog) : E[k] = After(prog, k, E[k - 1], fields)

\* So they are for the walker (block).
LEMMA EnvsAre ==
  ASSUME NEW prog, NEW params, NEW fields, Len(prog) \in Nat
  PROVE  EnvsOf(Envs(prog, params, fields), prog, params, fields)
<1> DEFINE To(f) == EnvsTo(Len(prog), f, prog, params, fields)
           g == CHOOSE f : To(f)
<1>1. Envs(prog, params, fields) = g
  BY DEF Envs, EnvsTo
<1>2. To(g)
  <2>1. \E f : To(f)
    BY EnvsExist
  <2> HIDE DEF To
  <2> QED BY <2>1
<1> HIDE DEF g
<1>3. \A k \in 0..Len(prog) : g[k] = IF k = 0 THEN [x \in {0} \X params |-> Fresh] ELSE After(prog, k, g[k - 1], fields)
  BY <1>2 DEF EnvsTo
<1>4. g[0] = [x \in {0} \X params |-> Fresh]
  <2>1. 0 \in 0..Len(prog)
    OBVIOUS
  <2> QED BY <1>3, <2>1
<1>5. \A k \in 1..Len(prog) : g[k] = After(prog, k, g[k - 1], fields)
  BY <1>3
<1> QED BY <1>1, <1>4, <1>5 DEF EnvsOf

\* Where the routers are after each of the first n statements.
RunningTo(n, f, prog, handed) ==
  f = [i \in 0..n |-> IF i = 0 THEN [x \in {0} \X handed |-> <<>>] ELSE Ran(prog, i, f[i - 1])]

\* There are such routers.
LEMMA RunningExist ==
  ASSUME NEW n \in Nat, NEW prog, NEW handed PROVE \E f : RunningTo(n, f, prog, handed)
<1> DEFINE To(k, f) == RunningTo(k, f, prog, handed)
           start == [x \in {0} \X handed |-> <<>>]
           next(x, k) == Ran(prog, k, x)
           Beyond == {k \in Nat : ~ \E f : To(k, f)}
<1>0. ASSUME NEW k, NEW f PROVE To(k, f) <=> f = [j \in 0..k |-> IF j = 0 THEN start ELSE next(f[j - 1], j)]
  BY DEF RunningTo
<1> HIDE DEF To, start, next
<1>1. SUFFICES ASSUME Beyond # {} PROVE FALSE
  BY DEF To
<1>2. PICK m \in Beyond : \A k \in Beyond : m <= k
  BY <1>1, LeastNatural
<1>3. CASE m = 0
  <2> DEFINE f == [k \in 0..0 |-> start]
  <2>1. f = [k \in 0..0 |-> IF k = 0 THEN start ELSE next(f[k - 1], k)]
    OBVIOUS
  <2>2. To(0, f)
    BY <1>0, <2>1
  <2> QED BY <1>2, <1>3, <2>2
<1>4. CASE m # 0
  <2>1. m - 1 \in Nat /\ m - 1 \notin Beyond
    BY <1>2, <1>4
  <2>2. PICK f : To(m - 1, f)
    BY <2>1
  <2> DEFINE g == [k \in 0..m |-> IF k = m THEN next(f[m - 1], m) ELSE f[k]]
  <2>3. \A k \in 0..(m - 1) : g[k] = f[k]
    BY <1>2
  <2>4. \A k \in 0..(m - 1) : f[k] = IF k = 0 THEN start ELSE next(f[k - 1], k)
    <3>1. f = [j \in 0..(m - 1) |-> IF j = 0 THEN start ELSE next(f[j - 1], j)]
      BY <1>0, <2>2
    <3> QED BY <3>1
  <2>5. ASSUME NEW k \in 0..m PROVE g[k] = IF k = 0 THEN start ELSE next(g[k - 1], k)
    <3>1. CASE k = m
      <4>1. g[m] = next(f[m - 1], m) /\ g[m - 1] = f[m - 1]
        BY <1>2, <1>4, <2>1, <2>3
      <4> QED BY <1>4, <3>1, <4>1
    <3>2. CASE k # m
      <4>1. k \in 0..(m - 1) /\ (k # 0 => k - 1 \in 0..(m - 1))
        BY <1>2, <3>2
      <4> HIDE DEF g
      <4> QED BY <2>3, <2>4, <4>1
    <3> QED BY <3>1, <3>2
  <2>6. g = [k \in 0..m |-> IF k = 0 THEN start ELSE next(g[k - 1], k)]
    <3>1. g = [k \in 0..m |-> g[k]]
      OBVIOUS
    <3> HIDE DEF g
    <3> QED BY <2>5, <3>1
  <2>7. To(m, g)
    BY <1>0, <2>6
  <2> QED BY <1>2, <2>7
<1> QED BY <1>3, <1>4

\* And after all of them.
RunningOf(R, prog, handed) ==
  /\ R[0] = [x \in {0} \X handed |-> <<>>]
  /\ \A k \in 1..Len(prog) : R[k] = Ran(prog, k, R[k - 1])

\* So they are when the function runs.
LEMMA RunningAre ==
  ASSUME NEW prog, NEW handed, Len(prog) \in Nat
  PROVE  RunningOf(Running(prog, handed), prog, handed)
<1> DEFINE To(f) == RunningTo(Len(prog), f, prog, handed)
           g == CHOOSE f : To(f)
<1>1. Running(prog, handed) = g
  BY DEF Running, RunningTo
<1>2. To(g)
  <2>1. \E f : To(f)
    BY RunningExist
  <2> HIDE DEF To
  <2> QED BY <2>1
<1> HIDE DEF g
<1>3. \A k \in 0..Len(prog) : g[k] = IF k = 0 THEN [x \in {0} \X handed |-> <<>>] ELSE Ran(prog, k, g[k - 1])
  BY <1>2 DEF RunningTo
<1>4. g[0] = [x \in {0} \X handed |-> <<>>]
  <2>1. 0 \in 0..Len(prog)
    OBVIOUS
  <2> QED BY <1>3, <2>1
<1>5. \A k \in 1..Len(prog) : g[k] = Ran(prog, k, g[k - 1])
  BY <1>3
<1> QED BY <1>1, <1>4, <1>5 DEF RunningOf

-----------------------------------------------------------------------------
(* RouteSources: what is told of a Go function is where it serves it.      *)

\* A function of Go that compiles: its statements stand one in another, names are used where
\* they are bound, and a field of a struct is not one of them.
Function(prog, params, fields, S) ==
  /\ Nested(prog) /\ DOMAIN prog = 1..Len(prog) /\ params \cap fields = {} /\ "no router" \notin S
  /\ \A i \in 1..Len(prog) :
       LET st == prog[i] IN
       /\ st.op \in {"let", "scope", "block", "reg"} /\ st.via \in {"none", "ctor", "Group", "Route"}
       /\ st.along.kind \in {"path", "unreadable", "other"} /\ st.along.says \in Seq(S)
       /\ st.path.kind \in {"path", "unreadable", "other"} /\ st.path.says \in Seq(S)
       /\ st.via = "none" => st.along.kind = "path" /\ st.along.says = <<>>
       /\ st.op = "scope" => st.via \in {"Group", "Route"}
       /\ st.op = "reg" => st.via # "ctor"
       /\ st.op \in {"let", "scope"} => st.name \notin fields
       /\ st.op \in {"let", "scope"} /\ st.via # "ctor" => RouterAt(prog, params \cup fields, i) # NoBase

\* What is told of a router, and where it is.
Leads(b, r, S) ==
  b \in [prefix: Seq(S), unknown: BOOLEAN] /\ r \in Seq(S) /\ (~b.unknown => b.prefix = r)

\* Of an expression: it is no router, or one and so in both.
Alike(b, r, S) == (b = NoRouter /\ r = NoBase) \/ Leads(b, r, S)

\* What the reader holds of the names is what they are, wherever it reads; what it holds of
\* the fields is that they are what was handed.
NamesTie(names, at, prog, fields, S) ==
  \A x : \A k \in 0..Len(prog) : Open(prog, k) /\ x \notin fields =>
    /\ <<k, x>> \in DOMAIN names <=> <<k, x>> \in DOMAIN at
    /\ <<k, x>> \in DOMAIN names => Leads(names[<<k, x>>], at[<<k, x>>], S)
FieldsTie(names, at, prog, fields) ==
  \A k \in 0..Len(prog), x \in fields :
    /\ <<k, x>> \in DOMAIN names => names[<<k, x>>] = Fresh
    /\ <<k, x>> \in DOMAIN at => at[<<k, x>>] = <<>>
    /\ <<0, x>> \in DOMAIN at
Tie(names, at, prog, fields, S) == NamesTie(names, at, prog, fields, S) /\ FieldsTie(names, at, prog, fields)

\* The member of a sequence of one is of the set its members are of.
LEMMA FirstIsOf ==
  ASSUME NEW S, NEW x, <<x>> \in Seq(S) PROVE x \in S
<1> DEFINE w == <<x>>
<1>1. Len(w) = 1 /\ w[1] = x
  OBVIOUS
<1>2. w \in Seq(S)
  OBVIOUS
<1> HIDE DEF w
<1>3. 1 \in 1..Len(w)
  BY <1>1
<1>4. w[1] \in S
  BY ONLY <1>2, <1>3, ElementOfSeq
<1> QED BY <1>1, <1>4

\* What leads somewhere is a router, since no path has the mark of what is none.
LEMMA NoRouterLeadsNowhere ==
  ASSUME NEW S, "no router" \notin S
  PROVE  \A b, r : Leads(b, r, S) => b # NoRouter /\ r # NoBase
<1>1. <<"no router">> \notin Seq(S)
  BY FirstIsOf
<1>2. NoRouter.prefix = <<"no router">>
  BY DEF NoRouter
<1> QED BY <1>1, <1>2 DEF Leads, NoBase

\* A name is looked up alike.
LEMMA NamesLookedUp ==
  ASSUME NEW prog, Nested(prog), NEW fields, NEW S, NEW names, NEW at, NamesTie(names, at, prog, fields, S),
         NEW x, x \notin fields, NEW scope \in 0..Len(prog), Open(prog, scope)
  PROVE  Alike(InScope(prog, names, scope, x, NoRouter), InScope(prog, at, scope, x, NoBase), S)
<1> DEFINE N == Len(prog)
           b(k) == InScope(prog, names, k, x, NoRouter)
           r(k) == InScope(prog, at, k, x, NoBase)
           Odd == {k \in Nat : k <= N /\ Open(prog, k) /\ ~Alike(b(k), r(k), S)}
<1>0. N \in Nat /\ \A k \in 1..N : prog[k].in \in 0..(k - 1)
  BY DEF Nested
<1>1. SUFFICES ASSUME Odd # {} PROVE FALSE
  BY <1>0
<1>2. PICK m \in Odd : \A k \in Odd : m <= k
  BY <1>1, LeastNatural
<1>3. m \in 0..N /\ Open(prog, m)
  BY <1>0, <1>2
<1>4. /\ b(m) = IF <<m, x>> \in DOMAIN names THEN names[<<m, x>>] ELSE IF m = 0 THEN NoRouter ELSE b(prog[m].in)
      /\ r(m) = IF <<m, x>> \in DOMAIN at THEN at[<<m, x>>] ELSE IF m = 0 THEN NoBase ELSE r(prog[m].in)
  BY <1>3, InScopeIs
<1>5. /\ <<m, x>> \in DOMAIN names <=> <<m, x>> \in DOMAIN at
      /\ <<m, x>> \in DOMAIN names => Leads(names[<<m, x>>], at[<<m, x>>], S)
  BY <1>3 DEF NamesTie
<1>6. ~Alike(b(m), r(m), S)
  BY <1>2
<1>7. m # 0 /\ <<m, x>> \notin DOMAIN names
  BY <1>4, <1>5, <1>6 DEF Alike
<1>8. Open(prog, prog[m].in)
  BY <1>3, <1>7, WalkedIs DEF Open
<1>9. prog[m].in \in Nat /\ prog[m].in < m /\ prog[m].in <= N
  BY <1>0, <1>3, <1>7
<1>10. prog[m].in \notin Odd
  BY <1>2, <1>9
<1>11. Alike(b(prog[m].in), r(prog[m].in), S)
  BY <1>8, <1>9, <1>10
<1> HIDE DEF b, r
<1> QED BY <1>4, <1>5, <1>6, <1>7, <1>11

\* A field is what was handed, or was not seen yet.
LEMMA FieldsLookedUp ==
  ASSUME NEW prog, Nested(prog), NEW fields, NEW names, NEW at, FieldsTie(names, at, prog, fields),
         NEW x \in fields, NEW scope \in 0..Len(prog)
  PROVE  /\ InScope(prog, names, scope, x, NoRouter) \in {NoRouter, Fresh}
         /\ InScope(prog, at, scope, x, NoBase) = <<>>
<1> DEFINE N == Len(prog)
           b(k) == InScope(prog, names, k, x, NoRouter)
           r(k) == InScope(prog, at, k, x, NoBase)
           Odd == {k \in Nat : k <= N /\ ~(b(k) \in {NoRouter, Fresh} /\ r(k) = <<>>)}
<1>0. N \in Nat /\ \A k \in 1..N : prog[k].in \in 0..(k - 1)
  BY DEF Nested
<1>1. SUFFICES ASSUME Odd # {} PROVE FALSE
  BY <1>0
<1>2. PICK m \in Odd : \A k \in Odd : m <= k
  BY <1>1, LeastNatural
<1>3. m \in 0..N
  BY <1>0, <1>2
<1>4. /\ b(m) = IF <<m, x>> \in DOMAIN names THEN names[<<m, x>>] ELSE IF m = 0 THEN NoRouter ELSE b(prog[m].in)
      /\ r(m) = IF <<m, x>> \in DOMAIN at THEN at[<<m, x>>] ELSE IF m = 0 THEN NoBase ELSE r(prog[m].in)
  BY <1>3, InScopeIs
<1>5. /\ <<m, x>> \in DOMAIN names => names[<<m, x>>] = Fresh
      /\ <<m, x>> \in DOMAIN at => at[<<m, x>>] = <<>>
      /\ m = 0 => <<m, x>> \in DOMAIN at
  BY <1>3 DEF FieldsTie
<1>6. m # 0 => prog[m].in \in Nat /\ prog[m].in < m /\ prog[m].in <= N
  BY <1>0, <1>3
<1>7. m # 0 => prog[m].in \notin Odd
  BY <1>2, <1>6
<1>8. m # 0 => b(prog[m].in) \in {NoRouter, Fresh} /\ r(prog[m].in) = <<>>
  BY <1>6, <1>7
<1>9. ~(b(m) \in {NoRouter, Fresh} /\ r(m) = <<>>)
  BY <1>2
<1> HIDE DEF b, r
<1> QED BY <1>4, <1>5, <1>8, <1>9

\* A field that was bound at its root is seen from the scope.
LEMMA FieldIsSeen ==
  ASSUME NEW prog, Nested(prog), NEW x, NEW names, NEW scope \in 0..Len(prog),
         <<RootOf(prog, scope), x>> \in DOMAIN names,
         \A k \in 0..Len(prog) : <<k, x>> \in DOMAIN names => names[<<k, x>>] = Fresh
  PROVE  InScope(prog, names, scope, x, NoRouter) = Fresh
<1> DEFINE N == Len(prog)
           b(k) == InScope(prog, names, k, x, NoRouter)
           Odd == {k \in Nat : k <= N /\ RootOf(prog, k) = RootOf(prog, scope) /\ b(k) # Fresh}
<1>0. N \in Nat /\ \A k \in 1..N : prog[k].in \in 0..(k - 1)
  BY DEF Nested
<1>1. SUFFICES ASSUME Odd # {} PROVE FALSE
  BY <1>0
<1>2. PICK m \in Odd : \A k \in Odd : m <= k
  BY <1>1, LeastNatural
<1>3. m \in 0..N
  BY <1>0, <1>2
<1>4. b(m) = IF <<m, x>> \in DOMAIN names THEN names[<<m, x>>] ELSE IF m = 0 THEN NoRouter ELSE b(prog[m].in)
  BY <1>3, InScopeIs
<1>5. RootOf(prog, m) = IF m = 0 \/ prog[m].op # "block" THEN m ELSE RootOf(prog, prog[m].in)
  BY <1>3, RootIs
<1>6. b(m) # Fresh /\ RootOf(prog, m) = RootOf(prog, scope)
  BY <1>2
<1>7. <<m, x>> \notin DOMAIN names
  BY <1>3, <1>4, <1>6
<1>8. m # 0 /\ prog[m].op = "block"
  BY <1>5, <1>6, <1>7
<1>9. prog[m].in \in Nat /\ prog[m].in < m /\ prog[m].in <= N
  BY <1>0, <1>3, <1>8
<1>10. prog[m].in \in Odd
  BY <1>4, <1>5, <1>6, <1>7, <1>8, <1>9
<1> QED BY <1>2, <1>9, <1>10

\* Where a field is bound.
LEMMA RootIsScope ==
  ASSUME NEW prog, Nested(prog), NEW scope \in 0..Len(prog)
  PROVE  RootOf(prog, scope) \in 0..Len(prog)
<1> DEFINE N == Len(prog)
           Odd == {k \in Nat : k <= N /\ RootOf(prog, k) \notin 0..N}
<1>0. N \in Nat /\ \A k \in 1..N : prog[k].in \in 0..(k - 1)
  BY DEF Nested
<1>1. SUFFICES ASSUME Odd # {} PROVE FALSE
  BY <1>0
<1>2. PICK m \in Odd : \A k \in Odd : m <= k
  BY <1>1, LeastNatural
<1>3. m \in 0..N
  BY <1>0, <1>2
<1>5. RootOf(prog, m) = IF m = 0 \/ prog[m].op # "block" THEN m ELSE RootOf(prog, prog[m].in)
  BY <1>3, RootIs
<1>6. m # 0 => prog[m].in \in Nat /\ prog[m].in < m /\ prog[m].in <= N
  BY <1>0, <1>3
<1> QED BY <1>2, <1>3, <1>5, <1>6

\* Seeing a field for the first time keeps the tie.
LEMMA BoundTies ==
  ASSUME NEW prog, Nested(prog), NEW fields, NEW S, NEW names, NEW at, Tie(names, at, prog, fields, S), NEW st
  PROVE  Tie(Bound(prog, names, st, fields), at, prog, fields, S)
<1> DEFINE e == Bound(prog, names, st, fields)
           root == <<RootOf(prog, st.in), st.recv>>
<1>1. CASE e = names
  BY <1>1
<1>2. CASE e # names
  <2>1. st.recv \in fields /\ e = Bind(names, RootOf(prog, st.in), st.recv, Fresh)
    BY <1>2 DEF Bound
  <2>2. DOMAIN e = {root} \cup DOMAIN names /\ e[root] = Fresh /\ \A y \in DOMAIN names : y # root => e[y] = names[y]
    BY <2>1 DEF Bind
  <2> HIDE DEF e
  <2>3. NamesTie(e, at, prog, fields, S)
    <3>1. ASSUME NEW x, NEW k \in 0..Len(prog), Open(prog, k), x \notin fields
          PROVE  /\ <<k, x>> \in DOMAIN e <=> <<k, x>> \in DOMAIN at
                 /\ <<k, x>> \in DOMAIN e => Leads(e[<<k, x>>], at[<<k, x>>], S)
      <4>1. <<k, x>> # root
        BY <2>1, <3>1
      <4>2. /\ <<k, x>> \in DOMAIN names <=> <<k, x>> \in DOMAIN at
            /\ <<k, x>> \in DOMAIN names => Leads(names[<<k, x>>], at[<<k, x>>], S)
        BY <3>1 DEF Tie, NamesTie
      <4> HIDE DEF root
      <4> QED BY <2>2, <4>1, <4>2
    <3> QED BY <3>1 DEF NamesTie
  <2>4. FieldsTie(e, at, prog, fields)
    <3>1. ASSUME NEW k \in 0..Len(prog), NEW x \in fields
          PROVE  /\ <<k, x>> \in DOMAIN e => e[<<k, x>>] = Fresh
                 /\ <<k, x>> \in DOMAIN at => at[<<k, x>>] = <<>>
                 /\ <<0, x>> \in DOMAIN at
      <4>1. /\ <<k, x>> \in DOMAIN names => names[<<k, x>>] = Fresh
            /\ <<k, x>> \in DOMAIN at => at[<<k, x>>] = <<>>
            /\ <<0, x>> \in DOMAIN at
        BY DEF Tie, FieldsTie
      <4> HIDE DEF root
      <4> QED BY <2>2, <4>1
    <3> QED BY <3>1 DEF FieldsTie
  <2> QED BY <2>3, <2>4 DEF Tie, e
<1> QED BY <1>1, <1>2

\* After it, the receiver of a call is what it is.
LEMMA ReceiversAlike ==
  ASSUME NEW prog, Nested(prog), NEW fields, NEW S, NEW names, NEW at, Tie(names, at, prog, fields, S),
         NEW st, st.in \in 0..Len(prog), Open(prog, st.in), st.op # "block", st.via # "ctor",
         ~(/\ st.op = "let" /\ st.via = "none" /\ st.recv \in fields
           /\ InScope(prog, names, st.in, st.recv, NoRouter) = NoRouter)
  PROVE  Alike(InScope(prog, Bound(prog, names, st, fields), st.in, st.recv, NoRouter),
               InScope(prog, at, st.in, st.recv, NoBase), S)
<1> DEFINE e == Bound(prog, names, st, fields)
<1>1. Tie(e, at, prog, fields, S)
  BY BoundTies
<1> HIDE DEF e
<1>2. CASE st.recv \notin fields
  <2>1. NamesTie(e, at, prog, fields, S)
    BY <1>1 DEF Tie
  <2> QED BY <1>2, <2>1, NamesLookedUp DEF e
<1>3. CASE st.recv \in fields
  <2>1. FieldsTie(e, at, prog, fields)
    BY <1>1 DEF Tie
  <2>2. /\ InScope(prog, e, st.in, st.recv, NoRouter) \in {NoRouter, Fresh}
        /\ InScope(prog, at, st.in, st.recv, NoBase) = <<>>
    BY <1>3, <2>1, FieldsLookedUp
  <2>3. InScope(prog, e, st.in, st.recv, NoRouter) = Fresh
    <3>1. CASE InScope(prog, names, st.in, st.recv, NoRouter) = NoRouter
      <4>1. e = Bind(names, RootOf(prog, st.in), st.recv, Fresh)
        BY <1>3, <3>1 DEF e, Bound
      <4>2. <<RootOf(prog, st.in), st.recv>> \in DOMAIN e
        BY <4>1 DEF Bind
      <4>3. \A k \in 0..Len(prog) : <<k, st.recv>> \in DOMAIN e => e[<<k, st.recv>>] = Fresh
        BY <1>3, <2>1 DEF FieldsTie
      <4> QED BY <4>2, <4>3, FieldIsSeen
    <3>2. CASE InScope(prog, names, st.in, st.recv, NoRouter) # NoRouter
      <4>1. e = names
        BY <3>2 DEF e, Bound
      <4> QED BY <2>2, <3>2, <4>1
    <3> QED BY <3>1, <3>2
  <2>4. Leads(Fresh, <<>>, S)
    BY DEF Leads, Fresh
  <2> QED BY <2>2, <2>3, <2>4 DEF Alike, e
<1> QED BY <1>2, <1>3

\* Giving a name to two that are alike keeps the tie.
LEMMA BindTies ==
  ASSUME NEW prog, NEW fields, NEW S, NEW names, NEW at, Tie(names, at, prog, fields, S),
         NEW c, NEW x, x \notin fields, NEW b, NEW r, Leads(b, r, S)
  PROVE  Tie(Bind(names, c, x, b), Bind(at, c, x, r), prog, fields, S)
<1> DEFINE p == <<c, x>>
           e == Bind(names, c, x, b)
           f == Bind(at, c, x, r)
<1>1. DOMAIN e = {p} \cup DOMAIN names /\ e[p] = b /\ \A y \in DOMAIN names : y # p => e[y] = names[y]
  BY DEF Bind
<1>2. DOMAIN f = {p} \cup DOMAIN at /\ f[p] = r /\ \A y \in DOMAIN at : y # p => f[y] = at[y]
  BY DEF Bind
<1> HIDE DEF e, f
<1>3. NamesTie(e, f, prog, fields, S)
  <2>1. ASSUME NEW y, NEW k \in 0..Len(prog), Open(prog, k), y \notin fields
        PROVE  /\ <<k, y>> \in DOMAIN e <=> <<k, y>> \in DOMAIN f
               /\ <<k, y>> \in DOMAIN e => Leads(e[<<k, y>>], f[<<k, y>>], S)
    <3> DEFINE q == <<k, y>>
    <3>1. /\ q \in DOMAIN names <=> q \in DOMAIN at
          /\ q \in DOMAIN names => Leads(names[q], at[q], S)
      BY <2>1 DEF Tie, NamesTie
    <3> HIDE DEF p, q
    <3>2. /\ q \in DOMAIN e <=> q \in DOMAIN f
          /\ q \in DOMAIN e => Leads(e[q], f[q], S)
      BY <1>1, <1>2, <3>1
    <3> QED BY <3>2 DEF q
  <2> QED BY <2>1 DEF NamesTie
<1>4. FieldsTie(e, f, prog, fields)
  <2>1. ASSUME NEW k \in 0..Len(prog), NEW y \in fields
        PROVE  /\ <<k, y>> \in DOMAIN e => e[<<k, y>>] = Fresh
               /\ <<k, y>> \in DOMAIN f => f[<<k, y>>] = <<>>
               /\ <<0, y>> \in DOMAIN f
    <3>1. /\ <<k, y>> \in DOMAIN names => names[<<k, y>>] = Fresh
          /\ <<k, y>> \in DOMAIN at => at[<<k, y>>] = <<>>
          /\ <<0, y>> \in DOMAIN at
      BY DEF Tie, FieldsTie
    <3>2. <<k, y>> # p
      OBVIOUS
    <3> HIDE DEF p
    <3> QED BY <1>1, <1>2, <3>1, <3>2
  <2> QED BY <2>1 DEF FieldsTie
<1> QED BY <1>3, <1>4 DEF Tie, e, f

\* What is bound where nobody reads is not looked up.
LEMMA UnreadTies ==
  ASSUME NEW prog, NEW fields, NEW S, NEW names, NEW at, Tie(names, at, prog, fields, S),
         NEW c, ~Open(prog, c), NEW x, x \notin fields, NEW r
  PROVE  Tie(names, Bind(at, c, x, r), prog, fields, S)
<1> DEFINE p == <<c, x>>
           f == Bind(at, c, x, r)
<1>2. DOMAIN f = {p} \cup DOMAIN at /\ f[p] = r /\ \A y \in DOMAIN at : y # p => f[y] = at[y]
  BY DEF Bind
<1> HIDE DEF f
<1>3. NamesTie(names, f, prog, fields, S)
  <2>1. ASSUME NEW y, NEW k \in 0..Len(prog), Open(prog, k), y \notin fields
        PROVE  /\ <<k, y>> \in DOMAIN names <=> <<k, y>> \in DOMAIN f
               /\ <<k, y>> \in DOMAIN names => Leads(names[<<k, y>>], f[<<k, y>>], S)
    <3> DEFINE q == <<k, y>>
    <3>1. /\ q \in DOMAIN names <=> q \in DOMAIN at
          /\ q \in DOMAIN names => Leads(names[q], at[q], S)
      BY <2>1 DEF Tie, NamesTie
    <3>2. q # p
      BY <2>1
    <3> HIDE DEF p, q
    <3>3. /\ q \in DOMAIN names <=> q \in DOMAIN f
          /\ q \in DOMAIN names => Leads(names[q], f[q], S)
      BY <1>2, <3>1, <3>2
    <3> QED BY <3>3 DEF q
  <2> QED BY <2>1 DEF NamesTie
<1>4. FieldsTie(names, f, prog, fields)
  <2>1. ASSUME NEW k \in 0..Len(prog), NEW y \in fields
        PROVE  /\ <<k, y>> \in DOMAIN names => names[<<k, y>>] = Fresh
               /\ <<k, y>> \in DOMAIN f => f[<<k, y>>] = <<>>
               /\ <<0, y>> \in DOMAIN f
    <3>1. /\ <<k, y>> \in DOMAIN names => names[<<k, y>>] = Fresh
          /\ <<k, y>> \in DOMAIN at => at[<<k, y>>] = <<>>
          /\ <<0, y>> \in DOMAIN at
      BY DEF Tie, FieldsTie
    <3>2. <<k, y>> # p
      OBVIOUS
    <3> HIDE DEF p
    <3> QED BY <1>2, <3>1, <3>2
  <2> QED BY <2>1 DEF FieldsTie
<1> QED BY <1>3, <1>4 DEF Tie, f

\* A path that follows a router is where its routes are.
LEMMA DeriveLeads ==
  ASSUME NEW S, NEW b, NEW r, Leads(b, r, S), NEW says \in Seq(S)
  PROVE  Leads(Derive(b, says), r \o says, S)
<1>1. b.prefix \in Seq(S) /\ b.unknown \in BOOLEAN /\ r \in Seq(S) /\ (~b.unknown => b.prefix = r)
  BY DEF Leads
<1>2. b.prefix \o says \in Seq(S) /\ r \o says \in Seq(S)
  BY <1>1, ConcatProperties
<1>3. Derive(b, says) = [prefix |-> b.prefix \o says, unknown |-> b.unknown]
  BY DEF Derive
<1>4. ~b.unknown => b.prefix \o says = r \o says
  BY <1>1
<1> DEFINE d == Derive(b, says)
<1>5. d \in [prefix: Seq(S), unknown: BOOLEAN] /\ d.prefix = b.prefix \o says /\ d.unknown = b.unknown
  BY <1>1, <1>2, <1>3
<1> HIDE DEF d
<1>6. Leads(d, r \o says, S)
  BY <1>2, <1>4, <1>5 DEF Leads
<1> QED BY <1>6 DEF d

\* The same of a closure: where the path cannot be told, its routes are not said to be anywhere.
LEMMA ScopeLeads ==
  ASSUME NEW S, NEW b, NEW r, Leads(b, r, S), NEW says \in Seq(S), NEW x \in Seq(S), NEW u \in BOOLEAN,
         ~u => x = says
  PROVE  Leads([Derive(b, x) EXCEPT !.unknown = @ \/ u], r \o says, S)
<1> DEFINE a == Derive(b, x)
           d == [a EXCEPT !.unknown = @ \/ u]
<1>1. Leads(a, r \o x, S)
  BY DeriveLeads
<1>2. r \o says \in Seq(S)
  BY ConcatProperties DEF Leads
<1> HIDE DEF a
<1>3. a \in [prefix: Seq(S), unknown: BOOLEAN]
  BY <1>1 DEF Leads
<1>4. d \in [prefix: Seq(S), unknown: BOOLEAN] /\ d.unknown = (a.unknown \/ u) /\ d.prefix = a.prefix
  BY <1>3
<1> HIDE DEF d
<1>5. ~d.unknown => d.prefix = r \o says
  BY <1>1, <1>4 DEF Leads
<1>6. Leads(d, r \o says, S)
  BY <1>2, <1>4, <1>5 DEF Leads
<1> QED BY <1>6 DEF d, a

\* A call whose path is not one of those the reader gets wrong.
Readable(st, S) ==
  /\ st.op \in {"let", "scope"} /\ st.via # "ctor" /\ (st.op = "scope" => st.via \in {"Group", "Route"})
  /\ st.along.says \in Seq(S) /\ st.along.kind \in {"path", "unreadable"}
  /\ st.via = "none" => st.along.kind = "path" /\ st.along.says = <<>>
  /\ st.along.kind = "unreadable" => st.op = "scope" /\ st.via = "Route"

\* What is bound to a name, and what the parameter of a closure is, where what the reader
\* gets wrong is left aside.
LEMMA BindingLeads ==
  ASSUME NEW prog, NEW S, NEW st, Readable(st, S), NEW e, NEW r,
         InScope(prog, e, st.in, st.recv, NoRouter) # NoRouter,
         Leads(InScope(prog, e, st.in, st.recv, NoRouter), r, S)
  PROVE  Leads(IF st.op = "let" THEN Resolved(prog, e, st) ELSE Scoped(prog, e, st), r \o st.along.says, S)
<1> DEFINE b == InScope(prog, e, st.in, st.recv, NoRouter)
           x == IF st.along.kind = "path" THEN st.along.says ELSE <<>>
           u == st.via # "Group" /\ st.along.kind = "unreadable"
<1>1. b # NoRouter /\ Leads(b, r, S) /\ st.along.says \in Seq(S)
  BY DEF Readable
<1>2. CASE st.op = "scope"
  <2>1. Scoped(prog, e, st) = [Derive(b, x) EXCEPT !.unknown = @ \/ u]
    BY <1>1, <1>2 DEF Scoped, Readable
  <2>2. x \in Seq(S) /\ u \in BOOLEAN /\ (~u => x = st.along.says)
    BY <1>1, <1>2 DEF Readable
  <2> HIDE DEF x, u, b
  <2>3. Leads([Derive(b, x) EXCEPT !.unknown = @ \/ u], r \o st.along.says, S)
    BY <1>1, <2>2, ScopeLeads
  <2> QED BY <1>2, <2>1, <2>3
<1>3. CASE st.op = "let" /\ st.via = "none"
  <2>1. Resolved(prog, e, st) = b /\ st.along.says = <<>>
    BY <1>1, <1>3 DEF Resolved, Readable
  <2> HIDE DEF b
  <2>2. r \o <<>> = r
    BY <1>1, ConcatEmptySeq DEF Leads
  <2> QED BY <1>1, <1>3, <2>1, <2>2
<1>4. CASE st.op = "let" /\ st.via # "none"
  <2>1. Resolved(prog, e, st) = Derive(b, st.along.says)
    BY <1>1, <1>4 DEF Resolved, Readable
  <2> HIDE DEF b
  <2> QED BY <1>1, <1>4, <2>1, DeriveLeads
<1> QED BY <1>2, <1>3, <1>4 DEF Readable

\* A statement keeps the tie.
LEMMA StatementTies ==
  ASSUME NEW prog, NEW params, NEW fields, NEW S, Function(prog, params, fields, S), ~PrefixDropped(prog),
         NEW i \in 1..Len(prog), NEW names, NEW at, Tie(names, at, prog, fields, S),
         prog[i].op \in {"let", "scope"} /\ prog[i].via # "ctor" =>
           InScope(prog, at, prog[i].in, prog[i].recv, NoBase) # NoBase,
         ~(/\ prog[i].op = "let" /\ prog[i].via = "none" /\ prog[i].recv \in fields
           /\ InScope(prog, names, prog[i].in, prog[i].recv, NoRouter) = NoRouter)
  PROVE  Tie(After(prog, i, names, fields), Ran(prog, i, at), prog, fields, S)
<1> DEFINE st == prog[i]
           c == IF st.op = "scope" THEN i ELSE st.in
           e == Bound(prog, names, st, fields)
           base == InScope(prog, at, st.in, st.recv, NoBase)
           to == IF st.op = "let" THEN Resolved(prog, e, st) ELSE Scoped(prog, e, st)
           r == IF st.via = "ctor" THEN <<>> ELSE base \o st.along.says
<1>1. /\ Nested(prog) /\ "no router" \notin S /\ st.in \in 0..Len(prog)
      /\ st.op \in {"let", "scope", "block", "reg"} /\ st.via \in {"none", "ctor", "Group", "Route"}
      /\ st.along.kind \in {"path", "unreadable", "other"} /\ st.along.says \in Seq(S)
      /\ st.via = "none" => st.along.kind = "path" /\ st.along.says = <<>>
      /\ st.op = "scope" => st.via \in {"Group", "Route"}
      /\ st.op \in {"let", "scope"} => st.name \notin fields
  <2>1. Nested(prog) /\ "no router" \notin S
    BY DEF Function
  <2>2. st.in \in 0..Len(prog)
    <3>1. Len(prog) \in Nat /\ prog[i].in \in 0..(i - 1)
      BY <2>1 DEF Nested
    <3> QED BY <3>1
  <2>3. /\ st.op \in {"let", "scope", "block", "reg"} /\ st.via \in {"none", "ctor", "Group", "Route"}
        /\ st.along.kind \in {"path", "unreadable", "other"} /\ st.along.says \in Seq(S)
        /\ st.via = "none" => st.along.kind = "path" /\ st.along.says = <<>>
        /\ st.op = "scope" => st.via \in {"Group", "Route"}
        /\ st.op \in {"let", "scope"} => st.name \notin fields
    BY DEF Function
  <2> HIDE DEF st
  <2> QED BY <2>1, <2>2, <2>3
<1>2. st.along.kind # "other" /\ (st.along.kind = "unreadable" => st.op = "scope" /\ st.via = "Route")
  BY DEF PrefixDropped, Function
<1>3. Walked(prog, i) <=> Open(prog, st.in)
  BY <1>1, WalkedIs
<1>4. Ran(prog, i, at) = IF st.op \in {"let", "scope"} THEN Bind(at, c, st.name, r) ELSE at
  <2>1. st.op \notin {"let", "scope"} => Ran(prog, i, at) = at
    BY DEF Ran
  <2>2. st.op \in {"let", "scope"} /\ st.via = "ctor" => Ran(prog, i, at) = Bind(at, c, st.name, <<>>)
    BY DEF Ran
  <2>3. st.op \in {"let", "scope"} /\ st.via # "ctor" =>
          Ran(prog, i, at) = Bind(at, c, st.name, base \o st.along.says)
    BY DEF Ran
  <2> HIDE DEF st, c, base
  <2> QED BY <2>1, <2>2, <2>3
<1>5. CASE ~Walked(prog, i)
  <2>1. After(prog, i, names, fields) = names
    BY <1>5 DEF After
  <2>2. ~Open(prog, c)
    BY <1>3, <1>5 DEF Open
  <2> HIDE DEF c, r
  <2>3. st.op \in {"let", "scope"} => Tie(names, Bind(at, c, st.name, r), prog, fields, S)
    BY <1>1, <2>2, UnreadTies
  <2> QED BY <1>4, <2>1, <2>3
<1>6. CASE Walked(prog, i) /\ st.op \notin {"let", "scope"}
  <2>1. After(prog, i, names, fields) = e
    BY <1>6 DEF After
  <2>2. Ran(prog, i, at) = at
    BY <1>4, <1>6
  <2>3. Tie(e, at, prog, fields, S)
    BY <1>1, BoundTies
  <2> HIDE DEF e
  <2> QED BY <2>1, <2>2, <2>3
<1>7. CASE Walked(prog, i) /\ st.op \in {"let", "scope"}
  <2>1. Tie(e, at, prog, fields, S)
    BY <1>1, BoundTies
  <2>2. Leads(to, r, S)
    <3>1. CASE st.via = "ctor"
      <4>1. to = Fresh /\ r = <<>>
        BY <1>1, <1>7, <3>1 DEF Resolved
      <4>2. Leads(Fresh, <<>>, S)
        BY DEF Leads, Fresh
      <4> QED BY <4>1, <4>2
    <3>2. CASE st.via # "ctor"
      <4>1. Alike(InScope(prog, e, st.in, st.recv, NoRouter), base, S)
        <5>1. Open(prog, st.in) /\ st.op # "block"
          BY <1>3, <1>7
        <5> HIDE DEF base
        <5> QED BY <1>1, <3>2, <5>1, ReceiversAlike DEF base
      <4>2. base # NoBase
        BY <1>7, <3>2
      <4>3. Leads(InScope(prog, e, st.in, st.recv, NoRouter), base, S)
        BY <4>1, <4>2 DEF Alike
      <4>4. InScope(prog, e, st.in, st.recv, NoRouter) # NoRouter
        BY <1>1, <4>3, NoRouterLeadsNowhere
      <4>5. Readable(st, S)
        <5> HIDE DEF st
        <5> QED BY <1>1, <1>2, <1>7, <3>2 DEF Readable
      <4> HIDE DEF st, e, base
      <4>6. Leads(to, base \o st.along.says, S)
        BY <4>3, <4>4, <4>5, BindingLeads
      <4> QED BY <3>2, <4>6
    <3> QED BY <3>1, <3>2
  <2>3. to # NoRouter
    BY <1>1, <2>2, NoRouterLeadsNowhere
  <2>4. After(prog, i, names, fields) = Bind(e, c, st.name, to)
    BY <1>7, <2>3 DEF After
  <2>5. Ran(prog, i, at) = Bind(at, c, st.name, r)
    BY <1>4, <1>7
  <2>6. st.name \notin fields
    BY <1>1, <1>7
  <2> HIDE DEF st, e, c, to, r
  <2>7. Tie(Bind(e, c, st.name, to), Bind(at, c, st.name, r), prog, fields, S)
    BY <2>1, <2>2, <2>6, BindTies
  <2> QED BY <2>4, <2>5, <2>7
<1> QED BY <1>5, <1>6, <1>7

\* The tie at the head of a function, where what it is handed has its names.
LEMMA HeadTies ==
  ASSUME NEW prog, NEW params, NEW fields, NEW S, params \cap fields = {}
  PROVE  Tie([x \in {0} \X params |-> Fresh], [x \in {0} \X (params \cup fields) |-> <<>>], prog, fields, S)
<1>1. Leads(Fresh, <<>>, S)
  BY DEF Leads, Fresh
<1> QED BY <1>1 DEF Tie, NamesTie, FieldsTie

\* After each statement of a function.
LEMMA FunctionTies ==
  ASSUME NEW prog, NEW params, NEW fields, NEW S, Function(prog, params, fields, S),
         ~PrefixDropped(prog), ~UnseenField(prog, params, fields), NEW n \in 0..Len(prog)
  PROVE  Tie(Envs(prog, params, fields)[n], Running(prog, params \cup fields)[n], prog, fields, S)
<1> DEFINE E == Envs(prog, params, fields)
           R == Running(prog, params \cup fields)
           Odd == {k \in Nat : k <= Len(prog) /\ ~Tie(E[k], R[k], prog, fields, S)}
<1>0. Len(prog) \in Nat /\ DOMAIN prog = 1..Len(prog) /\ params \cap fields = {}
  BY DEF Function, Nested
<1>1. EnvsOf(E, prog, params, fields) /\ RunningOf(R, prog, params \cup fields)
  BY <1>0, EnvsAre, RunningAre
<1>3. \A i \in 1..Len(prog) :
        prog[i].op \in {"let", "scope"} /\ prog[i].via # "ctor" =>
          InScope(prog, R[i - 1], prog[i].in, prog[i].recv, NoBase) # NoBase
  BY DEF Function, RouterAt
<1>4. \A i \in 1..Len(prog) :
        ~(/\ prog[i].op = "let" /\ prog[i].via = "none" /\ prog[i].recv \in fields
          /\ InScope(prog, E[i - 1], prog[i].in, prog[i].recv, NoRouter) = NoRouter)
  BY <1>0 DEF UnseenField
<1> HIDE DEF E, R
<1>2. \A k \in 1..Len(prog) : E[k] = After(prog, k, E[k - 1], fields) /\ R[k] = Ran(prog, k, R[k - 1])
  BY <1>1 DEF EnvsOf, RunningOf
<1>5. SUFFICES ASSUME Odd # {} PROVE FALSE
  <2>1. n \in Nat /\ n <= Len(prog)
    BY <1>0
  <2>2. Odd = {} => Tie(E[n], R[n], prog, fields, S)
    BY <2>1
  <2> QED BY <2>2 DEF E, R
<1>6. PICK m \in Odd : \A k \in Odd : m <= k
  BY <1>5, LeastNatural
<1>7. m # 0
  <2> DEFINE e == [x \in {0} \X params |-> Fresh]
             r == [x \in {0} \X (params \cup fields) |-> <<>>]
  <2>0. E[0] = e /\ R[0] = r
    BY <1>1 DEF EnvsOf, RunningOf
  <2>00. Tie(e, r, prog, fields, S)
    BY <1>0, HeadTies
  <2> HIDE DEF e, r
  <2>1. Tie(E[0], R[0], prog, fields, S)
    BY <2>0, <2>00
  <2> QED BY <1>6, <2>1
<1>8. m \in 1..Len(prog) /\ m - 1 \in Nat /\ m - 1 <= Len(prog) /\ m - 1 \notin Odd
  BY <1>0, <1>6, <1>7
<1>9. Tie(E[m - 1], R[m - 1], prog, fields, S)
  BY <1>8
<1>10. Tie(After(prog, m, E[m - 1], fields), Ran(prog, m, R[m - 1]), prog, fields, S)
  BY <1>3, <1>4, <1>8, <1>9, StatementTies
<1> QED BY <1>2, <1>6, <1>8, <1>10


\* A function is read throughout, unless a closure stands in what is bound to a name.
LEMMA AllWalked ==
  ASSUME NEW prog, Nested(prog), DOMAIN prog = 1..Len(prog), ~UnreadClosure(prog), NEW i \in 1..Len(prog)
  PROVE  Walked(prog, i)
<1> DEFINE N == Len(prog)
           Odd == {k \in Nat : k <= N /\ ~Walked(prog, k)}
<1>0. N \in Nat /\ \A k \in 1..N : prog[k].in \in 0..(k - 1)
  BY DEF Nested
<1>1. SUFFICES ASSUME Odd # {} PROVE FALSE
  BY <1>0
<1>2. PICK m \in Odd : \A k \in Odd : m <= k
  BY <1>1, LeastNatural
<1>3. m \in 1..N
  BY <1>0, <1>2, WalkedIs
<1>4. prog[m].in \in Nat /\ prog[m].in < m /\ prog[m].in <= N
  BY <1>0, <1>3
<1>5. Walked(prog, prog[m].in)
  BY <1>2, <1>4
<1>6. prog[m].in = 0 \/ prog[prog[m].in].op # "let"
  BY <1>3 DEF UnreadClosure
<1> QED BY <1>2, <1>3, <1>5, <1>6, WalkedIs DEF Open

\* The router that a registration is made on, where it is read.
LEMMA RegistrationLeads ==
  ASSUME NEW prog, NEW params, NEW fields, NEW S, Function(prog, params, fields, S),
         ~PrefixDropped(prog), ~UnseenField(prog, params, fields),
         NEW i \in 1..Len(prog), prog[i].op = "reg", Walked(prog, i)
  PROVE  LET router == Resolved(prog, Envs(prog, params, fields)[i], prog[i])
             base   == RouterAt(prog, params \cup fields, i)
         IN  (router = NoRouter /\ base = NoBase) \/ (base # NoBase /\ Leads(router, base \o prog[i].along.says, S))
<1> DEFINE st == prog[i]
           names == Envs(prog, params, fields)[i - 1]
           e == Envs(prog, params, fields)[i]
           at == Running(prog, params \cup fields)[i - 1]
           router == Resolved(prog, e, st)
           b == InScope(prog, e, st.in, st.recv, NoRouter)
           base == InScope(prog, at, st.in, st.recv, NoBase)
<1>0. Nested(prog) /\ "no router" \notin S /\ DOMAIN prog = 1..Len(prog)
  BY DEF Function
<1>00. Len(prog) \in Nat /\ st.in \in 0..(i - 1)
  BY <1>0 DEF Nested
<1>1. /\ Nested(prog) /\ "no router" \notin S /\ Len(prog) \in Nat /\ st.in \in 0..Len(prog) /\ i - 1 \in 0..Len(prog)
      /\ DOMAIN prog = 1..Len(prog)
  <2> HIDE DEF st
  <2>1. st.in \in 0..Len(prog) /\ i - 1 \in 0..Len(prog)
    BY <1>00
  <2> QED BY <1>0, <1>00, <2>1
<1>2. st.via \in {"none", "Group", "Route"} /\ st.along.says \in Seq(S) /\ st.along.kind = "path"
      /\ (st.via = "none" => st.along.says = <<>>)
  BY <1>1 DEF Function, PrefixDropped
<1>3. RouterAt(prog, params \cup fields, i) = base
  BY DEF RouterAt
<1>4. Tie(names, at, prog, fields, S)
  BY <1>1, FunctionTies
<1>5. e = After(prog, i, names, fields)
  <2>1. EnvsOf(Envs(prog, params, fields), prog, params, fields)
    BY <1>1, EnvsAre
  <2> QED BY <2>1 DEF EnvsOf
<1>6. e = Bound(prog, names, st, fields)
  BY <1>5 DEF After
<1>7. Open(prog, st.in)
  BY <1>0, WalkedIs
<1> HIDE DEF names, at
<1>8. Alike(b, base, S)
  <2>1. st.op = "reg"
    OBVIOUS
  <2> HIDE DEF e, st
  <2> QED BY <1>1, <1>2, <1>4, <1>6, <1>7, <2>1, ReceiversAlike
<1>9. router = IF b = NoRouter \/ st.via = "none" THEN b ELSE Derive(b, st.along.says)
  BY <1>2 DEF Resolved
<1> HIDE DEF router, b, base, st, e
<1>10. CASE b = NoRouter
  <2>1. base = NoBase
    BY <1>1, <1>8, <1>10, NoRouterLeadsNowhere DEF Alike
  <2> QED BY <1>3, <1>9, <1>10, <2>1 DEF router, e, st
<1>11. CASE b # NoRouter
  <2>1. Leads(b, base, S) /\ base # NoBase
    BY <1>1, <1>8, <1>11, NoRouterLeadsNowhere DEF Alike
  <2>2. Leads(router, base \o st.along.says, S)
    <3>1. CASE st.via = "none"
      <4>1. base \o <<>> = base
        BY <2>1, ConcatEmptySeq DEF Leads
      <4> QED BY <1>2, <1>9, <2>1, <3>1, <4>1
    <3>2. CASE st.via # "none"
      BY <1>2, <1>9, <1>11, <2>1, <3>2, DeriveLeads
    <3> QED BY <3>1, <3>2
  <2> QED BY <1>3, <2>1, <2>2 DEF router, e, st
<1> QED BY <1>10, <1>11

\* What is added of a router that leads somewhere.
LEMMA AddedIsServed ==
  ASSUME NEW S, NEW router, NEW at, Leads(router, at, S), NEW says \in Seq(S)
  PROVE  /\ Added(router, says).emitted => Added(router, says).path = at \o says
         /\ ~Added([router EXCEPT !.unknown = TRUE], <<>>).emitted
<1>1. router \in [prefix: Seq(S), unknown: BOOLEAN] /\ (~router.unknown => router.prefix = at)
  BY DEF Leads
<1> QED BY <1>1 DEF Added

\* golang/routes.go, "reported, never emitted": of every function of Go that compiles, however
\* long and however deep its groups, closures and blocks, an endpoint the index emits is the
\* one the function serves, what is no router has none, and a registration whose path cannot
\* be told is reported; but for the three ways ToldAsServed leaves aside.
THEOREM FunctionIsToldAsServed ==
  ASSUME NEW prog, NEW params, NEW fields, NEW S, Function(prog, params, fields, S)
  PROVE  ToldAsServed(prog, params, fields)
<1> DEFINE told == Routes(prog, params, fields)
           handed == params \cup fields
<1>1. SUFFICES ASSUME ~PrefixDropped(prog), ~UnseenField(prog, params, fields), NEW i \in DOMAIN told
               PROVE  /\ RouterAt(prog, handed, i) = NoBase => told[i] = {}
                      /\ \A t \in told[i] : t.emitted => t.path = ServedAt(prog, handed, i)
                      /\ (/\ ~UnreadClosure(prog) /\ RouterAt(prog, handed, i) # NoBase
                          /\ prog[i].verb = "read" /\ prog[i].path.kind # "other")
                           => told[i] # {}
  BY DEF ToldAsServed
<1> DEFINE st == prog[i]
           e == Envs(prog, params, fields)[i]
           router == Resolved(prog, e, st)
           base == RouterAt(prog, handed, i)
           where == base \o st.along.says
<1>2. /\ i \in 1..Len(prog) /\ st.op = "reg" /\ "no router" \notin S /\ Nested(prog) /\ DOMAIN prog = 1..Len(prog)
      /\ told[i] = IF Walked(prog, i) THEN ToldOf(prog, e, st) ELSE {}
  BY DEF Routes, Function
<1>3. st.path.says \in Seq(S) /\ st.path.kind \in {"path", "unreadable", "other"}
  BY <1>2 DEF Function
<1>4. ServedAt(prog, handed, i) = where \o st.path.says
  BY DEF ServedAt
<1>5. ~UnreadClosure(prog) => Walked(prog, i)
  BY <1>2, AllWalked
<1>6. CASE ~Walked(prog, i)
  BY <1>2, <1>5, <1>6
<1>7. CASE Walked(prog, i)
  <2>1. (router = NoRouter /\ base = NoBase) \/ (base # NoBase /\ Leads(router, where, S))
    BY <1>1, <1>2, <1>7, RegistrationLeads
  <2>2. told[i] = IF router = NoRouter \/ st.verb = "unreadable" \/ st.path.kind = "other" THEN {}
                  ELSE IF st.path.kind = "path" THEN {Added(router, st.path.says)}
                  ELSE {Added([router EXCEPT !.unknown = TRUE], <<>>)}
    BY <1>2, <1>7 DEF ToldOf
  <2> HIDE DEF told, handed, st, e, router, base, where
  <2>3. CASE router = NoRouter /\ base = NoBase
    BY <2>2, <2>3 DEF base, handed
  <2>4. CASE base # NoBase /\ Leads(router, where, S)
    <3>1. router # NoRouter
      BY <1>2, <2>4, NoRouterLeadsNowhere
    <3>2. \A t \in told[i] : t.emitted => t.path = where \o st.path.says
      BY <1>3, <2>2, <2>4, AddedIsServed
    <3>3. st.verb = "read" /\ st.path.kind # "other" => told[i] # {}
      BY <2>2, <3>1
    <3> QED BY <1>4, <2>4, <3>2, <3>3 DEF base, st
  <2> QED BY <2>1, <2>3, <2>4
<1> QED BY <1>6, <1>7

-----------------------------------------------------------------------------
(* RouteSources: the Go functions of MCRouteSources.                       *)

\* The segments of the paths of MCRouteSources.
Segment == {"path", "unreadable", "other"}

\* A statement of its functions.
Drafted(st, field) ==
  /\ st.op \in {"let", "scope", "block", "reg"} /\ st.via \in {"none", "ctor", "Group", "Route"}
  /\ st.along.kind \in {"path", "unreadable", "other"} /\ st.along.says \in Seq(Segment)
  /\ st.path.kind \in {"path", "unreadable", "other"} /\ st.path.says \in Seq(Segment)
  /\ st.via = "none" => st.along.kind = "path" /\ st.along.says = <<>>
  /\ st.op = "scope" => st.via \in {"Group", "Route"}
  /\ st.op = "reg" => st.via # "ctor"
  /\ st.op \in {"let", "scope"} => st.name # field /\ st.recv # "cache"

\* The paths it is put together from.
LEMMA PathsAre ==
  /\ Slash.kind = "path" /\ Slash.says = <<>> /\ <<>> \in Seq(Segment)
  /\ \A k \in Segment : Written(k).kind = k /\ Written(k).says \in Seq(Segment)
<1>1. ASSUME NEW k \in Segment PROVE Written(k).kind = k /\ Written(k).says \in Seq(Segment)
  <2>1. <<k>> \in Seq(Segment)
    OBVIOUS
  <2> QED BY <2>1 DEF Written
<1> QED BY <1>1 DEF Slash

\* So is every statement that opens them,
LEMMA OpenersAre ==
  ASSUME NEW in, NEW st \in Openers(in) PROVE Drafted(st, "s.r") /\ st.in = in
<1>1. \A a \in Alongs : a.kind \in {"path", "unreadable", "other"} /\ a.says \in Seq(Segment)
  BY PathsAre DEF Alongs, Segment
<1> USE <1>1, PathsAre DEF Drafted, Stmt
<1>2. CASE st = Stmt("let", in, "r", "none", Slash, "g", Slash, "read")
  BY <1>2
<1>3. CASE st = Stmt("let", in, "s.r", "none", Slash, "g", Slash, "read")
  BY <1>3
<1>4. CASE st = Stmt("let", in, "r", "ctor", Slash, "g", Slash, "read")
  BY <1>4
<1>5. CASE st = Stmt("block", in, "r", "none", Slash, "r", Slash, "read")
  BY <1>5
<1>6. CASE \E a \in Alongs, name \in {"r", "g"} : st = Stmt("let", in, "r", "Group", a, name, Slash, "read")
  <2>1. PICK a \in Alongs, name \in {"r", "g"} : st = Stmt("let", in, "r", "Group", a, name, Slash, "read")
    BY <1>6
  <2>2. a.kind \in {"path", "unreadable", "other"} /\ a.says \in Seq(Segment)
    BY <1>1
  <2> QED BY <2>1, <2>2
<1>7. CASE \E recv \in {"r", "g"}, via \in {"Route", "Group"}, a \in Alongs :
             st = Stmt("scope", in, recv, via, a, "r", Slash, "read")
  <2>1. PICK recv \in {"r", "g"}, via \in {"Route", "Group"}, a \in Alongs :
          st = Stmt("scope", in, recv, via, a, "r", Slash, "read")
    BY <1>7
  <2>2. a.kind \in {"path", "unreadable", "other"} /\ a.says \in Seq(Segment)
    BY <1>1
  <2> QED BY <2>1, <2>2
<1> QED BY <1>2, <1>3, <1>4, <1>5, <1>6, <1>7 DEF Openers

\* and every registration that ends them.
LEMMA RegistrationsAre ==
  ASSUME NEW in, NEW st \in Registrations(in) PROVE Drafted(st, "s.r") /\ st.in = in
<1>1. \A a \in Alongs : a.kind \in {"path", "unreadable", "other"} /\ a.says \in Seq(Segment)
  BY PathsAre DEF Alongs, Segment
<1>0. Written("path").kind = "path" /\ Written("path").says \in Seq(Segment)
  BY PathsAre DEF Segment
<1>6. \/ \E recv \in {"r", "g", "s.r"}, text \in Alongs : st = Stmt("reg", in, recv, "none", Slash, Unnamed, text, "read")
      \/ st = Stmt("reg", in, "cache", "none", Slash, Unnamed, Written("path"), "read")
      \/ st = Stmt("reg", in, "r", "none", Slash, Unnamed, Written("path"), "unreadable")
      \/ \E a \in Alongs : st = Stmt("reg", in, "r", "Group", a, Unnamed, Written("path"), "read")
  BY DEF Registrations
<1> USE <1>0, <1>1, PathsAre DEF Drafted, Stmt
<1>2. CASE \E recv \in {"r", "g", "s.r"}, text \in Alongs : st = Stmt("reg", in, recv, "none", Slash, Unnamed, text, "read")
  <2>1. PICK recv \in {"r", "g", "s.r"}, text \in Alongs : st = Stmt("reg", in, recv, "none", Slash, Unnamed, text, "read")
    BY <1>2
  <2>2. text.kind \in {"path", "unreadable", "other"} /\ text.says \in Seq(Segment)
    BY <1>1
  <2> QED BY <2>1, <2>2
<1>3. CASE st = Stmt("reg", in, "cache", "none", Slash, Unnamed, Written("path"), "read")
  BY <1>3
<1>4. CASE st = Stmt("reg", in, "r", "none", Slash, Unnamed, Written("path"), "unreadable")
  BY <1>4
<1>5. CASE \E a \in Alongs : st = Stmt("reg", in, "r", "Group", a, Unnamed, Written("path"), "read")
  <2>1. PICK a \in Alongs : st = Stmt("reg", in, "r", "Group", a, Unnamed, Written("path"), "read")
    BY <1>5
  <2>2. a.kind \in {"path", "unreadable", "other"} /\ a.says \in Seq(Segment)
    BY <1>1
  <2> QED BY <2>1, <2>2
<1> QED BY <1>2, <1>3, <1>4, <1>5, <1>6

\* Two statements and a registration, one by one.
LEMMA ThreeStatements ==
  ASSUME NEW x, NEW y, NEW z
  PROVE  LET p == Append(<<x, y>>, z) IN Len(p) = 3 /\ DOMAIN p = 1..3 /\ p[1] = x /\ p[2] = y /\ p[3] = z
OBVIOUS

\* The programs of MCRouteSources are functions that compile.
LEMMA ProgramsAreFunctions ==
  ASSUME NEW prog \in Programs PROVE Function(prog, Handed \ {"s.r"}, {"s.r"}, Segment)
<1>1. PICK f \in Openings, z \in UNION {Registrations(in) : in \in 0..2} : prog = Append(f, z) /\ Compiles(prog, Handed)
  BY DEF Programs
<1>2. PICK x \in Openers(0), y \in UNION {Openers(in) : in \in {0, 1}} : f = <<x, y>>
  BY DEF Openings
<1>3. Len(prog) = 3 /\ DOMAIN prog = 1..3 /\ prog[1] = x /\ prog[2] = y /\ prog[3] = z
  BY <1>1, <1>2, ThreeStatements
<1>4. Drafted(x, "s.r") /\ x.in = 0 /\ Drafted(y, "s.r") /\ y.in \in 0..1 /\ Drafted(z, "s.r") /\ z.in \in 0..2
  BY OpenersAre, RegistrationsAre
<1>5. \A i \in 1..3 : Drafted(prog[i], "s.r") /\ prog[i].in \in 0..(i - 1)
  <2>1. \A i \in 1..3 : i = 1 \/ i = 2 \/ i = 3
    OBVIOUS
  <2> QED BY <1>3, <1>4, <2>1
<1>6. (Handed \ {"s.r"}) \cup {"s.r"} = Handed /\ (Handed \ {"s.r"}) \cap {"s.r"} = {} /\ "no router" \notin Segment
  BY DEF Handed, Segment
<1>7. \A i \in 1..3 : prog[i].op \in {"let", "scope"} /\ prog[i].via # "ctor" => RouterAt(prog, Handed, i) # NoBase
  BY <1>1, <1>3, <1>5 DEF Compiles, Drafted
<1>8. Nested(prog)
  BY <1>3, <1>5 DEF Nested
<1>9. \A i \in 1..3 : Drafted(prog[i], "s.r")
  BY <1>5
<1> QED BY <1>3, <1>6, <1>7, <1>8, <1>9 DEF Function, Drafted

\* So TLC's programs are told as they are served.
LEMMA GoRoutesAre == GoRoutesAreServed
BY ProgramsAreFunctions, FunctionIsToldAsServed DEF GoRoutesAreServed

-----------------------------------------------------------------------------
(* RouteSources: routers that are mounted by others.                       *)

\* What walk makes of the owners, by how many mounts lead to them: n of these levels.
VisitLevelsTo(n, f, graph) ==
  f = [i \in 0..n |-> IF i = 0 THEN Starts(graph) ELSE UNION {Below(graph, v) : v \in f[i - 1]}]

\* There are such levels.
LEMMA VisitLevelsExist ==
  ASSUME NEW n \in Nat, NEW graph PROVE \E f : VisitLevelsTo(n, f, graph)
<1> DEFINE To(k, f) == VisitLevelsTo(k, f, graph)
           start == Starts(graph)
           next(x, k) == UNION {Below(graph, v) : v \in x}
           Beyond == {k \in Nat : ~ \E f : To(k, f)}
<1>0. ASSUME NEW k, NEW f PROVE To(k, f) <=> f = [j \in 0..k |-> IF j = 0 THEN start ELSE next(f[j - 1], j)]
  BY DEF VisitLevelsTo
<1> HIDE DEF To, start, next
<1>1. SUFFICES ASSUME Beyond # {} PROVE FALSE
  BY DEF To
<1>2. PICK m \in Beyond : \A k \in Beyond : m <= k
  BY <1>1, LeastNatural
<1>3. CASE m = 0
  <2> DEFINE f == [k \in 0..0 |-> start]
  <2>1. f = [k \in 0..0 |-> IF k = 0 THEN start ELSE next(f[k - 1], k)]
    OBVIOUS
  <2>2. To(0, f)
    BY <1>0, <2>1
  <2> QED BY <1>2, <1>3, <2>2
<1>4. CASE m # 0
  <2>1. m - 1 \in Nat /\ m - 1 \notin Beyond
    BY <1>2, <1>4
  <2>2. PICK f : To(m - 1, f)
    BY <2>1
  <2> DEFINE g == [k \in 0..m |-> IF k = m THEN next(f[m - 1], m) ELSE f[k]]
  <2>3. \A k \in 0..(m - 1) : g[k] = f[k]
    BY <1>2
  <2>4. \A k \in 0..(m - 1) : f[k] = IF k = 0 THEN start ELSE next(f[k - 1], k)
    <3>1. f = [j \in 0..(m - 1) |-> IF j = 0 THEN start ELSE next(f[j - 1], j)]
      BY <1>0, <2>2
    <3> QED BY <3>1
  <2>5. ASSUME NEW k \in 0..m PROVE g[k] = IF k = 0 THEN start ELSE next(g[k - 1], k)
    <3>1. CASE k = m
      <4>1. g[m] = next(f[m - 1], m) /\ g[m - 1] = f[m - 1]
        BY <1>2, <1>4, <2>1, <2>3
      <4> QED BY <1>4, <3>1, <4>1
    <3>2. CASE k # m
      <4>1. k \in 0..(m - 1) /\ (k # 0 => k - 1 \in 0..(m - 1))
        BY <1>2, <3>2
      <4> HIDE DEF g
      <4> QED BY <2>3, <2>4, <4>1
    <3> QED BY <3>1, <3>2
  <2>6. g = [k \in 0..m |-> IF k = 0 THEN start ELSE next(g[k - 1], k)]
    <3>1. g = [k \in 0..m |-> g[k]]
      OBVIOUS
    <3> HIDE DEF g
    <3> QED BY <2>5, <3>1
  <2>7. To(m, g)
    BY <1>0, <2>6
  <2> QED BY <1>2, <2>7
<1> QED BY <1>3, <1>4

\* All of them.
VisitLevelsOf(f, graph) ==
  /\ f[0] = Starts(graph)
  /\ \A n \in 1..Len(graph.owners) : f[n] = UNION {Below(graph, v) : v \in f[n - 1]}
  /\ Visits(graph) = UNION {f[n] : n \in 0..Len(graph.owners)}

\* What walk makes of the owners are those of the levels.
LEMMA VisitLevelsAre ==
  ASSUME NEW graph, Len(graph.owners) \in Nat PROVE \E f : VisitLevelsOf(f, graph)
<1> DEFINE N == Len(graph.owners)
           To(f) == VisitLevelsTo(N, f, graph)
           g == CHOOSE f : To(f)
<1>1. Visits(graph) = UNION {g[n] : n \in 0..N}
  BY DEF Visits, VisitLevelsTo
<1>2. To(g)
  <2>1. \E f : To(f)
    BY VisitLevelsExist
  <2> HIDE DEF To
  <2> QED BY <2>1
<1> HIDE DEF g
<1>3. \A k \in 0..N : g[k] = IF k = 0 THEN Starts(graph) ELSE UNION {Below(graph, v) : v \in g[k - 1]}
  BY <1>2 DEF VisitLevelsTo
<1>4. g[0] = Starts(graph)
  <2>1. 0 \in 0..N
    OBVIOUS
  <2> QED BY <1>3, <2>1
<1>5. \A k \in 1..N : g[k] = UNION {Below(graph, v) : v \in g[k - 1]}
  <2> DEFINE under(k) == UNION {Below(graph, v) : v \in g[k - 1]}
  <2>1. \A k \in 0..N : g[k] = IF k = 0 THEN Starts(graph) ELSE under(k)
    BY <1>3
  <2> HIDE DEF under
  <2>2. \A k \in 1..N : g[k] = under(k)
    BY <2>1
  <2> QED BY <2>2 DEF under
<1>6. VisitLevelsOf(g, graph)
  BY <1>1, <1>4, <1>5, Zenon DEF VisitLevelsOf
<1> QED BY <1>6

\* What a project serves, by how many mounts lead to them: n of these levels.
ChainLevelsTo(n, f, graph) ==
  f = [i \in 0..n |-> IF i = 0 THEN Heads(graph) ELSE UNION {Down(graph, v) : v \in f[i - 1]}]

\* There are such levels.
LEMMA ChainLevelsExist ==
  ASSUME NEW n \in Nat, NEW graph PROVE \E f : ChainLevelsTo(n, f, graph)
<1> DEFINE To(k, f) == ChainLevelsTo(k, f, graph)
           start == Heads(graph)
           next(x, k) == UNION {Down(graph, v) : v \in x}
           Beyond == {k \in Nat : ~ \E f : To(k, f)}
<1>0. ASSUME NEW k, NEW f PROVE To(k, f) <=> f = [j \in 0..k |-> IF j = 0 THEN start ELSE next(f[j - 1], j)]
  BY DEF ChainLevelsTo
<1> HIDE DEF To, start, next
<1>1. SUFFICES ASSUME Beyond # {} PROVE FALSE
  BY DEF To
<1>2. PICK m \in Beyond : \A k \in Beyond : m <= k
  BY <1>1, LeastNatural
<1>3. CASE m = 0
  <2> DEFINE f == [k \in 0..0 |-> start]
  <2>1. f = [k \in 0..0 |-> IF k = 0 THEN start ELSE next(f[k - 1], k)]
    OBVIOUS
  <2>2. To(0, f)
    BY <1>0, <2>1
  <2> QED BY <1>2, <1>3, <2>2
<1>4. CASE m # 0
  <2>1. m - 1 \in Nat /\ m - 1 \notin Beyond
    BY <1>2, <1>4
  <2>2. PICK f : To(m - 1, f)
    BY <2>1
  <2> DEFINE g == [k \in 0..m |-> IF k = m THEN next(f[m - 1], m) ELSE f[k]]
  <2>3. \A k \in 0..(m - 1) : g[k] = f[k]
    BY <1>2
  <2>4. \A k \in 0..(m - 1) : f[k] = IF k = 0 THEN start ELSE next(f[k - 1], k)
    <3>1. f = [j \in 0..(m - 1) |-> IF j = 0 THEN start ELSE next(f[j - 1], j)]
      BY <1>0, <2>2
    <3> QED BY <3>1
  <2>5. ASSUME NEW k \in 0..m PROVE g[k] = IF k = 0 THEN start ELSE next(g[k - 1], k)
    <3>1. CASE k = m
      <4>1. g[m] = next(f[m - 1], m) /\ g[m - 1] = f[m - 1]
        BY <1>2, <1>4, <2>1, <2>3
      <4> QED BY <1>4, <3>1, <4>1
    <3>2. CASE k # m
      <4>1. k \in 0..(m - 1) /\ (k # 0 => k - 1 \in 0..(m - 1))
        BY <1>2, <3>2
      <4> HIDE DEF g
      <4> QED BY <2>3, <2>4, <4>1
    <3> QED BY <3>1, <3>2
  <2>6. g = [k \in 0..m |-> IF k = 0 THEN start ELSE next(g[k - 1], k)]
    <3>1. g = [k \in 0..m |-> g[k]]
      OBVIOUS
    <3> HIDE DEF g
    <3> QED BY <2>5, <3>1
  <2>7. To(m, g)
    BY <1>0, <2>6
  <2> QED BY <1>2, <2>7
<1> QED BY <1>3, <1>4

\* All of them.
ChainLevelsOf(f, graph) ==
  /\ f[0] = Heads(graph)
  /\ \A n \in 1..Len(graph.owners) : f[n] = UNION {Down(graph, v) : v \in f[n - 1]}
  /\ Chains(graph) = UNION {f[n] : n \in 0..Len(graph.owners)}

\* What a project serves are those of the levels.
LEMMA ChainLevelsAre ==
  ASSUME NEW graph, Len(graph.owners) \in Nat PROVE \E f : ChainLevelsOf(f, graph)
<1> DEFINE N == Len(graph.owners)
           To(f) == ChainLevelsTo(N, f, graph)
           g == CHOOSE f : To(f)
<1>1. Chains(graph) = UNION {g[n] : n \in 0..N}
  BY DEF Chains, ChainLevelsTo
<1>2. To(g)
  <2>1. \E f : To(f)
    BY ChainLevelsExist
  <2> HIDE DEF To
  <2> QED BY <2>1
<1> HIDE DEF g
<1>3. \A k \in 0..N : g[k] = IF k = 0 THEN Heads(graph) ELSE UNION {Down(graph, v) : v \in g[k - 1]}
  BY <1>2 DEF ChainLevelsTo
<1>4. g[0] = Heads(graph)
  <2>1. 0 \in 0..N
    OBVIOUS
  <2> QED BY <1>3, <2>1
<1>5. \A k \in 1..N : g[k] = UNION {Down(graph, v) : v \in g[k - 1]}
  <2> DEFINE under(k) == UNION {Down(graph, v) : v \in g[k - 1]}
  <2>1. \A k \in 0..N : g[k] = IF k = 0 THEN Heads(graph) ELSE under(k)
    BY <1>3
  <2> HIDE DEF under
  <2>2. \A k \in 1..N : g[k] = under(k)
    BY <2>1
  <2> QED BY <2>2 DEF under
<1>6. ChainLevelsOf(g, graph)
  BY <1>1, <1>4, <1>5, Zenon DEF ChainLevelsOf
<1> QED BY <1>6

\* What a name stands for is one of the paths it is bound to, if it is bound at all.
Meant(consts, p) ==
  LET known == {c.value : c \in {d \in consts : p.kind = "ref" /\ d.name = p.ref}}
  IN  known # {} => p.says \in known

\* A project: its routers are told apart by their names.
Project(graph, S) ==
  /\ Len(graph.owners) \in Nat /\ DOMAIN graph.owners = 1..Len(graph.owners) /\ IsFiniteSet(graph.consts)
  /\ \A o \in OwnersOf(graph) :
       /\ Find(graph.owners, o.ref) = o /\ o.ref # NoOwner.ref
       /\ o.prefix.says \in Seq(S) /\ Meant(graph.consts, o.prefix)
  /\ \A m \in graph.mounts : Meant(graph.consts, m.prefix)

\* A prefix that is filled in is what it stands for.
LEMMA FilledIsMeant ==
  ASSUME NEW consts, IsFiniteSet(consts), NEW p, Meant(consts, p), ~Filled(consts, p).unknown
  PROVE  Filled(consts, p).says = p.says
<1> DEFINE of == {d \in consts : p.kind = "ref" /\ d.name = p.ref}
           known == {c.value : c \in of}
           written == [says |-> p.says, unknown |-> FALSE]
           bound == [says |-> CHOOSE v \in known : TRUE, unknown |-> FALSE]
           unread == [says |-> <<"<unread>">>, unknown |-> TRUE]
<1>1. Filled(consts, p) = IF p.kind = "path" THEN written ELSE IF Cardinality(known) = 1 THEN bound ELSE unread
  BY DEF Filled
<1>2. written.says = p.says /\ bound.says = (CHOOSE v \in known : TRUE) /\ unread.unknown = TRUE
  OBVIOUS
<1>3. known # {} => p.says \in known
  BY DEF Meant
<1>4. IsFiniteSet(known)
  <2>1. IsFiniteSet(of)
    <3>1. of \in SUBSET consts
      OBVIOUS
    <3> HIDE DEF of
    <3> QED BY <3>1, FS_Subset
  <2> DEFINE f == [c \in of |-> c.value]
  <2>2. f \in Surjection(of, known)
    <3> HIDE DEF of
    <3> QED BY DEF Surjection
  <2> HIDE DEF of, known, f
  <2> QED BY <2>1, <2>2, FS_Surjection
<1> HIDE DEF of, known, written, bound, unread
<1>5. Cardinality(known) = 1 => (CHOOSE v \in known : TRUE) = p.says
  <2>1. SUFFICES ASSUME Cardinality(known) = 1 PROVE (CHOOSE v \in known : TRUE) = p.says
    OBVIOUS
  <2>2. PICK x : known = {x}
    BY <1>4, <2>1, FS_Singleton
  <2>3. p.says = x /\ (CHOOSE v \in known : TRUE) \in known
    BY <1>3, <2>2
  <2> QED BY <2>2, <2>3
<1> QED BY <1>1, <1>2, <1>5

\* An owner is found among those there are.
LEMMA FoundIsOwner ==
  ASSUME NEW graph, Len(graph.owners) \in Nat, DOMAIN graph.owners = 1..Len(graph.owners), NEW ref
  PROVE  Find(graph.owners, ref) \in OwnersOf(graph) \cup {NoOwner}
<1> DEFINE owners == graph.owners
           first(ks) == IF ks = {} THEN NoOwner ELSE owners[CHOOSE k \in ks : \A j \in ks : k <= j]
<1>1. ASSUME NEW ks \in SUBSET DOMAIN owners PROVE first(ks) \in OwnersOf(graph) \cup {NoOwner}
  <2>1. CASE ks = {}
    BY <2>1
  <2>2. CASE ks # {}
    <3>1. ks \in SUBSET Nat
      BY <1>1
    <3>2. \E k \in ks : \A j \in ks : k <= j
      BY <2>2, <3>1, LeastNatural
    <3>3. (CHOOSE k \in ks : \A j \in ks : k <= j) \in DOMAIN owners
      BY <3>2
    <3> QED BY <2>2, <3>3 DEF OwnersOf
  <2> QED BY <2>1, <2>2
<1> DEFINE here == {k \in DOMAIN owners : owners[k].ref.file = ref.file}
           named == {k \in here : owners[k].ref.name = ref.name}
           marked == {k \in here : owners[k].exported}
           sub == {k \in here : ~owners[k].root}
<1>2. Find(owners, ref) = IF ref.name # Unnamed THEN first(named)
                          ELSE IF marked # {} THEN first(marked)
                          ELSE IF Cardinality(sub) = 1 THEN first(sub) ELSE NoOwner
  BY DEF Find
<1>3. named \in SUBSET DOMAIN owners /\ marked \in SUBSET DOMAIN owners /\ sub \in SUBSET DOMAIN owners
  OBVIOUS
<1> HIDE DEF first, named, marked, sub, owners
<1>4. first(named) \in OwnersOf(graph) \cup {NoOwner} /\ first(marked) \in OwnersOf(graph) \cup {NoOwner}
      /\ first(sub) \in OwnersOf(graph) \cup {NoOwner}
  BY <1>1, <1>3
<1> QED BY <1>2, <1>4 DEF owners

\* A visit w is below the visit v along the mount m.
Along(graph, m, v, w) ==
  LET o == Find(graph.owners, m.child)
      p == Filled(graph.consts, m.prefix)
      own == Filled(graph.consts, o.prefix)
  IN  /\ m.parent = v.owner.ref /\ o \in OwnersOf(graph) /\ o.ref \notin v.seen \cup {NoOwner.ref}
      /\ w.owner = o /\ w.seen = v.seen \cup {o.ref}
      /\ w.base = v.base \o p.says \o (IF m.override THEN <<>> ELSE own.says)
      /\ w.unknown = (v.unknown \/ p.unknown \/ own.unknown)

\* So is every visit below another.
LEMMA BelowIs ==
  ASSUME NEW graph, NEW S, Project(graph, S), NEW v, NEW w \in Below(graph, v)
  PROVE  \E m \in graph.mounts : Along(graph, m, v, w)
<1>1. PICK m \in graph.mounts :
        /\ m.parent = v.owner.ref /\ Find(graph.owners, m.child).ref \notin v.seen \cup {NoOwner.ref}
        /\ w = LET p == Filled(graph.consts, m.prefix) IN
               Visit(graph, Find(graph.owners, m.child), [says |-> v.base \o p.says, unknown |-> v.unknown \/ p.unknown],
                     m.override, v.seen)
  BY DEF Below
<1> DEFINE o == Find(graph.owners, m.child)
           p == Filled(graph.consts, m.prefix)
           own == Filled(graph.consts, o.prefix)
           above == [says |-> v.base \o p.says, unknown |-> v.unknown \/ p.unknown]
<1>2. above.says = v.base \o p.says /\ above.unknown = (v.unknown \/ p.unknown)
  OBVIOUS
<1>3. w = Visit(graph, o, above, m.override, v.seen)
  BY <1>1
<1> HIDE DEF above
<1>4. /\ w.owner = o /\ w.seen = v.seen \cup {o.ref}
      /\ w.base = above.says \o (IF m.override THEN <<>> ELSE own.says)
      /\ w.unknown = (above.unknown \/ own.unknown)
  BY <1>3 DEF Visit
<1>5. o \in OwnersOf(graph)
  BY <1>1, FoundIsOwner DEF Project
<1>6. m.parent = v.owner.ref /\ o.ref \notin v.seen \cup {NoOwner.ref}
  BY <1>1
<1> HIDE DEF o, p, own
<1>7. w.unknown = (v.unknown \/ p.unknown \/ own.unknown)
  BY <1>2, <1>4
<1>8. w.base = v.base \o p.says \o (IF m.override THEN <<>> ELSE own.says)
  BY <1>2, <1>4
<1> QED BY <1>4, <1>5, <1>6, <1>7, <1>8 DEF Along, o, p, own

\* Where walk begins: at a root, or at an owner nobody mounts, of which nothing is said.
LEMMA StartsAre ==
  ASSUME NEW graph, NEW S, Project(graph, S), NEW v \in Starts(graph)
  PROVE  /\ v.owner \in OwnersOf(graph) /\ v.seen = {v.owner.ref}
         /\ ~v.unknown => v.owner.root /\ v.base = v.owner.prefix.says
<1> DEFINE here == [says |-> <<>>, unknown |-> FALSE]
           nowhere == [says |-> <<"<unmounted>">>, unknown |-> TRUE]
<1>1. here.says = <<>> /\ here.unknown = FALSE /\ nowhere.unknown = TRUE
  OBVIOUS
<1>2. PICK o \in OwnersOf(graph) : (o.root /\ v = Visit(graph, o, here, FALSE, {})) \/ v = Visit(graph, o, nowhere, FALSE, {})
  BY DEF Starts
<1> HIDE DEF here, nowhere
<1> DEFINE own == Filled(graph.consts, o.prefix)
<1>3. CASE o.root /\ v = Visit(graph, o, here, FALSE, {})
  <2>1. v.owner = o /\ v.seen = {} \cup {o.ref} /\ v.base = here.says \o own.says /\ v.unknown = (here.unknown \/ own.unknown)
    BY <1>3 DEF Visit
  <2>2. ~own.unknown => own.says = o.prefix.says
    BY FilledIsMeant DEF Project
  <2>3. o.prefix.says \in Seq(S)
    BY DEF Project
  <2>4. <<>> \o o.prefix.says = o.prefix.says
    BY <2>3, ConcatEmptySeq
  <2> HIDE DEF own
  <2> QED BY <1>1, <1>3, <2>1, <2>2, <2>4
<1>4. CASE v = Visit(graph, o, nowhere, FALSE, {})
  <2>1. v.owner = o /\ v.seen = {} \cup {o.ref} /\ v.unknown = (nowhere.unknown \/ own.unknown)
    BY <1>4 DEF Visit
  <2> HIDE DEF own
  <2> QED BY <1>1, <2>1
<1> QED BY <1>2, <1>3, <1>4

\* A visit as a chain of mounts.
AsChain(v) == [owner |-> v.owner, seen |-> v.seen, base |-> v.base]

\* Where every prefix above a visit is known, the project serves what it leads to: at the head
\* of a chain,
LEMMA StartsAreServed ==
  ASSUME NEW graph, NEW S, Project(graph, S), NEW v \in Starts(graph), ~v.unknown
  PROVE  AsChain(v) \in Heads(graph)
<1>1. v.owner \in OwnersOf(graph) /\ v.seen = {v.owner.ref} /\ v.owner.root /\ v.base = v.owner.prefix.says
  BY StartsAre
<1>2. AsChain(v) = [owner |-> v.owner, seen |-> {v.owner.ref}, base |-> v.owner.prefix.says]
  BY <1>1 DEF AsChain
<1> QED BY <1>1, <1>2 DEF Heads

\* and from mount to mount.
LEMMA BelowIsServed ==
  ASSUME NEW graph, NEW S, Project(graph, S), NEW v, NEW w \in Below(graph, v), ~w.unknown
  PROVE  ~v.unknown /\ AsChain(w) \in Down(graph, AsChain(v))
<1>1. PICK m \in graph.mounts : Along(graph, m, v, w)
  BY BelowIs
<1> DEFINE o == Find(graph.owners, m.child)
           p == Filled(graph.consts, m.prefix)
           own == Filled(graph.consts, o.prefix)
           c == AsChain(v)
<1>2. ~v.unknown /\ ~p.unknown /\ ~own.unknown /\ o \in OwnersOf(graph)
  BY <1>1 DEF Along
<1>3. p.says = m.prefix.says
  BY <1>2, FilledIsMeant DEF Project
<1>4. own.says = o.prefix.says
  BY <1>2, FilledIsMeant DEF Project
<1>5. /\ m.parent = v.owner.ref /\ o.ref \notin v.seen \cup {NoOwner.ref}
      /\ w.owner = o /\ w.seen = v.seen \cup {o.ref}
      /\ w.base = v.base \o p.says \o (IF m.override THEN <<>> ELSE own.says)
  BY <1>1 DEF Along
<1>6. c.owner = v.owner /\ c.seen = v.seen /\ c.base = v.base
  BY DEF AsChain
<1> HIDE DEF c, p, own
<1>7. AsChain(w) = [owner |-> o, seen |-> c.seen \cup {o.ref},
                    base |-> c.base \o m.prefix.says \o (IF m.override THEN <<>> ELSE o.prefix.says)]
  BY <1>3, <1>4, <1>5, <1>6 DEF AsChain
<1>8. m.parent = c.owner.ref /\ o.ref \notin c.seen \cup {NoOwner.ref}
  BY <1>5, <1>6
<1>9. AsChain(w) \in Down(graph, c)
  BY <1>7, <1>8 DEF Down
<1> QED BY <1>2, <1>9 DEF c

\* So at every level,
LEMMA VisitsAreServed ==
  ASSUME NEW graph, NEW S, Project(graph, S), NEW v \in Visits(graph), ~v.unknown
  PROVE  AsChain(v) \in Chains(graph)
<1> DEFINE N == Len(graph.owners)
<1>0. N \in Nat
  BY DEF Project
<1>1. PICK V : VisitLevelsOf(V, graph)
  BY <1>0, VisitLevelsAre
<1>2. PICK C : ChainLevelsOf(C, graph)
  BY <1>0, ChainLevelsAre
<1> DEFINE Served0(n) == \A w \in V[n] : ~w.unknown => AsChain(w) \in C[n]
           Odd == {n \in Nat : n <= N /\ ~Served0(n)}
<1>3. Odd = {}
  <2>1. SUFFICES ASSUME Odd # {} PROVE FALSE
    OBVIOUS
  <2>2. PICK n \in Odd : \A k \in Odd : n <= k
    BY <2>1, LeastNatural
  <2>3. n # 0
    <3>1. V[0] = Starts(graph) /\ C[0] = Heads(graph)
      BY <1>1, <1>2 DEF VisitLevelsOf, ChainLevelsOf
    <3>2. Served0(0)
      BY <3>1, StartsAreServed
    <3> QED BY <2>2, <3>2
  <2>4. n \in 1..N /\ n - 1 \in Nat /\ n - 1 <= N
    BY <1>0, <2>2, <2>3
  <2>5. Served0(n - 1)
    BY <2>2, <2>4
  <2>6. V[n] = UNION {Below(graph, w) : w \in V[n - 1]} /\ C[n] = UNION {Down(graph, c) : c \in C[n - 1]}
    BY <1>1, <1>2, <2>4 DEF VisitLevelsOf, ChainLevelsOf
  <2>7. ASSUME NEW w \in V[n], ~w.unknown PROVE AsChain(w) \in C[n]
    <3>1. PICK u \in V[n - 1] : w \in Below(graph, u)
      BY <2>6
    <3>2. ~u.unknown /\ AsChain(w) \in Down(graph, AsChain(u))
      BY <2>7, <3>1, BelowIsServed
    <3>3. AsChain(u) \in C[n - 1]
      BY <2>5, <3>1, <3>2
    <3> QED BY <2>6, <3>2, <3>3
  <2> QED BY <2>2, <2>7
<1>4. PICK n \in 0..N : v \in V[n]
  BY <1>1 DEF VisitLevelsOf
<1>5. n \in Nat /\ n <= N
  BY <1>0
<1>6. AsChain(v) \in C[n]
  BY <1>3, <1>4, <1>5
<1>7. Chains(graph) = UNION {C[k] : k \in 0..N}
  BY <1>2 DEF ChainLevelsOf
<1> QED BY <1>6, <1>7

\* and an endpoint that is put together from mounts is one the project serves.
LEMMA ComposedIsServed ==
  ASSUME NEW graph, NEW S, Project(graph, S), NEW t \in Composed(graph), t.emitted
  PROVE  <<t.of, t.path>> \in Served(graph)
<1>0. PICK v \in Visits(graph) : \E d \in v.owner.decls :
        t = [of |-> v.owner.ref, decl |-> d, path |-> v.base \o d.says, emitted |-> ~v.unknown /\ d.kind = "path"]
  BY DEF Composed
<1>1. PICK d \in v.owner.decls :
        t = [of |-> v.owner.ref, decl |-> d, path |-> v.base \o d.says, emitted |-> ~v.unknown /\ d.kind = "path"]
  BY <1>0
<1>2. t.of = v.owner.ref /\ t.path = v.base \o d.says /\ ~v.unknown
  BY <1>1
<1>3. AsChain(v) \in Chains(graph)
  BY <1>2, VisitsAreServed
<1> DEFINE c == AsChain(v)
<1>4. c.owner = v.owner /\ c.base = v.base
  BY DEF AsChain
<1> HIDE DEF c
<1>5. <<c.owner.ref, c.base \o d.says>> \in Served(graph)
  <2> DEFINE of(x) == {<<x.owner.ref, x.base \o e.says>> : e \in x.owner.decls}
  <2>1. d \in c.owner.decls
    BY <1>4
  <2>2. <<c.owner.ref, c.base \o d.says>> \in of(c)
    BY <2>1
  <2>3. Served(graph) = UNION {of(x) : x \in Chains(graph)}
    BY DEF Served
  <2>4. c \in Chains(graph)
    BY <1>3 DEF c
  <2> HIDE DEF of
  <2> QED BY <2>2, <2>3, <2>4
<1> QED BY <1>2, <1>4, <1>5

\* The routers of a project, and those that walk comes to.
Refs(graph)    == {o.ref : o \in OwnersOf(graph)}
Reached(graph) == {v.owner.ref : v \in Visits(graph)}

\* There are no more names than owners.
LEMMA RefsAreFew ==
  ASSUME NEW graph, NEW S, Project(graph, S)
  PROVE  IsFiniteSet(Refs(graph)) /\ Cardinality(Refs(graph)) <= Len(graph.owners)
<1> DEFINE N == Len(graph.owners)
           f == [k \in 1..N |-> graph.owners[k].ref]
<1>1. N \in Nat /\ DOMAIN graph.owners = 1..N
  BY DEF Project
<1>2. Refs(graph) = {graph.owners[k].ref : k \in 1..N}
  BY <1>1 DEF Refs, OwnersOf
<1>3. f \in Surjection(1..N, Refs(graph))
  BY <1>2 DEF Surjection
<1>4. IsFiniteSet(1..N) /\ Cardinality(1..N) = N
  <2>1. Cardinality(1..N) = IF 1 > N THEN 0 ELSE N - 1 + 1
    BY <1>1, FS_Interval
  <2> HIDE DEF N
  <2>2. IsFiniteSet(1..N)
    BY <1>1, FS_Interval
  <2> QED BY <1>1, <2>1, <2>2
<1> HIDE DEF N, f
<1>5. IsFiniteSet(Refs(graph)) /\ Cardinality(Refs(graph)) <= Cardinality(1..N)
  BY <1>3, <1>4, FS_Surjection
<1> QED BY <1>4, <1>5 DEF N

\* A visit that n mounts lead to has seen n + 1 owners, and each of them is come to.
Known(graph, v, n) ==
  /\ v.owner \in OwnersOf(graph) /\ v.owner.ref \in v.seen
  /\ v.seen \subseteq Reached(graph) /\ IsFiniteSet(v.seen) /\ Cardinality(v.seen) = n + 1

\* So it is at every level.
LEMMA VisitsAreKnown ==
  ASSUME NEW graph, NEW S, Project(graph, S), NEW V, VisitLevelsOf(V, graph),
         NEW n \in 0..Len(graph.owners), NEW v \in V[n]
  PROVE  Known(graph, v, n)
<1> DEFINE N == Len(graph.owners)
           All(k) == \A w \in V[k] : Known(graph, w, k)
           Odd == {k \in Nat : k <= N /\ ~All(k)}
<1>0. N \in Nat
  BY DEF Project
<1>1. \A k \in 0..N : \A w \in V[k] : w \in Visits(graph)
  BY DEF VisitLevelsOf
<1>2. Odd = {}
  <2>1. SUFFICES ASSUME Odd # {} PROVE FALSE
    OBVIOUS
  <2>2. PICK k \in Odd : \A j \in Odd : k <= j
    BY <2>1, LeastNatural
  <2>3. k \in 0..N
    BY <1>0, <2>2
  <2>4. ASSUME k = 0, NEW w \in V[k] PROVE Known(graph, w, k)
    <3>1. w \in Starts(graph)
      BY <2>4 DEF VisitLevelsOf
    <3>2. w.owner \in OwnersOf(graph) /\ w.seen = {w.owner.ref}
      BY <3>1, StartsAre
    <3>3. w.owner.ref \in Reached(graph)
      BY <1>1, <2>3 DEF Reached
    <3>4. IsFiniteSet({w.owner.ref}) /\ Cardinality({w.owner.ref}) = 1
      BY FS_Singleton
    <3> QED BY <2>4, <3>2, <3>3, <3>4 DEF Known
  <2>5. ASSUME k # 0, NEW w \in V[k] PROVE Known(graph, w, k)
    <3>1. k \in 1..N /\ k - 1 \in Nat /\ k - 1 <= N /\ k - 1 \notin Odd
      BY <1>0, <2>2, <2>3, <2>5
    <3>2. All(k - 1)
      BY <3>1
    <3>3. V[k] = UNION {Below(graph, u) : u \in V[k - 1]}
      BY <3>1 DEF VisitLevelsOf
    <3>4. PICK u \in V[k - 1] : w \in Below(graph, u)
      BY <3>3
    <3>5. Known(graph, u, k - 1)
      BY <3>2
    <3>6. PICK m \in graph.mounts : Along(graph, m, u, w)
      BY <3>4, BelowIs
    <3>7. w.owner \in OwnersOf(graph) /\ w.seen = u.seen \cup {w.owner.ref} /\ w.owner.ref \notin u.seen
      BY <3>6 DEF Along
    <3>8. w.owner.ref \in Reached(graph)
      BY <1>1, <2>3 DEF Reached
    <3>9. IsFiniteSet(w.seen) /\ Cardinality(w.seen) = Cardinality(u.seen) + 1
      <4> DEFINE before == u.seen
                 r == w.owner.ref
      <4>1. IsFiniteSet(before) /\ r \notin before /\ w.seen = before \cup {r}
        BY <3>5, <3>7 DEF Known
      <4> HIDE DEF before, r
      <4>2. IsFiniteSet(before \cup {r}) /\ Cardinality(before \cup {r}) = Cardinality(before) + 1
        BY <4>1, FS_AddElement
      <4> QED BY <4>1, <4>2 DEF before
    <3>10. Cardinality(w.seen) = k + 1
      BY <3>1, <3>5, <3>9 DEF Known
    <3>11. w.owner.ref \in w.seen /\ w.seen \subseteq Reached(graph)
      BY <3>5, <3>7, <3>8 DEF Known
    <3> QED BY <3>7, <3>9, <3>10, <3>11 DEF Known
  <2>6. All(k)
    BY <2>4, <2>5
  <2> QED BY <2>2, <2>6
<1>3. n \in Nat /\ n <= N
  BY <1>0
<1> QED BY <1>2, <1>3

\* Walk comes to whatever a router that it comes to mounts.
LEMMA MountedIsReached ==
  ASSUME NEW graph, NEW S, Project(graph, S), NEW m \in graph.mounts, m.parent \in Reached(graph),
         Find(graph.owners, m.child).ref \in Refs(graph)
  PROVE  Find(graph.owners, m.child).ref \in Reached(graph)
<1> DEFINE N == Len(graph.owners)
           o == Find(graph.owners, m.child)
           p == Filled(graph.consts, m.prefix)
<1>0. N \in Nat
  BY DEF Project
<1>1. PICK V : VisitLevelsOf(V, graph)
  BY <1>0, VisitLevelsAre
<1>2. PICK v \in Visits(graph) : v.owner.ref = m.parent
  BY DEF Reached
<1>3. PICK n \in 0..N : v \in V[n]
  BY <1>1 DEF VisitLevelsOf
<1>4. Known(graph, v, n)
  BY <1>1, <1>3, VisitsAreKnown
<1>5. SUFFICES ASSUME o.ref \notin v.seen PROVE o.ref \in Reached(graph)
  BY <1>4 DEF Known
<1>6. o.ref # NoOwner.ref
  BY DEF Refs, Project
<1> DEFINE w == Visit(graph, o, [says |-> v.base \o p.says, unknown |-> v.unknown \/ p.unknown], m.override, v.seen)
<1>7. w \in Below(graph, v)
  BY <1>2, <1>5, <1>6 DEF Below
<1>8. w.owner = o
  BY DEF Visit
<1>9. n + 1 \in 1..N
  <2>1. Reached(graph) \subseteq Refs(graph)
    <3>1. ASSUME NEW u \in Visits(graph) PROVE u.owner.ref \in Refs(graph)
      <4>1. PICK k \in 0..N : u \in V[k]
        BY <1>1 DEF VisitLevelsOf
      <4>2. Known(graph, u, k)
        BY <1>1, <4>1, VisitsAreKnown
      <4> QED BY <4>2 DEF Known, Refs
    <3> QED BY <3>1 DEF Reached
  <2> DEFINE T == v.seen \cup {o.ref}
  <2>2. T \in SUBSET Refs(graph)
    BY <1>4, <2>1 DEF Known
  <2>3. Cardinality(T) = Cardinality(v.seen) + 1
    BY <1>4, <1>5, FS_AddElement DEF Known
  <2>4. IsFiniteSet(Refs(graph)) /\ Cardinality(Refs(graph)) <= N /\ Cardinality(Refs(graph)) \in Nat
    BY RefsAreFew, FS_CardinalityType
  <2> HIDE DEF T
  <2>5. Cardinality(T) <= Cardinality(Refs(graph))
    BY <2>2, <2>4, FS_Subset
  <2>6. Cardinality(v.seen) = n + 1
    BY <1>4 DEF Known
  <2> HIDE DEF N
  <2> QED BY <1>0, <1>3, <2>3, <2>4, <2>5, <2>6
<1>10. V[n + 1] = UNION {Below(graph, u) : u \in V[n]}
  <2>1. V[n + 1] = UNION {Below(graph, u) : u \in V[n + 1 - 1]}
    BY <1>1, <1>9 DEF VisitLevelsOf
  <2>2. n + 1 - 1 = n
    BY <1>0
  <2> QED BY <2>1, <2>2
<1> HIDE DEF w
<1>11. w \in V[n + 1]
  BY <1>3, <1>7, <1>10
<1>12. w \in Visits(graph)
  BY <1>0, <1>1, <1>9, <1>11 DEF VisitLevelsOf
<1> QED BY <1>8, <1>12 DEF Reached

\* So unless routers mount each other in a circle, or are mounted from where nothing is known,
\* walk comes to every one.
LEMMA AllReached ==
  ASSUME NEW graph, NEW S, Project(graph, S), \A m \in graph.mounts : m.parent \in Refs(graph), ~Circled(graph)
  PROVE  Refs(graph) \subseteq Reached(graph)
<1> DEFINE U == Refs(graph) \ Reached(graph)
<1>1. SUFFICES ASSUME U # {} PROVE FALSE
  OBVIOUS
<1>2. ASSUME NEW r \in U PROVE \E m \in graph.mounts : Find(graph.owners, m.child).ref = r /\ m.parent \in U
  <2>1. PICK o \in OwnersOf(graph) : o.ref = r
    BY DEF Refs
  <2>2. Find(graph.owners, r) = o
    BY <2>1 DEF Project
  <2>3. ~o.root /\ o.ref \in MountedRefs(graph)
    <3>1. Len(graph.owners) \in Nat
      BY DEF Project
    <3>2. PICK V : VisitLevelsOf(V, graph)
      BY <3>1, VisitLevelsAre
    <3>3. Starts(graph) \subseteq Visits(graph)
      BY <3>1, <3>2 DEF VisitLevelsOf
    <3> DEFINE here == [says |-> <<>>, unknown |-> FALSE]
               nowhere == [says |-> <<"<unmounted>">>, unknown |-> TRUE]
    <3>4. \A above : Visit(graph, o, above, FALSE, {}).owner = o
      BY DEF Visit
    <3>5. Visit(graph, o, here, FALSE, {}) \notin Starts(graph) /\ Visit(graph, o, nowhere, FALSE, {}) \notin Starts(graph)
      <4> HIDE DEF here, nowhere
      <4> QED BY <2>1, <3>3, <3>4 DEF Reached
    <3>6. o.root => Visit(graph, o, here, FALSE, {}) \in Starts(graph)
      BY DEF Starts
    <3>7. ~o.root /\ o.ref \notin MountedRefs(graph) => Visit(graph, o, nowhere, FALSE, {}) \in Starts(graph)
      BY DEF Starts
    <3> QED BY <3>5, <3>6, <3>7
  <2>4. PICK m \in graph.mounts : m.child = r \/ Find(graph.owners, m.child).ref = r
    BY <2>1, <2>3 DEF MountedRefs
  <2>5. Find(graph.owners, m.child).ref = r
    BY <2>1, <2>2, <2>4
  <2>6. m.parent \notin Reached(graph)
    BY <2>5, MountedIsReached
  <2> QED BY <2>5, <2>6
<1>3. U \in (SUBSET Refs(graph)) \ {{}}
  BY <1>1
<1> QED BY <1>2, <1>3 DEF Circled, Refs

\* mount.go, "a route is only returned when every prefix above it is known": of every project
\* whose routers are told apart by their names, however many of them mount one another, an
\* endpoint put together from mounts is one it serves, and unless some are mounted in a circle
\* or from where nothing is known every declaration is told.
THEOREM ProjectTellsWhatIsServed ==
  ASSUME NEW graph, NEW S, Project(graph, S) PROVE TellsWhatIsServed(graph)
<1>1. \A t \in Composed(graph) : t.emitted => <<t.of, t.path>> \in Served(graph)
  BY ComposedIsServed
<1>2. ASSUME \A m \in graph.mounts : m.parent \in {o.ref : o \in OwnersOf(graph)}, ~Circled(graph),
             NEW o \in OwnersOf(graph), NEW d \in o.decls
      PROVE  \E t \in Composed(graph) : t.of = o.ref /\ t.decl = d
  <2>1. o.ref \in Reached(graph)
    BY <1>2, AllReached DEF Refs
  <2>2. PICK v \in Visits(graph) : v.owner.ref = o.ref
    BY <2>1 DEF Reached
  <2>3. v.owner = o
    <3>1. Len(graph.owners) \in Nat
      BY DEF Project
    <3>2. PICK V : VisitLevelsOf(V, graph)
      BY <3>1, VisitLevelsAre
    <3>3. PICK n \in 0..Len(graph.owners) : v \in V[n]
      BY <3>2 DEF VisitLevelsOf
    <3>4. v.owner \in OwnersOf(graph)
      BY <3>2, <3>3, VisitsAreKnown DEF Known
    <3> QED BY <2>2, <3>4 DEF Project
  <2> DEFINE t == [of |-> v.owner.ref, decl |-> d, path |-> v.base \o d.says, emitted |-> ~v.unknown /\ d.kind = "path"]
  <2> DEFINE of(x) == {[of |-> x.owner.ref, decl |-> e, path |-> x.base \o e.says,
                        emitted |-> ~x.unknown /\ e.kind = "path"] : e \in x.owner.decls}
  <2>4. t \in Composed(graph)
    <3>1. d \in v.owner.decls
      BY <2>3
    <3>2. t \in of(v)
      BY <3>1
    <3>3. Composed(graph) = UNION {of(x) : x \in Visits(graph)}
      BY DEF Composed
    <3> HIDE DEF of, t
    <3> QED BY <3>2, <3>3
  <2>5. t.of = o.ref /\ t.decl = d
    BY <2>2
  <2> HIDE DEF t
  <2> QED BY <2>4, <2>5
<1> QED BY <1>1, <1>2 DEF TellsWhatIsServed

-----------------------------------------------------------------------------
(* RouteSources: the graphs of MCRouteSources.                             *)

\* The segments of the prefixes of MCRouteSources.
PrefixSegment == {"path", "unreadable", "api"}

\* A prefix of its owners and mounts, whichever files bind the name in it.
Prefixed(p) ==
  /\ p.says \in Seq(PrefixSegment)
  /\ p.kind \in {"path", "unreadable"} \/ (p.kind = "ref" /\ p.ref = "API" /\ p.says = <<"api">>)

\* Each is one of these.
LEMMA PrefixesAre ==
  ASSUME NEW p \in {Slash, Written("path"), Written("unreadable"), Ref("API", <<"api">>)} PROVE Prefixed(p)
<1>1. <<>> \in Seq(PrefixSegment) /\ <<"path">> \in Seq(PrefixSegment) /\ <<"unreadable">> \in Seq(PrefixSegment)
      /\ <<"api">> \in Seq(PrefixSegment)
  BY DEF PrefixSegment
<1>2. Slash.kind = "path" /\ Slash.says = <<>>
  BY DEF Slash
<1>3. \A k : Written(k).kind = k /\ Written(k).says = <<k>>
  BY DEF Written
<1>4. Ref("API", <<"api">>).kind = "ref" /\ Ref("API", <<"api">>).ref = "API" /\ Ref("API", <<"api">>).says = <<"api">>
  BY DEF Ref
<1>5. CASE p = Slash
  BY <1>1, <1>2, <1>5 DEF Prefixed
<1>6. CASE p = Written("path")
  BY <1>1, <1>3, <1>6 DEF Prefixed
<1>7. CASE p = Written("unreadable")
  BY <1>1, <1>3, <1>7 DEF Prefixed
<1>8. CASE p = Ref("API", <<"api">>)
  BY <1>1, <1>4, <1>8 DEF Prefixed
<1> QED BY <1>5, <1>6, <1>7, <1>8

\* In the graphs of MCRouteSources a name stands for one of the paths it is bound to.
LEMMA PrefixesAreMeant ==
  ASSUME NEW p, Prefixed(p), NEW consts \in {{}, {Binds}, {Binds, Differs}}
  PROVE  IsFiniteSet(consts) /\ Meant(consts, p)
<1>1. IsFiniteSet(consts)
  <2>1. IsFiniteSet({}) /\ IsFiniteSet({Binds}) /\ IsFiniteSet({Binds} \cup {Differs})
    BY FS_EmptySet, FS_Singleton, FS_AddElement
  <2>2. {Binds, Differs} = {Binds} \cup {Differs}
    OBVIOUS
  <2> QED BY <2>1, <2>2
<1> DEFINE of == {d \in consts : p.kind = "ref" /\ d.name = p.ref}
           known == {c.value : c \in of}
<1>2. Binds.name = "API" /\ Binds.value = <<"api">>
  BY DEF Binds
<1>3. of # {} => p.says = <<"api">> /\ Binds \in of
  <2>1. SUFFICES ASSUME of # {} PROVE p.says = <<"api">> /\ Binds \in of
    OBVIOUS
  <2>2. p.kind = "ref" /\ consts # {}
    BY <2>1
  <2>3. p.ref = "API" /\ p.says = <<"api">>
    BY <2>2 DEF Prefixed
  <2>4. Binds \in consts
    BY <2>2
  <2> QED BY <1>2, <2>2, <2>3, <2>4
<1>4. known # {} => p.says \in known
  <2> HIDE DEF of
  <2> QED BY <1>2, <1>3
<1> QED BY <1>1, <1>4 DEF Meant

\* An owner whose name no other has is found by it.
LEMMA NamedIsFound ==
  ASSUME NEW owners, NEW k \in DOMAIN owners, owners[k].ref.name # Unnamed,
         k \in Nat, \A j \in DOMAIN owners : owners[j].ref = owners[k].ref \/ owners[j].ref.name # owners[k].ref.name,
         \A j \in DOMAIN owners : owners[j].ref = owners[k].ref => j = k
  PROVE  Find(owners, owners[k].ref) = owners[k]
<1> DEFINE ref == owners[k].ref
           here == {j \in DOMAIN owners : owners[j].ref.file = ref.file}
           named == {j \in here : owners[j].ref.name = ref.name}
           first(ks) == IF ks = {} THEN NoOwner ELSE owners[CHOOSE j \in ks : \A i \in ks : j <= i]
<1>1. named = {k}
  OBVIOUS
<1>2. Find(owners, ref) = first(named)
  BY DEF Find
<1> HIDE DEF named
<1>3. (CHOOSE j \in named : \A i \in named : j <= i) = k
  <2>1. \E j \in named : \A i \in named : j <= i
    BY <1>1
  <2> QED BY <1>1, <2>1
<1> QED BY <1>1, <1>2, <1>3

\* The routers of those graphs are told apart by their names.
LEMMA OwnersAre ==
  ASSUME NEW p, NEW q, NEW marked, Prefixed(p), Prefixed(q)
  PROVE  LET owners == OwnersWith(p, q, marked)
         IN  /\ Len(owners) = 3 /\ DOMAIN owners = 1..3
             /\ \A k \in 1..3 : /\ Find(owners, owners[k].ref) = owners[k] /\ owners[k].ref # NoOwner.ref
                                /\ Prefixed(owners[k].prefix)
<1> DEFINE owners == OwnersWith(p, q, marked)
<1>1. Len(owners) = 3 /\ DOMAIN owners = 1..3
  BY DEF OwnersWith
<1>2. /\ owners[1].ref = App /\ owners[1].prefix = Slash
      /\ owners[2].ref = Orders /\ owners[2].prefix = p
      /\ owners[3].ref = Items /\ owners[3].prefix = q
  BY DEF OwnersWith
<1>3. App.name = "app" /\ Orders.name = "router" /\ Items.name = "items" /\ NoOwner.ref.name = "unnamed"
  BY DEF App, Orders, Items, NoOwner, Unnamed
<1>4. Prefixed(Slash)
  BY PrefixesAre
<1> HIDE DEF owners
<1>5. \A k \in 1..3 : k = 1 \/ k = 2 \/ k = 3
  OBVIOUS
<1>6. \A k \in 1..3 : owners[k].ref # NoOwner.ref /\ Prefixed(owners[k].prefix) /\ owners[k].ref.name # Unnamed
  BY <1>2, <1>3, <1>4, <1>5 DEF Unnamed
<1>7. \A k, j \in 1..3 : owners[j].ref.name = owners[k].ref.name => j = k
  BY <1>2, <1>3, <1>5
<1>8. ASSUME NEW k \in 1..3 PROVE Find(owners, owners[k].ref) = owners[k]
  BY <1>1, <1>6, <1>7, NamedIsFound
<1> QED BY <1>1, <1>6, <1>8 DEF owners

\* Linking a mount leaves its prefix.
LEMMA MountCasesAre ==
  ASSUME NEW m \in MountCases, NEW f PROVE Prefixed([m EXCEPT !.child.file = f].prefix)
<1>1. \A k \in MountPrefixes \cup {Written("path")} : Prefixed(k)
  BY PrefixesAre DEF MountPrefixes
<1>2. [m EXCEPT !.child.file = f].prefix = m.prefix /\ m.prefix \in MountPrefixes \cup {Written("path")}
  BY DEF MountCases
<1> QED BY <1>1, <1>2

\* The graphs of MCRouteSources, linked, are projects.
LEMMA GraphsAreProjects ==
  ASSUME NEW g \in Graphs2, NEW files PROVE Project(Link(g, files), PrefixSegment)
<1>1. PICK p \in {Slash, Written("path"), Written("unreadable")}, q \in {Slash, Ref("API", <<"api">>)}, marked \in BOOLEAN,
           m \in MountCases, n \in MountCases, c \in {{}, {Binds}, {Binds, Differs}} :
        g = [owners |-> OwnersWith(p, q, marked), mounts |-> {m, n}, consts |-> c]
  BY DEF Graphs2
<1> DEFINE graph == Link(g, files)
           owners == OwnersWith(p, q, marked)
<1>2. /\ graph.owners = owners /\ graph.consts = c
      /\ graph.mounts = {[x EXCEPT !.child.file = IF x.spec = Unnamed THEN @ ELSE x.spec] :
                           x \in {x \in {m, n} : x.spec \in files \cup {Unnamed}}}
  BY <1>1 DEF Link
<1> HIDE DEF graph
<1>3. Prefixed(p) /\ Prefixed(q)
  BY PrefixesAre
<1>4. /\ Len(owners) = 3 /\ DOMAIN owners = 1..3
      /\ \A k \in 1..3 : /\ Find(owners, owners[k].ref) = owners[k] /\ owners[k].ref # NoOwner.ref
                         /\ Prefixed(owners[k].prefix)
  BY <1>3, OwnersAre
<1> HIDE DEF owners
<1>5. \A x \in graph.mounts : Meant(graph.consts, x.prefix)
  <2>1. ASSUME NEW x \in graph.mounts PROVE Prefixed(x.prefix)
    <3>1. PICK y \in {m, n} : x = [y EXCEPT !.child.file = IF y.spec = Unnamed THEN @ ELSE y.spec]
      BY <1>2
    <3>2. \E f : x = [y EXCEPT !.child.file = f]
      BY <3>1
    <3> QED BY <3>2, MountCasesAre
  <2> QED BY <1>2, <2>1, PrefixesAreMeant
<1>6. \A o \in OwnersOf(graph) :
        Find(graph.owners, o.ref) = o /\ o.ref # NoOwner.ref /\ Prefixed(o.prefix)
  BY <1>2, <1>4 DEF OwnersOf
<1>7. \A o \in OwnersOf(graph) : Meant(graph.consts, o.prefix) /\ o.prefix.says \in Seq(PrefixSegment)
  BY <1>2, <1>6, PrefixesAreMeant DEF Prefixed
<1>8. IsFiniteSet(graph.consts)
  BY <1>2, <1>3, PrefixesAreMeant
<1>9. Project(graph, PrefixSegment)
  BY <1>2, <1>4, <1>5, <1>6, <1>7, <1>8 DEF Project
<1> QED BY <1>9 DEF graph

\* So TLC's graphs are told of as they are served.
LEMMA MountedRoutesAre == MountedRoutesAreServed
BY GraphsAreProjects, ProjectTellsWhatIsServed DEF MountedRoutesAreServed

\* Whatever the passes come to, what reading the source puts in the index is served, of
\* the Go functions and the graphs of mounts that TLC checks too.
THEOREM RoutesAreServed == Spec => []ReadRoutesAreServed
<1>1. ReadRoutesAreServed
  BY GoRoutesAre, MountedRoutesAre DEF ReadRoutesAreServed
<1> QED BY <1>1, PTL
=============================================================================
