------------------------------ MODULE CodeIndex ------------------------------
(***************************************************************************)
(* What a machine knows of the code (cli/internal/index, app/read.go): one *)
(* pass reads the tree and answers with the endpoints of every file, and a *)
(* cache beside the code remembers the answer.                             *)
(*                                                                         *)
(* A pass first hashes every file, and when all hashes are those of the    *)
(* last pass it answers with what was stored then.  Otherwise it reads     *)
(* every file, takes the endpoints from the source, asks a model about the *)
(* files it cannot parse (those it asked before come from a table of       *)
(* extractions), and replaces what was stored in one transaction.          *)
(*                                                                         *)
(* The developer edits while a pass goes on, changes the configuration,    *)
(* and may run a second process on the same cache.  The endpoints of a     *)
(* file are abstracted to the versions they were read from.                *)
(*                                                                         *)
(* Operators whose names end in _ are mutants of the operator after them.  *)
(***************************************************************************)
EXTENDS Naturals, FiniteSets

CONSTANTS
  File,       \* paths of source files
  Dark,       \* those in a language with no static extractor
  Gateway,    \* the dark file that routes to the others, when there is one
  Version,    \* contents of files
  Huge,       \* those above maxFileSize: counted, never hashed
  None,       \* no file, no hash, no endpoints
  NoHash,     \* the empty string for a hash
  Edited,     \* bound: files the developer works on
  Initially,  \* trees a history starts with
  Proc,       \* processes on one cache
  MaxEdits,   \* bound: edits of the tree
  MaxChanges, \* bound: changes of the configuration, and upgrades
  MaxPasses   \* bound: passes begun

ASSUME FileAssumption    == IsFiniteSet(File) /\ Dark \subseteq File /\ Edited \subseteq File
ASSUME VersionAssumption == Huge \subseteq Version /\ None \notin Version /\ NoHash \notin Version
                            /\ NoHash # None
ASSUME TreeAssumption    == Initially \subseteq [File -> Version \cup {None}]

VARIABLES
  tree,         \* the working tree
  env,          \* what else decides the answer: endpoints.list or .spec of the
                \* configuration, a specification in the repository, endpoints.ai
  stored,       \* the tables files, routes and meta, and of what they were read
  extractions,  \* the table extractions
  pass,         \* each process's pass
  had,          \* what each file has been since the stage of a pass that reads files began
  untouched,    \* no file has changed between its two readings
  edits, changes, passes \* counters for the bounds

vars == <<tree, env, stored, extractions, pass, had, untouched, edits, changes, passes>>

Tree     == [File -> Version \cup {None}]
Nowhere  == [f \in File |-> None]
Env      == [declared : BOOLEAN, spec : BOOLEAN, ai : BOOLEAN]
Readings == (Version \X (Version \cup {None})) \cup {None}

-----------------------------------------------------------------------------
(* Versions and what is read from them.                                    *)

\* read: a file too large has no hash and no body.
Hash(v)   == IF v \in Huge THEN NoHash ELSE v
Hashes(t) == [f \in File |-> Hash(t[f])]
Legible(v) == v \notin Huge \cup {None}

Paths(m) == {f \in File : m[f] # None}

\* A map of Go answers an unknown key with the empty string.
Lookup(m, f) == IF m[f] = None THEN NoHash ELSE m[f]

\* Mutant: every file of the last pass is as it was.
HashesEqualSoFar_(before, now) == \A f \in Paths(before) : Lookup(now, f) = before[f]

HashesEqual(before, now) ==
  /\ Cardinality(Paths(before)) = Cardinality(Paths(now))
  /\ \A f \in Paths(before) : Lookup(now, f) = before[f]

\* A list in the configuration or a specification answers for the project, and the
\* files are not asked.
FromFiles(e) == ~e.declared /\ ~e.spec
WantsAI(e)   == FromFiles(e) /\ e.ai

\* The files worth a model call.
Candidates(t) == {f \in Dark : Legible(t[f])}

\* The gateway is sent along when it names at least two others.
Routed(t, f) ==
  /\ f # Gateway /\ Gateway \in Candidates(t)
  /\ Cardinality(Candidates(t) \ {Gateway}) >= 2

\* What the model makes of a file.
Extract(t, f) == <<t[f], IF Routed(t, f) THEN t[Gateway] ELSE None>>

\* The endpoints of a tree, in an environment.
EndpointsOf(t, e) ==
  [f \in File |->
    IF ~FromFiles(e) \/ ~Legible(t[f]) THEN None
    ELSE IF f \notin Dark THEN <<t[f], None>>
    ELSE IF e.ai THEN Extract(t, f) ELSE None]

\* The key of an extraction covers the gateway sent with the file.  The hashes are of
\* the first reading, t; which file is the gateway is judged on the second, b.
Key(t, b, f) == <<Hash(t[f]), IF Routed(b, f) THEN Hash(t[Gateway]) ELSE None>>

-----------------------------------------------------------------------------
Idle == [pc |-> "idle", key |-> FALSE, env |-> [declared |-> FALSE, spec |-> FALSE, ai |-> FALSE],
         before |-> Nowhere, listed |-> {}, todo |-> {}, seen |-> Nowhere, body |-> Nowhere,
         found |-> Nowhere, kept |-> {}, alone |-> TRUE, whole |-> FALSE]

Unread == [f \in File |-> {}]

Empty == [files |-> Nowhere, routes |-> Nowhere, of |-> Nowhere, env |-> Idle.env,
          kept |-> {}, alone |-> TRUE]

Init ==
  /\ tree \in Initially
  /\ env \in {e \in Env : FromFiles(e)}
  /\ stored = Empty /\ extractions = {}
  /\ pass = [p \in Proc |-> Idle] /\ had = [p \in Proc |-> Unread]
  /\ untouched = TRUE /\ edits = 0 /\ changes = 0 /\ passes = 0

-----------------------------------------------------------------------------
(* The developer.                                                          *)

\* Mid-stage, a file read before the edit was the old one, and one read after it the new.
Edit(f) ==
  /\ edits < MaxEdits
  /\ \E v \in (Version \cup {None}) \ {tree[f]} :
       /\ tree' = [tree EXCEPT ![f] = v]
       /\ had' = [p \in Proc |-> IF pass[p].pc \in {"hashing", "scanning", "extracting"}
                                 THEN [had[p] EXCEPT ![f] = @ \cup {v}] ELSE had[p]]
  /\ edits' = edits + 1
  /\ UNCHANGED <<env, stored, extractions, pass, untouched, changes, passes>>

Configure ==
  /\ changes < MaxChanges
  /\ \/ env' = [env EXCEPT !.declared = ~@]
     \/ env' = [env EXCEPT !.spec = ~@]
     \/ env' = [env EXCEPT !.ai = ~@]
  /\ changes' = changes + 1
  /\ UNCHANGED <<tree, stored, extractions, pass, had, untouched, edits, passes>>

\* Somebody else has written: no pass that is under way is alone.
Disturb(changed) ==
  pass' = [p \in Proc |-> IF changed[p].pc = "idle" THEN Idle
                          ELSE [changed[p] EXCEPT !.alone = FALSE]]

\* rebuildCache: a newer program opens the cache, and it is gone.
Upgrade ==
  /\ changes < MaxChanges /\ (stored # Empty \/ extractions # {})
  /\ stored' = Empty /\ extractions' = {}
  /\ Disturb(pass)
  /\ changes' = changes + 1
  /\ UNCHANGED <<tree, env, had, untouched, edits, passes>>

-----------------------------------------------------------------------------
(* A pass begins, and asks whether anything changed.                       *)

\* A stage that reads files begins for p, or ends.
Reading(p) == had' = [had EXCEPT ![p] = [f \in File |-> {tree[f]}]]
Done(p)    == had' = [had EXCEPT ![p] = Unread]

\* The files as the workers of a stage found them, each at a moment of its own.
Found(p, files) == {t \in Tree : \A f \in File : t[f] \in IF f \in files THEN had[p][f] ELSE {None}}

\* The hashes of the last pass, and the list of files.  A file deleted from the tree and
\* not from git's index is listed too.
Begin(p) ==
  /\ pass[p].pc = "idle" /\ passes < MaxPasses
  /\ passes' = passes + 1
  /\ LET steady == Paths(stored.files) # {} /\ ~env.declared IN
     \E key \in IF env.ai THEN BOOLEAN ELSE {FALSE}, listed \in SUBSET File :
       /\ Paths(tree) \subseteq listed
       /\ pass' = [pass EXCEPT ![p] =
            [Idle EXCEPT !.pc = IF steady THEN "hashing" ELSE "resolving", !.key = key,
                         !.env = env, !.before = stored.files, !.listed = listed]]
       /\ IF steady THEN Reading(p) ELSE Done(p)
  /\ UNCHANGED <<tree, env, stored, extractions, untouched, edits, changes>>

\* HashPaths, and unchanged.  A file that cannot be read means that something changed.
HashPaths(p) ==
  /\ pass[p].pc = "hashing"
  /\ \E t \in Found(p, pass[p].listed) :
       IF Paths(t) = pass[p].listed /\ HashesEqual(pass[p].before, Hashes(t))
       THEN pass' = [pass EXCEPT ![p].pc = "loading", ![p].seen = t]
       ELSE pass' = [pass EXCEPT ![p].pc = "resolving", ![p].before = Nowhere]
  /\ Done(p)
  /\ UNCHANGED <<tree, env, stored, extractions, untouched, edits, changes, passes>>

\* Every file the model was to read has been read.
Whole(s) == WantsAI(s.env) => \A f \in Candidates(s.of) : s.routes[f] # None

\* Load answers with the routes of the last pass.  (It reads the three tables by
\* statements of their own; what this module says is about the routes.)  When it fails,
\* the full pass follows.
Load(p) ==
  /\ pass[p].pc = "loading"
  /\ \/ pass' = [pass EXCEPT ![p].pc = "served", ![p].found = stored.routes,
                             ![p].whole = Whole(stored) /\ stored.env = pass[p].env]
     \/ pass' = [pass EXCEPT ![p].pc = "resolving", ![p].seen = Nowhere,
                             ![p].before = Nowhere]
  /\ UNCHANGED <<tree, env, stored, extractions, had, untouched, edits, changes, passes>>

-----------------------------------------------------------------------------
(* The full pass.                                                          *)

\* Resolve looks for a specification in the repository now.
Resolve(p) ==
  /\ pass[p].pc = "resolving"
  /\ pass' = [pass EXCEPT ![p].pc = "scanning", ![p].env.spec = env.spec]
  /\ Reading(p)
  /\ UNCHANGED <<tree, env, stored, extractions, untouched, edits, changes, passes>>

\* scan: one reading of a file for its hash and for what the source says.  A file that
\* cannot be read is left out.  extract goes on with the dark files.
Scan(p) ==
  /\ pass[p].pc = "scanning"
  /\ LET e == pass[p].env IN
     \E t \in Found(p, pass[p].listed) :
       pass' = [pass EXCEPT ![p].pc = "extracting", ![p].seen = t, ![p].listed = {},
                            ![p].found = EndpointsOf(t, [e EXCEPT !.ai = FALSE])]
  /\ Reading(p)
  /\ UNCHANGED <<tree, env, stored, extractions, untouched, edits, changes, passes>>

ToRead(x) == IF WantsAI(x.env) THEN Candidates(x.seen) ELSE {}

KeyIn(x, f) == Key(x.seen, x.body, f)

\* extract reads a dark file again for its text, and keeps the hash of the first reading.
\* FromAI looks every file up.  Without a key the model is out of reach, but what it
\* already read is not.
LookUp(p) ==
  /\ pass[p].pc = "extracting"
  /\ \E b \in Found(p, ToRead(pass[p])) :
       LET x     == [pass[p] EXCEPT !.body = b]
           hits  == {f \in Candidates(b) : \E r \in extractions : r.key = KeyIn(x, f)}
           row(f) == CHOOSE r \in extractions : r.key = KeyIn(x, f)
       IN /\ pass' = [pass EXCEPT ![p] =
               [x EXCEPT !.pc = "asking", !.kept = hits,
                         !.todo = IF x.key THEN Candidates(b) \ hits ELSE {},
                         !.found = [f \in File |-> IF f \in hits THEN row(f).endpoints
                                                   ELSE x.found[f]]]]
          /\ untouched' = (untouched /\ \A f \in ToRead(x) : b[f] = x.seen[f])
  /\ Done(p)
  /\ UNCHANGED <<tree, env, stored, extractions, edits, changes, passes>>

\* SaveExtracted: insert or replace.
SaveExtracted(x, f) ==
  extractions' = {r \in extractions : r.key # KeyIn(x, f)}
                 \cup {[key |-> KeyIn(x, f), file |-> Hash(x.seen[f]), endpoints |-> Extract(x.body, f)]}

\* run, for one file: the model reads it, and its reading is cached or cannot be; or it
\* could not read the file in any of its tries.  (A refused key ends the pass: End.)
Ask(p, f) ==
  /\ pass[p].pc = "asking" /\ f \in pass[p].todo
  /\ \/ /\ SaveExtracted(pass[p], f)
        /\ pass' = [pass EXCEPT ![p].todo = @ \ {f}, ![p].kept = @ \cup {f},
                                ![p].found[f] = Extract(pass[p].body, f)]
     \/ /\ pass' = [pass EXCEPT ![p].todo = @ \ {f}, ![p].found[f] = Extract(pass[p].body, f)]
        /\ UNCHANGED extractions
     \/ pass' = [pass EXCEPT ![p].todo = @ \ {f}] /\ UNCHANGED extractions
  /\ UNCHANGED <<tree, env, stored, had, untouched, edits, changes, passes>>

\* Mutant: a row is judged by its key.
PrunedByKey_(rows, files) == {r \in rows : \E f \in File : r.key = <<files[f], None>>}

\* An extraction belongs to a version of a file, and goes with it.
Pruned(rows, files) == {r \in rows : \E f \in Paths(files) : r.file = files[f]}

\* Save replaces what was stored, in one transaction.
Save(p) ==
  /\ pass[p].pc = "asking" /\ pass[p].todo = {}
  /\ LET x == pass[p] IN
       /\ stored' = [files |-> Hashes(x.seen), routes |-> x.found, of |-> x.seen,
                     env |-> x.env, kept |-> x.kept, alone |-> x.alone]
       /\ extractions' = Pruned(extractions, Hashes(x.seen))
  /\ Disturb([pass EXCEPT ![p] = Idle])
  /\ UNCHANGED <<tree, env, had, untouched, edits, changes, passes>>

\* The pass is over: it was answered from the cache, or it failed, was cut or died before
\* it saved.
End(p) ==
  /\ pass[p].pc # "idle"
  /\ pass' = [pass EXCEPT ![p] = Idle]
  /\ Done(p)
  /\ UNCHANGED <<tree, env, stored, extractions, untouched, edits, changes, passes>>

-----------------------------------------------------------------------------
Next ==
  \/ Configure \/ Upgrade
  \/ \E f \in Edited : Edit(f)
  \/ \E p \in Proc :
       \/ Begin(p) \/ HashPaths(p) \/ Load(p) \/ Resolve(p) \/ Scan(p) \/ LookUp(p)
       \/ Save(p) \/ End(p)
       \/ \E f \in File : Ask(p, f)

Spec == Init /\ [][Next]_vars

-----------------------------------------------------------------------------
PassState ==
  [pc : {"idle", "hashing", "loading", "served", "resolving", "scanning", "extracting", "asking"},
   key : BOOLEAN, env : Env, before : [File -> Version \cup {None, NoHash}],
   listed : SUBSET File, todo : SUBSET File, seen : Tree, body : Tree,
   found : [File -> Readings], kept : SUBSET File, alone : BOOLEAN, whole : BOOLEAN]

CodeIndexTypeOK ==
  /\ tree \in Tree /\ env \in Env /\ untouched \in BOOLEAN /\ edits \in Nat /\ changes \in Nat /\ passes \in Nat
  /\ stored \in [files : [File -> Version \cup {None, NoHash}], routes : [File -> Readings],
                 of : Tree, env : Env, kept : SUBSET File, alone : BOOLEAN]
  /\ extractions \subseteq [key : (Version \cup {None, NoHash}) \X (Version \cup {None, NoHash}),
                            file : Version \cup {None, NoHash}, endpoints : Readings]
  /\ pass \in [Proc -> PassState]
  /\ had \in [Proc -> [File -> SUBSET (Version \cup {None})]]

(* "The stored snapshot already is the answer" (app/read.go): what a pass is answered    *)
(* from the cache is what a full pass would have found in the files it hashed.  It takes *)
(* that nobody else saved meanwhile; that the last pass had the same configuration and   *)
(* specification; that the model could read every file it was given then; that no file   *)
(* was too large to be hashed; and that no file ever changed between its two readings.   *)
ServedIsCurrent ==
  \A p \in Proc :
    LET x == pass[p] IN
    /\ x.pc = "served" /\ x.alone /\ x.whole /\ untouched
    /\ \A f \in File : x.before[f] # NoHash
    => x.found = EndpointsOf(x.seen, x.env)

(* "What it already read is not" out of reach (source/ai.go): what the model read for    *)
(* the pass that is stored is in the table under the keys a next pass will look for, so  *)
(* that a pass without a key keeps those endpoints.  It takes that no other process      *)
(* saved while that pass went on, and that no file changed between its two readings.     *)
CacheCoversTheIndex ==
  stored.alone /\ untouched =>
    \A f \in stored.kept : \E r \in extractions : r.key = Key(stored.of, stored.of, f)

-----------------------------------------------------------------------------
(* What the code says of itself and does not hold; see the README.                       *)

\* "the next run tries again" (app/read.go:149-151): a pass answered from the cache has no
\* file the model has still to read.
NextRunTriesAgain ==
  \A p \in Proc : pass[p].pc = "served" /\ pass[p].alone => Whole(stored)

\* "One model extraction per file version" (store.go): a row holds a reading of the version
\* it is keyed by.
ExtractionIsOfItsVersion == \A r \in extractions : Hash(r.endpoints[1]) = r.file

\* "same paths, same hashes" (app/read.go:192-194).
EqualHashesAreEqualTrees ==
  \A p \in Proc : pass[p].pc = "served" => Hashes(pass[p].seen) = pass[p].before

=============================================================================
