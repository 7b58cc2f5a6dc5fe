----------------------------- MODULE MCStepText ------------------------------
(* Steps as they are replied, written to a file, stored and edited, for TLC. *)
EXTENDS StepText

Texts == {"", "blank", "padded", "bad", "ok"}

Requests(methods, urls, bodies) ==
  {Missing} \cup [method: methods, url: urls, value: {Missing, "ok", "bad"}, body: bodies]
Actions(texts) ==
  {Missing} \cup [statement: texts, target: Purposes, command: texts]

StepsOf(kinds, requests, actions) ==
  [id: {"ok"}, name: {"ok"}, kind: kinds, request: requests, action: actions, extract: {{}},
   checks: {{}}, onFailure: {"abort"}, retry: {Missing}]

CheckSets ==
  {{}} \cup {{a} : a \in [type: {"status", "bodyField", "rowCount", "valueEquals", "stdoutContains"},
                          operator: Operators, target: {"", "blank", "ok"},
                          expected: {Missing, "ok", "bad", "list"}]}
ExtractSets == {{}} \cup {{e} : e \in [name: {"", "ok"}, path: {"", "blank", "ok"}, source: {"body"}]}

\* A step whose checks, values, retry, id or name are any of these.
Variants(s) ==
  {[s EXCEPT !.checks = c] : c \in CheckSets}
  \cup {[s EXCEPT !.extract = e] : e \in ExtractSets}
  \cup {[s EXCEPT !.retry = r] : r \in {Missing} \cup [attempts: 0..2, delay: {-1, 0}]}
  \cup {[s EXCEPT !.id = t[1], !.name = t[2]] : t \in Texts \X Texts}

PlainStep(kind, body) ==
  [id |-> "ok", name |-> "ok", kind |-> kind, extract |-> {}, checks |-> {}, onFailure |-> "abort",
   retry   |-> Missing,
   request |-> IF kind \in {"http", Missing} THEN [method |-> "GET", url |-> "ok", value |-> Missing, body |-> body]
               ELSE Missing,
   action  |-> CASE kind = "sql"   -> [statement |-> "ok", target |-> "setup", command |-> Missing]
                 [] kind = "shell" -> [statement |-> Missing, target |-> Missing, command |-> "ok"]
                 [] OTHER          -> Missing]

StepKinds == {"http", "sql", "shell"}

Replies ==
  StepsOf(StepKinds, Requests({"GET"}, Texts, {"", "object", "bad", "array", "scalar", "broken"}), Actions(Texts))
  \cup (UNION {Variants(PlainStep(k, "")) : k \in StepKinds})

Files ==
  StepsOf(StepKinds \cup {Missing, "ftp"},
          Requests({"GET", "get", "TRACE"}, Texts \cup {"query"}, {Missing, "object", "bad", "array"}),
          Actions({Missing, "", "blank", "ok", "bad"}))
  \cup (UNION {Variants(PlainStep(k, Missing)) : k \in StepKinds \cup {Missing}})
  \cup {[PlainStep("sql", Missing) EXCEPT !.onFailure = Missing],
        [PlainStep("http", Missing) EXCEPT !.onFailure = "stop"]}
  \cup {[PlainStep(k, Missing) EXCEPT !.action.target = "neither"] : k \in {"sql", "shell"}}

\* Forms three edits after they were opened, on a step there was or on a new one.
FormsOpened ==
  {Opened(PlainStep(k, Missing)) : k \in StepKinds \cup {Missing}} \cup {Opened(BlankStep("ok", "http"))}
FormsEdited  == UNION {Edits(f) : f \in FormsOpened}
FormsOnce    == FormsEdited \cup (UNION {Edits(f) : f \in FormsEdited})
FormsAsKept  == FormsOnce \cup (UNION {Edits(f) : f \in FormsOnce})

EveryTextLoads ==
  /\ \A w \in Replies : ReplyLoads(w)
  /\ \A f \in FormsAsKept : KeptLoads(f)

EveryTextKeepsItsMeaning ==
  /\ \A s \in Files : LoadedIsPushed(s) /\ PushedMeansTheSame(s)
  /\ \A s \in {t \in Files : EditorTakes(t)} : OpenedMeansTheSame(s)
=============================================================================
