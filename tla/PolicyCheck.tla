----------------------------- MODULE PolicyCheck -----------------------------
(***************************************************************************)
(* The release policy checker (tools/releasepolicy/main.go).  It compares  *)
(* release.yml, as a YAML tree, with the accepted policy field by field,   *)
(* and looks at the files the release needs.  The repository starts as the *)
(* policy wants it and is edited one place at a time; in every repository  *)
(* reached the checker is compared with what it guarantees: the workflow   *)
(* is the accepted one, up to the differences that Alike lists.            *)
(*                                                                         *)
(* A node is nothing, a scalar, a mapping, a sequence or an alias.  The    *)
(* text of a scalar is the sequence of its lines.  Only what the checker   *)
(* or a shell tells apart in a line is modelled: white space at its ends,  *)
(* whether it is a comment, ends in a backslash or holds a GitHub          *)
(* expression, and the action and version of a uses value.                 *)
(***************************************************************************)
EXTENDS Integers, Sequences, SequencesExt, FiniteSets

CONSTANTS Policies,    \* the accepted policy, and defective catalogues
          Comment,     \* the lines that start with #
          Padded,      \* from lines with white space at an end to those without
          Continued,   \* the lines whose last character is a backslash
          Expression,  \* the lines that contain ${{
          UsesText,    \* from uses texts to their action and version
          MaxEdits     \* how many edits are made (a bound of the model)

VARIABLES policy,      \* acceptedReleasePolicy
          root,        \* the YAML tree of release.yml
          files,       \* the other files, from path to what is there
          edits        \* the edits made so far

vars == <<policy, root, files, edits>>

----------------------------------------------------------------------------
(* YAML nodes                                                              *)

Nil == [kind |-> "nil"]
Alias == [kind |-> "alias"]
Text(lines) == [kind |-> "scalar", text |-> lines]
Scalar(line) == Text(<<line>>)
Map(pairs) == [kind |-> "map", pairs |-> pairs]
List(items) == [kind |-> "seq", items |-> items]

Pairs(n) == IF n.kind = "map" THEN n.pairs ELSE <<>>

\* The value of the first pair with the key.
mapping(n, key) ==
  LET at == {i \in DOMAIN Pairs(n) : Pairs(n)[i][1] = key}
  IN  IF at = {} THEN Nil
      ELSE Pairs(n)[CHOOSE i \in at : \A j \in at : i <= j][2]

mapKeys(n) == [i \in DOMAIN Pairs(n) |-> Pairs(n)[i][1]]

scalar(n) == IF n.kind = "scalar" THEN n.text ELSE <<"">>

Items(n) == IF n.kind = "seq" THEN n.items ELSE <<>>
seqStrings(n) == [i \in DOMAIN Items(n) |-> scalar(Items(n)[i])]
steps(job) == Items(mapping(job, "steps"))

needs(job) ==
  LET n == mapping(job, "needs")
  IN  IF n.kind = "scalar" THEN <<n.text>> ELSE seqStrings(n)

sameStringSet(got, want) == Len(got) = Len(want) /\ Range(got) = Range(want)

Lines(names) == [i \in DOMAIN names |-> <<names[i]>>]

\* The action and the version of the text of a uses value, as strings.Cut
\* splits it at the @; the version is none if there is no @.
Uses(text) ==
  IF text[1] \in DOMAIN UsesText THEN UsesText[text[1]]
  ELSE [action |-> text[1], version |-> "none"]

----------------------------------------------------------------------------
(* Expectations.  A finding is the place and what is wrong there.          *)

Finding(at, msg) == [at |-> at, msg |-> msg]
Report(cond, at, msg) == IF cond THEN {Finding(at, msg)} ELSE {}

\* A map of the policy that may be absent.
Given(f) == [given |-> TRUE, map |-> f]
NotGiven == [given |-> FALSE, map |-> <<>>]

expectExactScalar(at, n, want) ==
  Report(n.kind \notin {"nil", "scalar"} \/ scalar(n) # <<want>>, at, "value")

expectOptionalExactScalar(at, n, want) ==
  IF want = "" THEN Report(n # Nil, at, "unexpected value")
  ELSE expectExactScalar(at, n, want)

expectOnlyKeys(at, n, want) ==
  Report(n.kind # "map", at, "missing mapping")
  \cup {Finding(at \o <<k>>, "unexpected key") : k \in Range(mapKeys(n)) \ want}

expectScalars(at, n, want) ==
  IF n.kind # "map" THEN {Finding(at, "missing or not a mapping")}
  ELSE UNION {expectExactScalar(at \o <<k>>, mapping(n, k), want[k]) : k \in DOMAIN want}

expectExactScalars(at, n, want) ==
  expectScalars(at, n, want)
  \cup {Finding(at \o <<k>>, "unexpected key") : k \in Range(mapKeys(n)) \ DOMAIN want}

expectOptionalExactScalars(at, n, want) ==
  IF want.given THEN expectExactScalars(at, n, want.map)
  ELSE Report(n # Nil, at, "unexpected mapping")

expectExactStringSequence(at, n, want) ==
  IF n.kind # "seq" THEN {Finding(at, "missing or not a sequence")}
  ELSE LET got == SelectSeq(n.items, LAMBDA i : i.kind = "scalar")
       IN  Report(Len(got) < Len(n.items), at, "must be a scalar")
           \cup Report([i \in DOMAIN got |-> got[i].text] # Lines(want), at, "sequence")

TrimSpace(line) == IF line \in DOMAIN Padded THEN Padded[line] ELSE line

\* A comment or blank line.
Note(line) == TrimSpace(line) \in Comment \cup {""}


\* Blank lines and comments do not count, and neither does white space.
scriptLines(run) ==
  LET kept == SelectSeq(run, LAMBDA line : ~Note(line))
  IN  [i \in DOMAIN kept |-> TrimSpace(kept[i])]

RECURSIVE checkDuplicateKeys(_, _)
checkDuplicateKeys(at, n) ==
  LET keys == mapKeys(n)
  IN  {Finding(at \o <<keys[i]>>, "duplicate YAML key") : i \in
         {j \in DOMAIN keys : \E k \in 1..j - 1 : keys[k] = keys[j]}}
      \cup UNION {checkDuplicateKeys(at \o <<keys[i]>>, Pairs(n)[i][2]) : i \in DOMAIN keys}
      \cup UNION {checkDuplicateKeys(at, Items(n)[i]) : i \in DOMAIN Items(n)}

----------------------------------------------------------------------------
(* The catalogue and the parts of the workflow                             *)

\* The first job of each concept is not reported.
checkAcceptedReleasePolicyCatalogue ==
  {Finding(<<"policy", policy.jobs[i].name>>, "concept") : i \in
     {j \in DOMAIN policy.jobs :
        \/ policy.jobs[j].concept = ""
        \/ \E k \in 1..j - 1 : policy.jobs[k].concept = policy.jobs[j].concept}}
  \cup {Finding(<<"policy", policy.requiredConfigs[i].path>>, "config") : i \in
     {j \in DOMAIN policy.requiredConfigs :
        \/ policy.requiredConfigs[j].path = ""
        \/ policy.requiredConfigs[j].sourceName = ""
        \/ \E k \in 1..j - 1 :
             policy.requiredConfigs[k].path = policy.requiredConfigs[j].path}}

checkRoot ==
  Report(root.kind # "map", <<"$">>, "workflow must be a mapping")
  \cup Report(~sameStringSet(mapKeys(root), policy.rootKeys), <<"$">>, "root keys")
  \cup expectExactScalar(<<"name">>, mapping(root, "name"), policy.workflowName)
  \cup expectExactScalars(<<"env">>, mapping(root, "env"), policy.env)
  \cup expectExactScalars(<<"concurrency">>, mapping(root, "concurrency"), policy.concurrency)

checkTriggers ==
  LET on == mapping(root, "on")
      push == mapping(on, "push")
  IN  IF on = Nil THEN {Finding(<<"on">>, "missing trigger block")}
      ELSE Report(~sameStringSet(mapKeys(on), policy.triggerKeys), <<"on">>, "keys")
           \cup (IF push = Nil THEN {Finding(<<"on", "push">>, "missing")}
                 ELSE Report(~sameStringSet(mapKeys(push), policy.pushKeys),
                             <<"on", "push">>, "keys")
                      \cup Report(~sameStringSet(seqStrings(mapping(push, "tags")),
                                                 Lines(policy.pushTags)),
                                  <<"on", "push", "tags">>, "tags"))
           \cup Report(mapping(on, "workflow_dispatch") = Nil,
                       <<"on", "workflow_dispatch">>, "missing")

checkTopPermissions ==
  LET permissions == mapping(root, "permissions")
      at == <<"permissions">>
  IN  IF permissions = Nil THEN {Finding(at, "missing top-level permissions")}
      ELSE expectExactScalar(at, mapping(permissions, "contents"),
                             policy.topPermission["contents"])
           \cup {Finding(at \o <<k>>, "unexpected top-level permission") :
                   k \in Range(mapKeys(permissions)) \ DOMAIN policy.topPermission}

jobNames == {policy.jobs[i].name : i \in DOMAIN policy.jobs}

checkJobSet(jobs) ==
  {Finding(<<"jobs", name>>, "missing required job") :
     name \in {j \in jobNames : mapping(jobs, j) = Nil}}
  \cup {Finding(<<"jobs", name>>, "unexpected job") : name \in Range(mapKeys(jobs)) \ jobNames}

----------------------------------------------------------------------------
(* Jobs and steps                                                          *)

checkAcceptedJobEnvelope(at, job, want) ==
  expectOnlyKeys(at, job, {"name", "if", "needs", "runs-on", "timeout-minutes",
                           "permissions", "outputs", "steps"})
  \cup expectExactScalar(at, mapping(job, "name"), want.displayName)
  \cup expectExactScalar(at, mapping(job, "runs-on"), want.runsOn)
  \cup expectExactScalar(at, mapping(job, "timeout-minutes"), want.timeoutMinutes)
  \cup expectExactScalar(at, mapping(job, "if"), want.ifCond)

\* A job that needs nothing does not have the key at all.
checkAcceptedJobNeeds(at, job, want) ==
  Report(IF want.needs = <<>> THEN mapping(job, "needs") # Nil
         ELSE ~sameStringSet(needs(job), Lines(want.needs)), at, "needs")

checkAcceptedJobPermissions(at, job, want) ==
  expectOptionalExactScalars(at, mapping(job, "permissions"), want.permissions)

checkAcceptedJobOutputs(at, job, want) ==
  expectOptionalExactScalars(at, mapping(job, "outputs"), want.outputs)

\* The name of a step, or the action it uses.
stepIdentity(step) ==
  LET name == scalar(mapping(step, "name"))
      uses == scalar(mapping(step, "uses"))
  IN  CASE name # <<"">> -> name
        [] name = <<"">> /\ uses # <<"">> -> <<"uses:", Uses(uses).action>>
        [] OTHER -> <<"unnamed">>

checkAcceptedStep(at, step, want) ==
  LET uses == mapping(step, "uses")
      run == mapping(step, "run")
  IN  expectOnlyKeys(at, step, {"name", "id", "if", "uses", "run", "with", "env",
                                "shell", "continue-on-error"})
      \cup expectOptionalExactScalar(at, mapping(step, "name"), want.name)
      \cup expectOptionalExactScalar(at, mapping(step, "id"), want.id)
      \cup expectOptionalExactScalar(at, mapping(step, "if"), want.ifCond)
      \cup expectOptionalExactScalar(at, mapping(step, "shell"), want.shell)
      \cup expectOptionalExactScalar(at, mapping(step, "continue-on-error"),
                                     want.continueOnError)
      \cup (IF want.uses = "" THEN Report(uses # Nil, at, "unexpected uses")
            ELSE Report(\/ uses.kind # "scalar"
                        \/ Uses(scalar(uses)).action # want.uses
                        \/ Uses(scalar(uses)).version = "none", at, "uses"))
      \cup (IF want.runLines = <<>> THEN Report(run # Nil, at, "unexpected run")
            ELSE Report(run.kind # "scalar" \/ scriptLines(scalar(run)) # want.runLines,
                        at, "run"))
      \cup expectOptionalExactScalars(at, mapping(step, "with"), want.with)
      \cup expectOptionalExactScalars(at, mapping(step, "env"), want.env)

\* The steps are compared one by one only if their identities agree.
checkAcceptedJobSteps(at, job, want) ==
  LET got == steps(job)
  IN  IF [i \in DOMAIN got |-> stepIdentity(got[i])]
           # [i \in DOMAIN want.steps |-> want.steps[i].identity]
      THEN {Finding(at, "steps")}
      ELSE UNION {checkAcceptedStep(at, got[i], want.steps[i]) : i \in DOMAIN got}

checkAcceptedJobs(jobs) ==
  UNION {LET want == policy.jobs[i]
             at == <<"jobs", want.name>>
             job == mapping(jobs, want.name)
         IN  IF job = Nil THEN {}
             ELSE checkAcceptedJobEnvelope(at, job, want)
                  \cup checkAcceptedJobNeeds(at, job, want)
                  \cup checkAcceptedJobPermissions(at, job, want)
                  \cup checkAcceptedJobOutputs(at, job, want)
                  \cup checkAcceptedJobSteps(at, job, want)
         : i \in DOMAIN policy.jobs}

----------------------------------------------------------------------------
(* Checks over the steps of all jobs, accepted or not                      *)

AllSteps(jobs) ==
  UNION {Range(steps(mapping(jobs, name))) : name \in Range(mapKeys(jobs))}

actionUses(jobs) ==
  {scalar(mapping(step, "uses")) : step \in AllSteps(jobs)} \ {<<"">>}

runSteps(jobs) == {scalar(mapping(step, "run")) : step \in AllSteps(jobs)} \ {<<"">>}

checkActionPins(jobs) ==
  {Finding(uses, "action must be pinned") : uses \in
     {u \in actionUses(jobs) : \/ Uses(u).version # "sha"
                               \/ Uses(u).action = ""}}

\* Only the jobs that the policy does not know; the others are compared above.
checkCheckoutCredentials(jobs) ==
  UNION {expectExactScalars(<<"jobs", "with">>, mapping(step, "with"),
                            [k \in {"persist-credentials"} |-> "false"]) : step \in
           {s \in UNION {Range(steps(mapping(jobs, name))) :
                           name \in Range(mapKeys(jobs)) \ jobNames} :
              /\ scalar(mapping(s, "uses")) # <<"">>
              /\ LET u == Uses(scalar(mapping(s, "uses")))
                 IN  u.action = "actions/checkout" /\ u.version # "none"}}


checkNoRunExpressions(jobs) ==
  {Finding(run, "expression in run step") : run \in
     {r \in runSteps(jobs) : Range(r) \cap Expression # {}}}

\* Defects of the catalogue are reported alone, and so are duplicate keys.
checkWorkflowAgainstPolicy ==
  LET jobs == mapping(root, "jobs")
      catalogue == checkAcceptedReleasePolicyCatalogue
      duplicates == checkDuplicateKeys(<<"$">>, root)
      top == checkRoot \cup checkTriggers \cup checkTopPermissions
  IN  CASE catalogue # {} -> catalogue
        [] catalogue = {} /\ duplicates # {} -> duplicates
        [] catalogue \cup duplicates = {} /\ jobs = Nil ->
             top \cup {Finding(<<"jobs">>, "missing jobs")}
        [] OTHER -> top
                    \cup checkJobSet(jobs)
                    \cup checkAcceptedJobs(jobs)
                    \cup checkActionPins(jobs)
                    \cup checkCheckoutCredentials(jobs)
                    \cup checkNoRunExpressions(jobs)

----------------------------------------------------------------------------
(* The other files.  What is at a path has a kind, and for a file its text *)
(* and whether it is executable; for a link these are its target's.        *)

\* The lines are compared; \r\n and \n end a line alike.
checkAllowedSigners ==
  LET f == files["allowed_signers"]
  IN  Report(\/ f.kind \notin {"file", "link"}
             \/ [i \in DOMAIN f.body |-> f.body[i].line] # policy.expectedSigners,
             <<"allowed_signers">>, "signing keys")

\* os.Stat: a link to an executable file will do.
checkRequiredScripts ==
  {Finding(<<path>>, "missing or not executable") : path \in
     {p \in policy.requiredScripts :
        files[p].kind \in {"missing", "dangling", "dir"} \/ ~files[p].exec}}

checkSyftReleaseConfig(at, n, want) ==
  LET duplicates == checkDuplicateKeys(at, n)
  IN  IF duplicates # {} THEN duplicates
      ELSE IF n.kind # "map" THEN {Finding(at, "release config must be a mapping")}
      ELSE expectOnlyKeys(at, n, {"source", "exclude"})
           \cup expectExactScalars(at, mapping(n, "source"),
                                   [k \in {"name"} |-> want.sourceName])
           \cup expectExactStringSequence(at, mapping(n, "exclude"), want.excludes)

\* os.Lstat: a link will not do.
checkRequiredConfigs ==
  UNION {LET want == policy.requiredConfigs[i]
             f == files[want.path]
         IN  IF f.kind # "file" \/ f.body.kind = "unreadable"
             THEN {Finding(<<want.path>>, "missing, or not a regular YAML file")}
             ELSE checkSyftReleaseConfig(<<want.path>>, f.body, want)
         : i \in DOMAIN policy.requiredConfigs}

\* A workflow that does not load is an error (exit status 2).
ExitStatus ==
  IF root.kind = "unreadable" THEN 2
  ELSE IF checkWorkflowAgainstPolicy \cup checkAllowedSigners
          \cup checkRequiredScripts \cup checkRequiredConfigs # {}
  THEN 1 ELSE 0

----------------------------------------------------------------------------
(* The repository the policy describes                                     *)

Pair(key, value) == <<<<key, Scalar(value)>>>>
Optional(key, value) == IF value = "" THEN <<>> ELSE Pair(key, value)
Fields(f) == Map([i \in DOMAIN SetToSeq(DOMAIN f) |->
                    <<SetToSeq(DOMAIN f)[i], Scalar(f[SetToSeq(DOMAIN f)[i]])>>])
OptionalFields(key, f) == IF f.given THEN <<<<key, Fields(f.map)>>>> ELSE <<>>
ScalarList(names) == List([i \in DOMAIN names |-> Scalar(names[i])])

StepTree(s) ==
  Map(Optional("name", s.name) \o Optional("id", s.id) \o Optional("if", s.ifCond)
      \o Optional("shell", s.shell) \o Optional("continue-on-error", s.continueOnError)
      \o (IF s.uses = "" THEN <<>>
          ELSE Pair("uses", CHOOSE u \in DOMAIN UsesText :
                              UsesText[u] = [action |-> s.uses, version |-> "sha"]))
      \o (IF s.runLines = <<>> THEN <<>> ELSE <<<<"run", Text(s.runLines)>>>>)
      \o OptionalFields("with", s.with) \o OptionalFields("env", s.env))

JobTree(j) ==
  Map(Pair("name", j.displayName) \o Pair("runs-on", j.runsOn)
      \o Pair("timeout-minutes", j.timeoutMinutes) \o Pair("if", j.ifCond)
      \o (IF j.needs = <<>> THEN <<>> ELSE <<<<"needs", ScalarList(j.needs)>>>>)
      \o OptionalFields("permissions", j.permissions)
      \o OptionalFields("outputs", j.outputs)
      \o <<<<"steps", List([i \in DOMAIN j.steps |-> StepTree(j.steps[i])])>>>>)

WorkflowTree(p) ==
  Map(Pair("name", p.workflowName)
      \o <<<<"on", Map(<<<<"push", Map(<<<<"tags", ScalarList(p.pushTags)>>>>)>>,
                         <<"workflow_dispatch", Scalar("")>>>>)>>,
           <<"permissions", Fields(p.topPermission)>>,
           <<"env", Fields(p.env)>>,
           <<"concurrency", Fields(p.concurrency)>>,
           <<"jobs", Map([i \in DOMAIN p.jobs |->
                            <<p.jobs[i].name, JobTree(p.jobs[i])>>])>>>>)

ConfigTree(c) ==
  Map(<<<<"source", Map(Pair("name", c.sourceName))>>,
        <<"exclude", ScalarList(c.excludes)>>>>)

File(exec, body) == [kind |-> "file", exec |-> exec, body |-> body]
Other(kind) == [kind |-> kind, exec |-> FALSE, body |-> Nil]
LinkTo(f) == [f EXCEPT !.kind = "link"]
Keys(p, crlf) == [i \in DOMAIN p.expectedSigners |->
                    [line |-> p.expectedSigners[i], crlf |-> crlf]]
Configs(p) == Range(p.requiredConfigs)

\* The files as the policy wants them.
FilesOf(p) ==
  [path \in {"allowed_signers"} \cup p.requiredScripts \cup {c.path : c \in Configs(p)} |->
     IF path = "allowed_signers" THEN File(FALSE, Keys(p, FALSE))
     ELSE IF path \in p.requiredScripts THEN File(TRUE, Nil)
     ELSE File(FALSE, ConfigTree(CHOOSE c \in Configs(p) : c.path = path))]

Init ==
  /\ policy \in Policies
  /\ root = WorkflowTree(policy)
  /\ files = FilesOf(policy)
  /\ edits = 0

----------------------------------------------------------------------------
(* Edits: one place of a tree is changed, or one file.                     *)

Unreadable == [kind |-> "unreadable"]

Replacements == {Scalar(""), Scalar("other"), Map(<<>>), List(<<>>), Alias}

\* What a text may become: a script or an action reference, lines or a version.
TextEdits(key, n) ==
  IF n.kind # "scalar" THEN {}
  ELSE CASE key = "run" ->
              {Text(InsertAt(n.text, i, l)) :
                 i \in 1..Len(n.text) + 1, l \in Comment \cup {"", "other"}}
              \cup {Text(RemoveAt(n.text, i)) : i \in {j \in DOMAIN n.text : Len(n.text) > 1}}
              \cup UNION {{Text([n.text EXCEPT ![i] = l]) :
                             l \in {k \in DOMAIN Padded : Padded[k] = n.text[i]}} :
                            i \in DOMAIN n.text}
         [] key = "uses" -> {Scalar(u) : u \in DOMAIN UsesText}
         [] key = "needs" -> {}
         [] OTHER -> {List(<<n>>)}

RECURSIVE Variants(_, _)
Variants(key, n) ==
  Replacements
  \cup TextEdits(key, n)
  \cup (IF n.kind = "map"
        THEN {Map(RemoveAt(n.pairs, i)) : i \in DOMAIN n.pairs}
             \cup {Map(n.pairs \o <<n.pairs[i]>>) : i \in DOMAIN n.pairs}
             \cup {Map(n.pairs \o Pair("extra", "other")), Map(Reverse(n.pairs))}
             \cup UNION {{Map([n.pairs EXCEPT ![i][2] = v]) :
                             v \in Variants(n.pairs[i][1], n.pairs[i][2])} :
                           i \in DOMAIN n.pairs}
        ELSE {})
  \cup (IF n.kind = "seq"
        THEN {List(RemoveAt(n.items, i)) : i \in DOMAIN n.items}
             \cup {List(n.items \o <<n.items[i]>>) : i \in DOMAIN n.items}
             \cup {List(Reverse(n.items))}
             \cup (IF key = "needs" /\ Len(n.items) = 1 THEN {n.items[1]} ELSE {})
             \cup UNION {{List([n.items EXCEPT ![i] = v]) : v \in Variants("", n.items[i])} :
                           i \in DOMAIN n.items}
        ELSE {})

EditWorkflow ==
  /\ root.kind # "unreadable"
  /\ root' \in Variants("", root) \cup {Unreadable}
  /\ UNCHANGED files

\* What may be put in place of a file, by what the file is for.
FileEdits(path) ==
  {Other(k) : k \in {"missing", "dangling", "dir"}} \cup
  CASE path = "allowed_signers" ->
         LET kept == {Keys(policy, crlf) : crlf \in BOOLEAN}
         IN  {File(FALSE, body) : body \in kept \cup {Tail(k) : k \in kept}}
             \cup {LinkTo(File(FALSE, body)) : body \in kept}
    [] path \in policy.requiredScripts ->
         UNION {{File(exec, Nil), LinkTo(File(exec, Nil))} : exec \in BOOLEAN}
    [] OTHER ->
         LET body == IF files[path].kind = "file" THEN files[path].body ELSE Nil
         IN  {Other("pipe"), LinkTo(File(FALSE, body)), File(FALSE, Unreadable)}
             \cup {File(FALSE, v) : v \in Variants("", body)}

EditFile ==
  /\ \E path \in DOMAIN files :
       \E f \in FileEdits(path) : files' = [files EXCEPT ![path] = f]
  /\ UNCHANGED root

\* No job without a concept or sharing one, no config incomplete or repeated.
CatalogueSound ==
  /\ \A i \in DOMAIN policy.jobs : policy.jobs[i].concept # ""
  /\ Cardinality({j.concept : j \in Range(policy.jobs)}) = Len(policy.jobs)
  /\ \A c \in Configs(policy) : c.path # "" /\ c.sourceName # ""
  /\ Cardinality({c.path : c \in Configs(policy)}) = Len(policy.requiredConfigs)

\* Nothing is edited under a defective catalogue (a bound of the model).
Next ==
  /\ CatalogueSound
  /\ edits < MaxEdits
  /\ edits' = edits + 1
  /\ EditWorkflow \/ EditFile
  /\ UNCHANGED policy

Spec == Init /\ [][Next]_vars

----------------------------------------------------------------------------
(* What the checker is meant to guarantee, said without its steps.         *)

KeySet(n) == {n.pairs[i][1] : i \in DOMAIN n.pairs}

RECURSIVE KeysDistinct(_)
KeysDistinct(n) ==
  CASE n.kind = "map" -> /\ Cardinality(KeySet(n)) = Len(n.pairs)
                         /\ \A i \in DOMAIN n.pairs : KeysDistinct(n.pairs[i][2])
    [] n.kind = "seq" -> \A i \in DOMAIN n.items : KeysDistinct(n.items[i])
    [] OTHER -> TRUE

AsList(n) == IF n.kind = "seq" THEN n.items ELSE <<n>>

(***************************************************************************)
(* The commands a shell makes of a script, each the lines it is written    *)
(* on.  A line that ends in a backslash goes on in the next.  With cuts, a *)
(* comment or blank line there ends the command, and white space after the *)
(* backslash keeps it from going on: so a shell reads it.  Without, both   *)
(* are overlooked.                                                         *)
(***************************************************************************)
Commands(text, cuts) ==
  LET GoesOn(line) == (IF cuts THEN line ELSE TrimSpace(line)) \in Continued
      Read(sofar, line) ==
        CASE Note(line) /\ (sofar.open = <<>> \/ ~cuts) -> sofar
          [] ~Note(line) /\ GoesOn(line) ->
               [sofar EXCEPT !.open = Append(@, TrimSpace(line))]
          [] OTHER ->
               [ended |-> Append(sofar.ended,
                                 IF Note(line) THEN sofar.open
                                 ELSE Append(sofar.open, TrimSpace(line))),
                open |-> <<>>]
      all == FoldLeft(Read, [ended |-> <<>>, open |-> <<>>], text)
  IN  IF all.open = <<>> THEN all.ended ELSE Append(all.ended, all.open)

(***************************************************************************)
(* Tree n is as the accepted tree w, up to this: mappings may be written   *)
(* in any order and needs in any order or as one name; a script has no     *)
(* expression and the accepted commands, overlooking what may cut them     *)
(* short; a uses value may have any commit of the same action; what is     *)
(* below workflow_dispatch is free.                                        *)
(***************************************************************************)
RECURSIVE Alike(_, _, _)
Alike(key, n, w) ==
  CASE key = "workflow_dispatch" -> TRUE
    [] key = "needs" ->
         /\ n.kind \in {"seq", "scalar"}
         /\ Len(AsList(n)) = Len(AsList(w)) /\ Range(AsList(n)) = Range(AsList(w))
    [] key = "run" ->
         /\ n.kind = "scalar"
         /\ Range(n.text) \cap Expression = {}
         /\ Commands(n.text, FALSE) = Commands(w.text, FALSE)
    [] key = "uses" ->
         /\ n.kind = "scalar"
         /\ n.text[1] \in DOMAIN UsesText
         /\ UsesText[n.text[1]] = UsesText[w.text[1]]
    [] OTHER ->
         /\ n.kind = w.kind
         /\ n.kind = "scalar" => n.text = w.text
         /\ n.kind = "map" =>
              /\ KeySet(n) = KeySet(w)
              /\ \A k \in KeySet(w) : Alike(k, mapping(n, k), mapping(w, k))
         /\ n.kind = "seq" =>
              /\ Len(n.items) = Len(w.items)
              /\ \A i \in DOMAIN w.items : Alike("", n.items[i], w.items[i])

FilesAsRequired ==
  /\ files["allowed_signers"].kind \in {"file", "link"}
  /\ \E crlf \in BOOLEAN : files["allowed_signers"].body = Keys(policy, crlf)
  /\ \A p \in policy.requiredScripts :
       files[p].kind \in {"file", "link"} /\ files[p].exec
  /\ \A c \in Configs(policy) :
       /\ files[c.path].kind = "file"
       /\ files[c.path].body # Unreadable
       /\ KeysDistinct(files[c.path].body)
       /\ Alike("", files[c.path].body, ConfigTree(c))


\* A comment or blank line, or white space, comes where a command goes on.
CutShort(text) ==
  \E i \in DOMAIN text :
    \/ text[i] \in Continued /\ i < Len(text) /\ Note(text[i + 1])
    \/ text[i] \notin Continued /\ TrimSpace(text[i]) \in Continued


=============================================================================
