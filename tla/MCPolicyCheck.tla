---------------------------- MODULE MCPolicyCheck ----------------------------
(* A policy with two jobs that together use every field of the catalogue.  *)
EXTENDS PolicyCheck, TLC

MCComment == {"# note", "# ${{ x }}"}
MCPadded == "  scan" :> "scan" @@ "gh \\ " :> "gh \\"
MCContinued == {"gh \\"}
MCExpression == {"# ${{ x }}", "${{ x }}"}
MCUsesText ==
  "actions/checkout@1f" :> [action |-> "actions/checkout", version |-> "sha"] @@
  "actions/checkout@2e" :> [action |-> "actions/checkout", version |-> "sha"] @@
  "actions/checkout@v4" :> [action |-> "actions/checkout", version |-> "tag"] @@
  "actions/checkout"    :> [action |-> "actions/checkout", version |-> "none"] @@
  "anchore/action@3d"   :> [action |-> "anchore/action", version |-> "sha"]

Step == [identity |-> <<"unnamed">>, name |-> "", uses |-> "", runLines |-> <<>>,
         with |-> NotGiven, env |-> NotGiven, id |-> "", ifCond |-> "",
         shell |-> "", continueOnError |-> ""]

checkoutStep == [Step EXCEPT !.identity = <<"uses:", "actions/checkout">>,
                             !.uses = "actions/checkout",
                             !.with = Given("persist-credentials" :> "false")]

Gate == [concept |-> "gate", name |-> "gosec", displayName |-> "Gosec",
         runsOn |-> "ubuntu", timeoutMinutes |-> "5", ifCond |-> "tag guard",
         needs |-> <<>>, permissions |-> NotGiven,
         outputs |-> Given("file" :> "${{ x }}"),
         steps |-> <<checkoutStep,
                     [Step EXCEPT !.identity = <<"Scan">>, !.name = "Scan",
                                  !.runLines = <<"scan", "report">>, !.id = "scan",
                                  !.continueOnError = "true"]>>]

Publish == [Gate EXCEPT !.concept = "publish", !.name = "release",
              !.needs = <<"gosec">>, !.outputs = NotGiven,
              !.permissions = Given("contents" :> "write"),
              !.steps = <<[Step EXCEPT !.identity = <<"Upload">>, !.name = "Upload",
                                       !.ifCond = "push", !.shell = "bash",
                                       !.runLines = <<"gh \\", "--verify-tag">>,
                                       !.env = Given("TAG" :> "${{ x }}")]>>]

Config == [path |-> "syft.yaml", sourceName |-> "module", excludes |-> <<"git", "ras">>]

Accepted ==
  [workflowName |-> "Release",
   rootKeys |-> <<"name", "on", "permissions", "env", "concurrency", "jobs">>,
   env |-> "GOTOOLCHAIN" :> "local",
   concurrency |-> "group" :> "ref" @@ "cancel-in-progress" :> "false",
   triggerKeys |-> <<"push", "workflow_dispatch">>,
   pushKeys |-> <<"tags">>, pushTags |-> <<"v*">>,
   topPermission |-> "contents" :> "read",
   jobs |-> <<Gate, Publish>>,
   requiredScripts |-> {"tag-policy.sh"},
   requiredConfigs |-> <<Config>>,
   expectedSigners |-> <<"key 1", "key 2">>]

MCPolicies == {Accepted,
               [Accepted EXCEPT !.jobs[2].concept = "gate"],
               [Accepted EXCEPT !.jobs[1].concept = ""],
               [Accepted EXCEPT !.requiredConfigs = <<Config, Config>>],
               [Accepted EXCEPT !.requiredConfigs[1].sourceName = ""]}

=============================================================================
