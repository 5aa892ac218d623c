----------------------------- MODULE CloudDeploy -----------------------------
(***************************************************************************)
(* scripts/cloud_deploy.py: one operator runs its commands one after the   *)
(* other; each is a list of steps, every step a call of a cloud CLI, of    *)
(* ssh or of save_manifest.  Any of them can fail, and the script can be   *)
(* stopped before any of them: the command ends there, and the operator    *)
(* runs a command again.  What the next command does depends on what the   *)
(* manifests in dist/live and the clouds hold by then.                     *)
(*                                                                         *)
(* The clouds are external.  AWS names are fresh in every attempt (the     *)
(* deploy id is the clock); Azure and GCP names are fixed.                 *)
(***************************************************************************)
EXTENDS Integers, FiniteSets, SequencesExt

CONSTANTS
  MaxCommands,   \* bound: commands the operator runs
  MaxFailures,   \* bound: commands that fail or are stopped
  MaxReplaces    \* bound: commands with --replace

ASSUME BoundsAssumption ==
  MaxCommands \in Nat /\ MaxFailures \in Nat /\ MaxReplaces \in Nat

VARIABLES
  todo,       \* the steps the running command has left
  replace,    \* its --replace flag
  attempt,    \* its deploy id, when it provisions AWS
  seeded,     \* its health["portfolio_seeded"]
  ec2,        \* AWS: the attempts that own a resource of each kind
  azure,      \* Azure: the resources that exist
  gcp,        \* GCP: the resources that exist
  app,        \* the environment of the Container App, Nil before it exists
  hosts,      \* the environment of each bootstrapped VM
  portfolio,  \* whether the risk peer has the demo portfolio
  live,       \* the manifests of dist/live
  completed,  \* observer: the last command, when it completed
  used        \* how much of each bound is spent

local == <<replace, attempt, seeded>>
cloud == <<ec2, azure, gcp, app, hosts, portfolio>>
vars  == <<todo, local, cloud, live, completed, used>>

Nil == << >>

Bounds    == {"commands", "failures", "replaces"}
Manifests == {"aws", "azure", "gcp", "status"}

NoUrl     == "None"
Fqdn      == "https://fqdn"
Bootstrap == "https://bootstrap.invalid"

\* VM addresses are numbers: that of the GCP VM, else the AWS attempt's own.
GcpIp == 0

-----------------------------------------------------------------------------
(* The steps of each command.                                              *)

\* Mutant: the manifest is written as soon as the address is known.
provision_aws_SaveEarly ==
  <<"reuse_aws", "import_key", "create_group", "run_instances",
    "allocate_address", "save_aws", "associate_address">>

provision_aws ==
  <<"reuse_aws", "import_key", "create_group", "run_instances",
    "allocate_address", "associate_address", "save_aws">>

AzureResources == <<"group", "environment", "registry", "storage", "container">>

provision_azure == <<"ensure_azure", "save_azure">>

provision_gcp == <<"reuse_gcp", "firewall", "instance", "save_gcp">>

deploy_azure_container_app == <<"build_image", "put_app", "fix_base_url", "save_app">>

bootstrap_hosts ==
  <<"check_manifests">> \o deploy_azure_container_app \o
  <<"remote_aws", "remote_gcp", "seed_portfolio", "save_status">>

go_live == provision_aws \o provision_azure \o provision_gcp \o bootstrap_hosts

Program(command) ==
  CASE command = "provision-aws"   -> provision_aws
    [] command = "provision-azure" -> provision_azure
    [] command = "provision-gcp"   -> provision_gcp
    [] command = "deploy-azure"    -> <<"check_deploy">> \o deploy_azure_container_app
    [] command = "bootstrap"       -> bootstrap_hosts
    [] command = "go-live"         -> go_live

Commands == {"provision-aws", "provision-azure", "provision-gcp",
             "deploy-azure", "bootstrap", "go-live"}

-----------------------------------------------------------------------------
Init ==
  /\ todo = << >> /\ replace = FALSE /\ attempt = 0 /\ seeded = FALSE
  /\ ec2 = [keys |-> {}, groups |-> {}, instances |-> {}, addresses |-> {}, attached |-> {}]
  /\ azure = {} /\ gcp = {} /\ app = Nil /\ hosts = << >> /\ portfolio = FALSE
  /\ live = [m \in Manifests |-> Nil]
  /\ completed = "none"
  /\ used = [b \in Bounds |-> 0]

\* main
Start ==
  /\ todo = << >>
  /\ used["commands"] < MaxCommands
  /\ \E command \in Commands, flag \in BOOLEAN :
       /\ flag => used["replaces"] < MaxReplaces
       /\ todo' = Append(Program(command), command)
       /\ replace' = flag
       /\ used' = [used EXCEPT !["commands"] = @ + 1,
                               !["replaces"] = IF flag THEN @ + 1 ELSE @]
  /\ attempt' = used'["commands"] /\ seeded' = FALSE
  /\ completed' = "none"
  /\ UNCHANGED <<cloud, live>>

\* The running command is at this step, or at one of these.
At(step) == todo # << >> /\ Head(todo) = step
AtAny(steps) == todo # << >> /\ Head(todo) \in steps

Skip(n) == todo' = SubSeq(todo, n + 1, Len(todo))

Advance == Skip(1) /\ UNCHANGED <<local, completed, used>>

\* SystemExit, or the script is stopped.  write_text empties the file before it
\* writes it, and load_manifest takes an empty file for a missing one.
Abort(manifests) ==
  /\ todo' = << >>
  /\ used' = [used EXCEPT !["failures"] = @ + 1]
  /\ \/ UNCHANGED live
     \/ \E m \in manifests : live' = [live EXCEPT ![m] = Nil]
  /\ UNCHANGED <<local, cloud, completed>>

\* The manifest that the step at hand writes.
Writing ==
  CASE At("save_aws") -> {"aws"}
    [] At("save_azure") \/ At("save_app") -> {"azure"}
    [] At("save_gcp") -> {"gcp"}
    [] At("save_status") -> {"status"}
    [] OTHER -> {}

Fail ==
  /\ todo # << >>
  /\ used["failures"] < MaxFailures
  /\ Abort(Writing)

Complete ==
  /\ Len(todo) = 1
  /\ completed' = Head(todo)
  /\ todo' = << >>
  /\ UNCHANGED <<local, cloud, live, used>>

-----------------------------------------------------------------------------
(* provision_aws                                                           *)

\* Mutant: an existing manifest is ignored.
ReusesAws_Never == FALSE

ReusesAws == live["aws"] # Nil /\ ~replace

ReuseAws ==
  /\ At("reuse_aws")
  /\ IF ReusesAws THEN Skip(Len(provision_aws)) ELSE Skip(1)
  /\ UNCHANGED <<local, cloud, live, completed, used>>

\* One call that creates a resource of its own for this attempt.
CreateEc2(step, kind) ==
  /\ At(step)
  /\ ec2' = [ec2 EXCEPT ![kind] = @ \union {attempt}]
  /\ Advance
  /\ UNCHANGED <<azure, gcp, app, hosts, portfolio, live>>

ProvisionEc2 ==
  \/ CreateEc2("import_key", "keys")
  \/ CreateEc2("create_group", "groups")
  \/ CreateEc2("run_instances", "instances")
  \/ CreateEc2("allocate_address", "addresses")
  \/ CreateEc2("associate_address", "attached")

SaveAws ==
  /\ At("save_aws")
  /\ live' = [live EXCEPT !["aws"] = [public_ip |-> attempt]]
  /\ Advance
  /\ UNCHANGED cloud

-----------------------------------------------------------------------------
(* provision_azure                                                         *)

\* Every resource is looked up and created when missing, in this order; a
\* failure may leave any number of them behind.
EnsureAzure ==
  /\ At("ensure_azure")
  /\ \/ ToSet(AzureResources) \subseteq azure /\ Skip(1) /\ UNCHANGED azure
     \/ \E i \in DOMAIN AzureResources :
          /\ AzureResources[i] \notin azure /\ \A j \in 1..(i - 1) : AzureResources[j] \in azure
          /\ azure' = azure \union {AzureResources[i]}
          /\ UNCHANGED todo
  /\ UNCHANGED <<local, ec2, gcp, app, hosts, portfolio, live, completed, used>>

\* base_url is the app's own host name, None when there is no app yet or when
\* load_containerapp fails, which it takes for a missing app.
SaveAzure ==
  /\ At("save_azure")
  /\ \/ live' = [live EXCEPT !["azure"] =
                   [base_url |-> IF app = Nil THEN NoUrl ELSE Fqdn]]
     \/ live' = [live EXCEPT !["azure"] = [base_url |-> NoUrl]]
  /\ Advance
  /\ UNCHANGED cloud

-----------------------------------------------------------------------------
(* provision_gcp                                                           *)

ReuseGcp ==
  /\ At("reuse_gcp")
  /\ IF live["gcp"] # Nil /\ ~replace THEN Skip(Len(provision_gcp)) ELSE Skip(1)
  /\ UNCHANGED <<local, cloud, live, completed, used>>

EnsureGcp ==
  /\ \E r \in {"firewall", "instance"} : At(r) /\ gcp' = gcp \union {r}
  /\ Advance
  /\ UNCHANGED <<ec2, azure, app, hosts, portfolio, live>>

SaveGcp ==
  /\ At("save_gcp")
  /\ live' = [live EXCEPT !["gcp"] = [public_ip |-> GcpIp]]
  /\ Advance
  /\ UNCHANGED cloud

-----------------------------------------------------------------------------
(* deploy_azure_container_app                                              *)

ManifestsPresent == \A m \in {"aws", "azure", "gcp"} : live[m] # Nil

CheckDeploy ==
  /\ At("check_deploy") /\ ManifestsPresent
  /\ Advance
  /\ UNCHANGED <<cloud, live>>

BuildImage ==
  /\ At("build_image")
  /\ Advance
  /\ UNCHANGED <<cloud, live>>

azure_container_env_vars(base_url) ==
  [BASE_URL |-> base_url, REGISTRY_URL |-> live["aws"].public_ip]

provisional_base_url ==
  IF live["azure"].base_url = NoUrl THEN Bootstrap ELSE live["azure"].base_url

\* create, or secret set and update
PutApp ==
  /\ At("put_app")
  /\ app' = azure_container_env_vars(provisional_base_url)
  /\ Advance
  /\ UNCHANGED <<ec2, azure, gcp, hosts, portfolio, live>>

\* Now the app has a host name: tell it, unless it was told already.
FixBaseUrl ==
  /\ At("fix_base_url")
  /\ app' = IF provisional_base_url = Fqdn THEN app ELSE azure_container_env_vars(Fqdn)
  /\ Advance
  /\ UNCHANGED <<ec2, azure, gcp, hosts, portfolio, live>>

SaveApp ==
  /\ At("save_app")
  /\ live' = [live EXCEPT !["azure"] = [base_url |-> Fqdn]]
  /\ Advance
  /\ UNCHANGED cloud

-----------------------------------------------------------------------------
(* bootstrap_hosts                                                         *)

\* Mutant: the app is taken for deployed whatever the manifest says.
CheckManifests_NeverDeploys ==
  /\ At("check_manifests") /\ ManifestsPresent
  /\ Skip(1 + Len(deploy_azure_container_app))
  /\ UNCHANGED <<local, cloud, live, completed, used>>

\* The app is deployed only when its manifest has no URL.
CheckManifests ==
  /\ At("check_manifests") /\ ManifestsPresent
  /\ IF live["azure"].base_url = NoUrl THEN Skip(1)
     ELSE Skip(1 + Len(deploy_azure_container_app))
  /\ UNCHANGED <<local, cloud, live, completed, used>>

\* Missing live manifest(s): SystemExit.
MissingManifest ==
  /\ At("check_manifests") \/ At("check_deploy")
  /\ ~ManifestsPresent
  /\ todo' = << >>
  /\ UNCHANGED <<local, cloud, live, completed, used>>

Endpoints == [REGISTRY_URL |-> live["aws"].public_ip,
              ANOMALY_URL  |-> live["azure"].base_url,
              RISK_URL     |-> live["gcp"].public_ip]

\* upload_bundle and run_remote: bootstrap_quantian_host.sh on one VM.
RunRemote(step, host) ==
  /\ At(step)
  /\ hosts' = [h \in DOMAIN hosts \union {host} |-> IF h = host THEN Endpoints ELSE hosts[h]]
  /\ Advance
  /\ UNCHANGED <<ec2, azure, gcp, app, portfolio, live>>

RunRemotes ==
  RunRemote("remote_aws", live["aws"].public_ip) \/ RunRemote("remote_gcp", live["gcp"].public_ip)

\* The portfolio is posted if the risk peer is healthy by then; an error of the
\* call, which the peer may have executed, only ends up in the status.
SeedPortfolio ==
  /\ At("seed_portfolio")
  /\ \E executed, reported \in BOOLEAN :
       /\ reported => executed
       /\ portfolio' = (portfolio \/ executed)
       /\ seeded' = reported
  /\ Skip(1)
  /\ UNCHANGED <<replace, attempt, ec2, azure, gcp, app, hosts, live, completed, used>>

SaveStatus ==
  /\ At("save_status")
  /\ live' = [live EXCEPT !["status"] =
               [endpoints |-> Endpoints, portfolio_seeded |-> seeded]]
  /\ Advance
  /\ UNCHANGED cloud

-----------------------------------------------------------------------------
Next ==
  \/ Start \/ Fail \/ Complete
  \/ ReuseAws \/ ProvisionEc2 \/ SaveAws
  \/ EnsureAzure \/ SaveAzure
  \/ ReuseGcp \/ EnsureGcp \/ SaveGcp
  \/ CheckDeploy \/ BuildImage \/ PutApp \/ FixBaseUrl \/ SaveApp
  \/ CheckManifests \/ MissingManifest \/ RunRemotes
  \/ SeedPortfolio \/ SaveStatus

Spec == Init /\ [][Next]_vars

-----------------------------------------------------------------------------
(* Properties.                                                             *)

\* Type invariant.
TypeOK ==
  /\ {replace, seeded, portfolio} \subseteq BOOLEAN
  /\ attempt \in 0..MaxCommands /\ (todo # << >> => attempt > 0)
  /\ LET owners == SUBSET (1..MaxCommands)
     IN  ec2 \in [keys : owners, groups : owners, instances : owners, addresses : owners,
                  attached : owners]
  /\ azure \subseteq ToSet(AzureResources) /\ gcp \subseteq {"firewall", "instance"}
  /\ DOMAIN live = Manifests
  /\ live["aws"] \in {Nil} \union [public_ip : 1..MaxCommands]
  /\ live["azure"] \in {Nil} \union [base_url : {NoUrl, Fqdn}]
  /\ live["gcp"] \in {Nil} \union [public_ip : {GcpIp}]
  /\ completed \in Commands \union {"none"} /\ (todo # << >> => completed = "none")
  /\ used \in [Bounds -> Nat] /\ used["commands"] <= MaxCommands
  /\ used["failures"] <= MaxFailures /\ used["replaces"] <= MaxReplaces

\* A manifest names only what exists and is complete, wherever commands were
\* stopped: it is written after the last call that it tells of.
ManifestsAreLive ==
  /\ live["aws"] # Nil =>
       live["aws"].public_ip \in ec2.instances \intersect ec2.addresses \intersect ec2.attached
  /\ live["azure"] # Nil => azure = ToSet(AzureResources)
  /\ (live["azure"] # Nil /\ live["azure"].base_url # NoUrl) => app # Nil
  /\ live["gcp"] # Nil => gcp = {"firewall", "instance"}
  /\ (live["status"] # Nil /\ live["status"].portfolio_seeded) => portfolio

\* Instances that no manifest names cost money.
Orphans == ec2.instances \ (IF live["aws"] = Nil THEN {} ELSE {live["aws"].public_ip})

\* There is one for each failed command or replacement at most.
OrphansExplained ==
  Cardinality(Orphans)
    <= used["failures"] + used["replaces"] + (IF todo = << >> THEN 0 ELSE 1)

Deployed == completed \in {"go-live", "bootstrap"}

\* After a completed go-live or bootstrap, both VMs have the endpoints of the
\* deployment at hand, whatever failed or was replaced before.
HostsAgree ==
  Deployed =>
    \A h \in {live["aws"].public_ip, live["gcp"].public_ip} :
      hosts[h] = Endpoints /\ hosts[h].ANOMALY_URL = Fqdn

AppAgrees == app = azure_container_env_vars(Fqdn)

Undisturbed == used["failures"] = 0 /\ used["replaces"] = 0

\* If no command failed and none replaced AWS, the Container App too has its own
\* URL and that of the registry after a completed go-live or bootstrap.
AppAgreesUndisturbed == (Deployed /\ Undisturbed) => AppAgrees

\* deploy-azure repairs the app whatever happened before.
DeployRepairs == completed = "deploy-azure" => AppAgrees

\* What a completed command promises of the parts it deployed: the VMs agree, the
\* app agrees if nothing disturbed the deployment, and deploy-azure repairs it.
DeploymentAgrees == HostsAgree /\ AppAgreesUndisturbed /\ DeployRepairs

\* After a completed go-live or bootstrap the app is deployed as the VMs are.
GoLiveDeploysApp == Deployed => AppAgrees

-----------------------------------------------------------------------------
(* The inductive invariant: what a command has done by the step it is at.  *)

\* What is left is the end of a command's steps.
InProgram ==
  todo # << >> => \E c \in Commands :
    LET steps == Append(Program(c), c)
    IN  \E i \in DOMAIN steps : todo = SubSeq(steps, i, Len(steps))

ProvisionDone ==
  /\ AtAny({"allocate_address", "associate_address", "save_aws"}) => attempt \in ec2.instances
  /\ AtAny({"associate_address", "save_aws"}) => attempt \in ec2.addresses
  /\ At("save_aws") => attempt \in ec2.attached
  /\ At("save_azure") => azure = ToSet(AzureResources)
  /\ AtAny({"instance", "save_gcp"}) => "firewall" \in gcp
  /\ At("save_gcp") => "instance" \in gcp

DeployingApp  == {"build_image", "put_app", "fix_base_url", "save_app", "deploy-azure"}
Bootstrapping == {"remote_aws", "remote_gcp", "seed_portfolio", "save_status", "bootstrap",
                  "go-live"}

Told(host) == host \in DOMAIN hosts /\ hosts[host] = Endpoints

DeployDone ==
  /\ AtAny(DeployingApp \union Bootstrapping) => ManifestsPresent
  /\ At("fix_base_url") => app = azure_container_env_vars(provisional_base_url)
  /\ AtAny({"save_app", "deploy-azure"}) => AppAgrees
  /\ AtAny(Bootstrapping) => live["azure"].base_url = Fqdn
  /\ AtAny(Bootstrapping \ {"remote_aws"}) => Told(live["aws"].public_ip)
  /\ AtAny(Bootstrapping \ {"remote_aws", "remote_gcp"}) => Told(live["gcp"].public_ip)
  /\ seeded => portfolio

\* Without failures and replacements the app is deployed after AWS, and once.
AppFollows ==
  Undisturbed => /\ app # Nil => live["aws"] # Nil
                 /\ app # Nil /\ ~At("fix_base_url") => AppAgrees

\* The instance at hand has no manifest yet; with --replace it is the one that the
\* manifest names that will be left.
BeforeInstance == {"reuse_aws", "import_key", "create_group", "run_instances"}
AfterInstance  == {"allocate_address", "associate_address", "save_aws"}

OrphanBudget ==
  /\ Cardinality(Orphans) + (IF AtAny(BeforeInstance) /\ replace THEN 1 ELSE 0)
       <= used["failures"] + used["replaces"]
          + (IF AtAny(AfterInstance) /\ ~replace THEN 1 ELSE 0)
  /\ AtAny((BeforeInstance \ {"reuse_aws"}) \union AfterInstance) =>
       live["aws"] = Nil \/ replace
  /\ replace => used["replaces"] > 0

\* The types, that manifests name only what exists and is complete, and what the
\* running command has done for that.
DeployInv ==
  /\ TypeOK /\ ManifestsAreLive
  /\ InProgram /\ ProvisionDone /\ DeployDone /\ AppFollows /\ OrphanBudget
=============================================================================
