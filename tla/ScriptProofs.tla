----------------------------- MODULE ScriptProofs -----------------------------
(***************************************************************************)
(* Proofs about the two scripts an operator runs.                          *)
(*                                                                         *)
(* cloud_deploy.py: DeployInv is inductive for any number of commands,     *)
(* failures and replacements, and with it what the manifests name, what is *)
(* left over, and what a completed command has brought into agreement.     *)
(*                                                                         *)
(* run_local_stack.py: StackInv is inductive for any list of services and  *)
(* any number of runs, deaths and kills, and with it that a shutdown       *)
(* leaves nothing and that a reset stays a reset.                          *)
(***************************************************************************)
EXTENDS CloudDeploy, LocalStack, FiniteSetTheorems, SequenceTheorems, TLAPS

-----------------------------------------------------------------------------
(* The steps of the commands.                                              *)

\* The steps of a command and its end.
Steps(c) == Append(Program(c), c)

\* What a step may be.
Names ==
  {"reuse_aws", "import_key", "create_group", "run_instances", "allocate_address",
   "associate_address", "save_aws", "ensure_azure", "save_azure", "reuse_gcp", "firewall",
   "instance", "save_gcp", "check_manifests", "check_deploy", "build_image", "put_app",
   "fix_base_url", "save_app", "remote_aws", "remote_gcp", "seed_portfolio",
   "save_status", "provision-aws", "provision-azure", "provision-gcp", "deploy-azure",
   "bootstrap", "go-live"}

\* Appending and concatenating, element by element.
LEMMA AppendFacts ==
  ASSUME NEW S, NEW s \in Seq(S), NEW e \in S
  PROVE  /\ Append(s, e) \in Seq(S) /\ Len(Append(s, e)) = Len(s) + 1
         /\ Append(s, e)[Len(s) + 1] = e /\ \A i \in 1..Len(s) : Append(s, e)[i] = s[i]
  OBVIOUS

LEMMA ConcatFacts ==
  ASSUME NEW S, NEW s \in Seq(S), NEW t \in Seq(S)
  PROVE  /\ s \o t \in Seq(S) /\ Len(s \o t) = Len(s) + Len(t)
         /\ \A i \in 1..(Len(s) + Len(t)) :
              (s \o t)[i] = IF i <= Len(s) THEN s[i] ELSE t[i - Len(s)]
  BY ConcatProperties

\* The steps of each command.
LEMMA AwsSteps ==
  /\ provision_aws \in Seq(Names) /\ Len(provision_aws) = 7
  /\ provision_aws[1] = "reuse_aws" /\ provision_aws[2] = "import_key"
  /\ provision_aws[3] = "create_group" /\ provision_aws[4] = "run_instances"
  /\ provision_aws[5] = "allocate_address" /\ provision_aws[6] = "associate_address"
  /\ provision_aws[7] = "save_aws"
  BY DEF provision_aws, Names

LEMMA AzureSteps ==
  /\ provision_azure \in Seq(Names) /\ Len(provision_azure) = 2
  /\ provision_azure[1] = "ensure_azure" /\ provision_azure[2] = "save_azure"
  BY DEF provision_azure, Names

LEMMA GcpSteps ==
  /\ provision_gcp \in Seq(Names) /\ Len(provision_gcp) = 4
  /\ provision_gcp[1] = "reuse_gcp" /\ provision_gcp[2] = "firewall"
  /\ provision_gcp[3] = "instance" /\ provision_gcp[4] = "save_gcp"
  BY DEF provision_gcp, Names

LEMMA AppSteps ==
  /\ deploy_azure_container_app \in Seq(Names) /\ Len(deploy_azure_container_app) = 4
  /\ deploy_azure_container_app[1] = "build_image"
  /\ deploy_azure_container_app[2] = "put_app"
  /\ deploy_azure_container_app[3] = "fix_base_url"
  /\ deploy_azure_container_app[4] = "save_app"
  BY DEF deploy_azure_container_app, Names

LEMMA DeploySteps ==
  LET steps == <<"check_deploy">> \o deploy_azure_container_app
  IN  /\ steps \in Seq(Names) /\ Len(steps) = 5
      /\ steps[1] = "check_deploy" /\ steps[2] = "build_image" /\ steps[3] = "put_app"
      /\ steps[4] = "fix_base_url" /\ steps[5] = "save_app"
<1> DEFINE first == <<"check_deploy">>
           steps == first \o deploy_azure_container_app
<1>1. first \in Seq(Names) /\ Len(first) = 1 /\ first[1] = "check_deploy"
  BY DEF Names
<1> HIDE DEF first
<1>2. /\ steps \in Seq(Names) /\ Len(steps) = 5
      /\ \A i \in 1..5 : steps[i] = IF i <= 1 THEN first[i]
                                              ELSE deploy_azure_container_app[i - 1]
  <2>1. /\ first \in Seq(Names) /\ Len(first) = 1
        /\ deploy_azure_container_app \in Seq(Names) /\ Len(deploy_azure_container_app) = 4
    BY <1>1, AppSteps
  <2>2. /\ first \o deploy_azure_container_app \in Seq(Names)
        /\ Len(first \o deploy_azure_container_app)
             = Len(first) + Len(deploy_azure_container_app)
        /\ \A i \in 1..(Len(first) + Len(deploy_azure_container_app)) :
             (first \o deploy_azure_container_app)[i]
               = IF i <= Len(first) THEN first[i]
                                   ELSE deploy_azure_container_app[i - Len(first)]
    BY <2>1, ConcatFacts
  <2>3. steps = first \o deploy_azure_container_app
    BY DEF steps
  <2>4. Len(first) + Len(deploy_azure_container_app) = 5
    BY <2>1
  <2>5. \A i \in 1..5 : steps[i] = IF i <= 1 THEN first[i]
                                             ELSE deploy_azure_container_app[i - 1]
    BY <2>1, <2>2, <2>3, <2>4
  <2> QED
    BY <2>2, <2>3, <2>4, <2>5
<1> HIDE DEF steps
<1>3. /\ steps \in Seq(Names) /\ Len(steps) = 5
      /\ steps[1] = "check_deploy" /\ steps[2] = "build_image" /\ steps[3] = "put_app"
      /\ steps[4] = "fix_base_url" /\ steps[5] = "save_app"
  BY <1>1, <1>2, AppSteps
<1> QED
  BY <1>3 DEF steps, first

LEMMA BootstrapSteps ==
  /\ bootstrap_hosts \in Seq(Names) /\ Len(bootstrap_hosts) = 9
  /\ bootstrap_hosts[1] = "check_manifests" /\ bootstrap_hosts[2] = "build_image"
  /\ bootstrap_hosts[3] = "put_app" /\ bootstrap_hosts[4] = "fix_base_url"
  /\ bootstrap_hosts[5] = "save_app" /\ bootstrap_hosts[6] = "remote_aws"
  /\ bootstrap_hosts[7] = "remote_gcp" /\ bootstrap_hosts[8] = "seed_portfolio"
  /\ bootstrap_hosts[9] = "save_status"
<1> DEFINE first == <<"check_manifests">>
           last  == <<"remote_aws", "remote_gcp", "seed_portfolio", "save_status">>
           front == first \o deploy_azure_container_app
<1>1. first \in Seq(Names) /\ Len(first) = 1 /\ first[1] = "check_manifests"
  BY DEF Names
<1>2. /\ last \in Seq(Names) /\ Len(last) = 4
      /\ last[1] = "remote_aws" /\ last[2] = "remote_gcp" /\ last[3] = "seed_portfolio"
      /\ last[4] = "save_status"
  BY DEF Names
<1>3. bootstrap_hosts = front \o last
  BY DEF bootstrap_hosts
<1> HIDE DEF first, last
<1>4. /\ front \in Seq(Names) /\ Len(front) = 5
      /\ \A i \in 1..5 : front[i] = IF i <= 1 THEN first[i]
                                              ELSE deploy_azure_container_app[i - 1]
  <2>1. /\ first \in Seq(Names) /\ Len(first) = 1
        /\ deploy_azure_container_app \in Seq(Names) /\ Len(deploy_azure_container_app) = 4
    BY <1>1, AppSteps
  <2>2. /\ first \o deploy_azure_container_app \in Seq(Names)
        /\ Len(first \o deploy_azure_container_app)
             = Len(first) + Len(deploy_azure_container_app)
        /\ \A i \in 1..(Len(first) + Len(deploy_azure_container_app)) :
             (first \o deploy_azure_container_app)[i]
               = IF i <= Len(first) THEN first[i]
                                   ELSE deploy_azure_container_app[i - Len(first)]
    BY <2>1, ConcatFacts
  <2>3. front = first \o deploy_azure_container_app
    BY DEF front
  <2>4. Len(first) + Len(deploy_azure_container_app) = 5
    BY <2>1
  <2>5. \A i \in 1..5 : front[i] = IF i <= 1 THEN first[i]
                                             ELSE deploy_azure_container_app[i - 1]
    BY <2>1, <2>2, <2>3, <2>4
  <2> QED
    BY <2>2, <2>3, <2>4, <2>5
<1> HIDE DEF front
<1>5. /\ front[1] = "check_manifests" /\ front[2] = "build_image" /\ front[3] = "put_app"
      /\ front[4] = "fix_base_url" /\ front[5] = "save_app"
  BY <1>1, <1>4, AppSteps
<1>6. /\ bootstrap_hosts \in Seq(Names) /\ Len(bootstrap_hosts) = 9
      /\ \A i \in 1..9 : bootstrap_hosts[i] = IF i <= 5 THEN front[i] ELSE last[i - 5]
  <2>1. /\ front \in Seq(Names) /\ Len(front) = 5
        /\ last \in Seq(Names) /\ Len(last) = 4
    BY <1>2, <1>4
  <2>2. /\ front \o last \in Seq(Names)
        /\ Len(front \o last) = Len(front) + Len(last)
        /\ \A i \in 1..(Len(front) + Len(last)) :
             (front \o last)[i]
               = IF i <= Len(front) THEN front[i]
                                   ELSE last[i - Len(front)]
    BY <2>1, ConcatFacts
  <2>3. bootstrap_hosts = front \o last
    BY <1>3
  <2>4. Len(front) + Len(last) = 9
    BY <2>1
  <2>5. \A i \in 1..9 : bootstrap_hosts[i] = IF i <= 5 THEN front[i] ELSE last[i - 5]
    BY <2>1, <2>2, <2>3, <2>4
  <2> QED
    BY <2>2, <2>3, <2>4, <2>5
<1> QED
  BY <1>2, <1>5, <1>6

LEMMA GoLiveSteps ==
  /\ go_live \in Seq(Names) /\ Len(go_live) = 22
  /\ go_live[1] = "reuse_aws" /\ go_live[2] = "import_key" /\ go_live[3] = "create_group"
  /\ go_live[4] = "run_instances" /\ go_live[5] = "allocate_address"
  /\ go_live[6] = "associate_address" /\ go_live[7] = "save_aws"
  /\ go_live[8] = "ensure_azure" /\ go_live[9] = "save_azure" /\ go_live[10] = "reuse_gcp"
  /\ go_live[11] = "firewall" /\ go_live[12] = "instance" /\ go_live[13] = "save_gcp"
  /\ go_live[14] = "check_manifests" /\ go_live[15] = "build_image"
  /\ go_live[16] = "put_app" /\ go_live[17] = "fix_base_url" /\ go_live[18] = "save_app"
  /\ go_live[19] = "remote_aws" /\ go_live[20] = "remote_gcp"
  /\ go_live[21] = "seed_portfolio" /\ go_live[22] = "save_status"
<1> DEFINE two   == provision_aws \o provision_azure
           three == two \o provision_gcp
<1>1. go_live = three \o bootstrap_hosts
  BY DEF go_live
<1>2. /\ two \in Seq(Names) /\ Len(two) = 9
      /\ \A i \in 1..9 : two[i] = IF i <= 7 THEN provision_aws[i] ELSE provision_azure[i - 7]
  <2>1. /\ provision_aws \in Seq(Names) /\ Len(provision_aws) = 7
        /\ provision_azure \in Seq(Names) /\ Len(provision_azure) = 2
    BY AwsSteps, AzureSteps
  <2>2. /\ provision_aws \o provision_azure \in Seq(Names)
        /\ Len(provision_aws \o provision_azure) = Len(provision_aws) + Len(provision_azure)
        /\ \A i \in 1..(Len(provision_aws) + Len(provision_azure)) :
             (provision_aws \o provision_azure)[i]
               = IF i <= Len(provision_aws) THEN provision_aws[i]
                                   ELSE provision_azure[i - Len(provision_aws)]
    BY <2>1, ConcatFacts
  <2>3. two = provision_aws \o provision_azure
    BY DEF two
  <2>4. Len(provision_aws) + Len(provision_azure) = 9
    BY <2>1
  <2>5. \A i \in 1..9 : two[i] = IF i <= 7 THEN provision_aws[i] ELSE provision_azure[i - 7]
    BY <2>1, <2>2, <2>3, <2>4
  <2> QED
    BY <2>2, <2>3, <2>4, <2>5
<1> HIDE DEF two
<1>3. /\ two[1] = "reuse_aws" /\ two[2] = "import_key" /\ two[3] = "create_group"
      /\ two[4] = "run_instances" /\ two[5] = "allocate_address"
      /\ two[6] = "associate_address" /\ two[7] = "save_aws" /\ two[8] = "ensure_azure"
      /\ two[9] = "save_azure"
  BY <1>2, AwsSteps, AzureSteps
<1>4. /\ three \in Seq(Names) /\ Len(three) = 13
      /\ \A i \in 1..13 : three[i] = IF i <= 9 THEN two[i] ELSE provision_gcp[i - 9]
  <2>1. /\ two \in Seq(Names) /\ Len(two) = 9
        /\ provision_gcp \in Seq(Names) /\ Len(provision_gcp) = 4
    BY <1>2, GcpSteps
  <2>2. /\ two \o provision_gcp \in Seq(Names)
        /\ Len(two \o provision_gcp) = Len(two) + Len(provision_gcp)
        /\ \A i \in 1..(Len(two) + Len(provision_gcp)) :
             (two \o provision_gcp)[i]
               = IF i <= Len(two) THEN two[i]
                                   ELSE provision_gcp[i - Len(two)]
    BY <2>1, ConcatFacts
  <2>3. three = two \o provision_gcp
    BY DEF three
  <2>4. Len(two) + Len(provision_gcp) = 13
    BY <2>1
  <2>5. \A i \in 1..13 : three[i] = IF i <= 9 THEN two[i] ELSE provision_gcp[i - 9]
    BY <2>1, <2>2, <2>3, <2>4
  <2> QED
    BY <2>2, <2>3, <2>4, <2>5
<1> HIDE DEF three
<1>5. /\ three[1] = "reuse_aws" /\ three[2] = "import_key" /\ three[3] = "create_group"
      /\ three[4] = "run_instances" /\ three[5] = "allocate_address"
      /\ three[6] = "associate_address" /\ three[7] = "save_aws"
      /\ three[8] = "ensure_azure" /\ three[9] = "save_azure" /\ three[10] = "reuse_gcp"
      /\ three[11] = "firewall" /\ three[12] = "instance" /\ three[13] = "save_gcp"
  BY <1>3, <1>4, GcpSteps
<1>6. /\ go_live \in Seq(Names) /\ Len(go_live) = 22
      /\ \A i \in 1..22 : go_live[i] = IF i <= 13 THEN three[i] ELSE bootstrap_hosts[i - 13]
  <2>1. /\ three \in Seq(Names) /\ Len(three) = 13
        /\ bootstrap_hosts \in Seq(Names) /\ Len(bootstrap_hosts) = 9
    BY <1>4, BootstrapSteps
  <2>2. /\ three \o bootstrap_hosts \in Seq(Names)
        /\ Len(three \o bootstrap_hosts) = Len(three) + Len(bootstrap_hosts)
        /\ \A i \in 1..(Len(three) + Len(bootstrap_hosts)) :
             (three \o bootstrap_hosts)[i]
               = IF i <= Len(three) THEN three[i]
                                   ELSE bootstrap_hosts[i - Len(three)]
    BY <2>1, ConcatFacts
  <2>3. go_live = three \o bootstrap_hosts
    BY <1>1
  <2>4. Len(three) + Len(bootstrap_hosts) = 22
    BY <2>1
  <2>5. \A i \in 1..22 : go_live[i] = IF i <= 13 THEN three[i] ELSE bootstrap_hosts[i - 13]
    BY <2>1, <2>2, <2>3, <2>4
  <2> QED
    BY <2>2, <2>3, <2>4, <2>5
<1>7. /\ go_live[1] = "reuse_aws" /\ go_live[2] = "import_key" /\ go_live[3] = "create_group"
      /\ go_live[4] = "run_instances" /\ go_live[5] = "allocate_address"
      /\ go_live[6] = "associate_address" /\ go_live[7] = "save_aws"
  <2>1. /\ go_live[1] = three[1] /\ go_live[2] = three[2] /\ go_live[3] = three[3]
        /\ go_live[4] = three[4] /\ go_live[5] = three[5] /\ go_live[6] = three[6]
        /\ go_live[7] = three[7]
    BY <1>6
  <2> QED
    BY <1>5, <2>1
<1>8. /\ go_live[8] = "ensure_azure" /\ go_live[9] = "save_azure" /\ go_live[10] = "reuse_gcp"
      /\ go_live[11] = "firewall" /\ go_live[12] = "instance" /\ go_live[13] = "save_gcp"
  <2>1. /\ go_live[8] = three[8] /\ go_live[9] = three[9] /\ go_live[10] = three[10]
        /\ go_live[11] = three[11] /\ go_live[12] = three[12] /\ go_live[13] = three[13]
    BY <1>6
  <2> QED
    BY <1>5, <2>1
<1>9. /\ go_live[14] = bootstrap_hosts[1] /\ go_live[15] = bootstrap_hosts[2]
      /\ go_live[16] = bootstrap_hosts[3] /\ go_live[17] = bootstrap_hosts[4]
      /\ go_live[18] = bootstrap_hosts[5] /\ go_live[19] = bootstrap_hosts[6]
      /\ go_live[20] = bootstrap_hosts[7] /\ go_live[21] = bootstrap_hosts[8]
      /\ go_live[22] = bootstrap_hosts[9]
  BY <1>6
<1>10. /\ go_live[14] = "check_manifests" /\ go_live[15] = "build_image"
       /\ go_live[16] = "put_app" /\ go_live[17] = "fix_base_url"
       /\ go_live[18] = "save_app" /\ go_live[19] = "remote_aws"
       /\ go_live[20] = "remote_gcp" /\ go_live[21] = "seed_portfolio"
       /\ go_live[22] = "save_status"
  BY <1>9, BootstrapSteps
<1> QED
  BY <1>6, <1>7, <1>8, <1>10

\* And with the end of the command behind them.
LEMMA AwsProgram ==
  LET steps == Steps("provision-aws")
  IN  /\ steps \in Seq(Names) /\ Len(steps) = 8
      /\ steps[1] = "reuse_aws" /\ steps[2] = "import_key" /\ steps[3] = "create_group"
      /\ steps[4] = "run_instances" /\ steps[5] = "allocate_address"
      /\ steps[6] = "associate_address" /\ steps[7] = "save_aws" /\ steps[8] = "provision-aws"
<1> DEFINE program == Program("provision-aws")
           steps   == Steps("provision-aws")
<1>1. /\ program \in Seq(Names) /\ Len(program) = 7
      /\ program[1] = "reuse_aws" /\ program[2] = "import_key"
      /\ program[3] = "create_group" /\ program[4] = "run_instances"
      /\ program[5] = "allocate_address" /\ program[6] = "associate_address"
      /\ program[7] = "save_aws"
  BY AwsSteps DEF Program
<1>2. "provision-aws" \in Names /\ steps = Append(program, "provision-aws")
  BY DEF Names, Steps
<1> HIDE DEF program, steps
<1>3. /\ Append(program, "provision-aws") \in Seq(Names)
      /\ Len(Append(program, "provision-aws")) = Len(program) + 1
      /\ Append(program, "provision-aws")[Len(program) + 1] = "provision-aws"
      /\ \A i \in 1..Len(program) : Append(program, "provision-aws")[i] = program[i]
  <2>1. program \in Seq(Names) /\ "provision-aws" \in Names
    BY <1>1, <1>2
  <2> QED
    BY <2>1, AppendFacts
<1>4. /\ steps \in Seq(Names) /\ Len(steps) = 8 /\ steps[8] = "provision-aws"
      /\ \A i \in 1..7 : steps[i] = program[i]
  BY <1>1, <1>2, <1>3
<1>5. /\ steps[1] = "reuse_aws" /\ steps[2] = "import_key" /\ steps[3] = "create_group"
      /\ steps[4] = "run_instances" /\ steps[5] = "allocate_address"
      /\ steps[6] = "associate_address" /\ steps[7] = "save_aws"
  BY <1>1, <1>4
<1> QED
  BY <1>4, <1>5 DEF steps

LEMMA AzureProgram ==
  LET steps == Steps("provision-azure")
  IN  /\ steps \in Seq(Names) /\ Len(steps) = 3
      /\ steps[1] = "ensure_azure" /\ steps[2] = "save_azure" /\ steps[3] = "provision-azure"
<1> DEFINE program == Program("provision-azure")
           steps   == Steps("provision-azure")
<1>1. /\ program \in Seq(Names) /\ Len(program) = 2
      /\ program[1] = "ensure_azure" /\ program[2] = "save_azure"
  BY AzureSteps DEF Program
<1>2. "provision-azure" \in Names /\ steps = Append(program, "provision-azure")
  BY DEF Names, Steps
<1> HIDE DEF program, steps
<1>3. /\ Append(program, "provision-azure") \in Seq(Names)
      /\ Len(Append(program, "provision-azure")) = Len(program) + 1
      /\ Append(program, "provision-azure")[Len(program) + 1] = "provision-azure"
      /\ \A i \in 1..Len(program) : Append(program, "provision-azure")[i] = program[i]
  <2>1. program \in Seq(Names) /\ "provision-azure" \in Names
    BY <1>1, <1>2
  <2> QED
    BY <2>1, AppendFacts
<1>4. /\ steps \in Seq(Names) /\ Len(steps) = 3 /\ steps[3] = "provision-azure"
      /\ \A i \in 1..2 : steps[i] = program[i]
  BY <1>1, <1>2, <1>3
<1>5. /\ steps[1] = "ensure_azure" /\ steps[2] = "save_azure"
  BY <1>1, <1>4
<1> QED
  BY <1>4, <1>5 DEF steps

LEMMA GcpProgram ==
  LET steps == Steps("provision-gcp")
  IN  /\ steps \in Seq(Names) /\ Len(steps) = 5
      /\ steps[1] = "reuse_gcp" /\ steps[2] = "firewall" /\ steps[3] = "instance"
      /\ steps[4] = "save_gcp" /\ steps[5] = "provision-gcp"
<1> DEFINE program == Program("provision-gcp")
           steps   == Steps("provision-gcp")
<1>1. /\ program \in Seq(Names) /\ Len(program) = 4
      /\ program[1] = "reuse_gcp" /\ program[2] = "firewall" /\ program[3] = "instance"
      /\ program[4] = "save_gcp"
  BY GcpSteps DEF Program
<1>2. "provision-gcp" \in Names /\ steps = Append(program, "provision-gcp")
  BY DEF Names, Steps
<1> HIDE DEF program, steps
<1>3. /\ Append(program, "provision-gcp") \in Seq(Names)
      /\ Len(Append(program, "provision-gcp")) = Len(program) + 1
      /\ Append(program, "provision-gcp")[Len(program) + 1] = "provision-gcp"
      /\ \A i \in 1..Len(program) : Append(program, "provision-gcp")[i] = program[i]
  <2>1. program \in Seq(Names) /\ "provision-gcp" \in Names
    BY <1>1, <1>2
  <2> QED
    BY <2>1, AppendFacts
<1>4. /\ steps \in Seq(Names) /\ Len(steps) = 5 /\ steps[5] = "provision-gcp"
      /\ \A i \in 1..4 : steps[i] = program[i]
  BY <1>1, <1>2, <1>3
<1>5. /\ steps[1] = "reuse_gcp" /\ steps[2] = "firewall" /\ steps[3] = "instance"
      /\ steps[4] = "save_gcp"
  BY <1>1, <1>4
<1> QED
  BY <1>4, <1>5 DEF steps

LEMMA DeployProgram ==
  LET steps == Steps("deploy-azure")
  IN  /\ steps \in Seq(Names) /\ Len(steps) = 6
      /\ steps[1] = "check_deploy" /\ steps[2] = "build_image" /\ steps[3] = "put_app"
      /\ steps[4] = "fix_base_url" /\ steps[5] = "save_app" /\ steps[6] = "deploy-azure"
<1> DEFINE program == Program("deploy-azure")
           steps   == Steps("deploy-azure")
<1>1. /\ program \in Seq(Names) /\ Len(program) = 5
      /\ program[1] = "check_deploy" /\ program[2] = "build_image"
      /\ program[3] = "put_app" /\ program[4] = "fix_base_url" /\ program[5] = "save_app"
  BY DeploySteps DEF Program
<1>2. "deploy-azure" \in Names /\ steps = Append(program, "deploy-azure")
  BY DEF Names, Steps
<1> HIDE DEF program, steps
<1>3. /\ Append(program, "deploy-azure") \in Seq(Names)
      /\ Len(Append(program, "deploy-azure")) = Len(program) + 1
      /\ Append(program, "deploy-azure")[Len(program) + 1] = "deploy-azure"
      /\ \A i \in 1..Len(program) : Append(program, "deploy-azure")[i] = program[i]
  <2>1. program \in Seq(Names) /\ "deploy-azure" \in Names
    BY <1>1, <1>2
  <2> QED
    BY <2>1, AppendFacts
<1>4. /\ steps \in Seq(Names) /\ Len(steps) = 6 /\ steps[6] = "deploy-azure"
      /\ \A i \in 1..5 : steps[i] = program[i]
  BY <1>1, <1>2, <1>3
<1>5. /\ steps[1] = "check_deploy" /\ steps[2] = "build_image" /\ steps[3] = "put_app"
      /\ steps[4] = "fix_base_url" /\ steps[5] = "save_app"
  BY <1>1, <1>4
<1> QED
  BY <1>4, <1>5 DEF steps

LEMMA BootstrapProgram ==
  LET steps == Steps("bootstrap")
  IN  /\ steps \in Seq(Names) /\ Len(steps) = 10
      /\ steps[1] = "check_manifests" /\ steps[2] = "build_image" /\ steps[3] = "put_app"
      /\ steps[4] = "fix_base_url" /\ steps[5] = "save_app" /\ steps[6] = "remote_aws"
      /\ steps[7] = "remote_gcp" /\ steps[8] = "seed_portfolio" /\ steps[9] = "save_status"
      /\ steps[10] = "bootstrap"
<1> DEFINE program == Program("bootstrap")
           steps   == Steps("bootstrap")
<1>1. /\ program \in Seq(Names) /\ Len(program) = 9
      /\ program[1] = "check_manifests" /\ program[2] = "build_image"
      /\ program[3] = "put_app" /\ program[4] = "fix_base_url" /\ program[5] = "save_app"
      /\ program[6] = "remote_aws" /\ program[7] = "remote_gcp"
      /\ program[8] = "seed_portfolio" /\ program[9] = "save_status"
  BY BootstrapSteps DEF Program
<1>2. "bootstrap" \in Names /\ steps = Append(program, "bootstrap")
  BY DEF Names, Steps
<1> HIDE DEF program, steps
<1>3. /\ Append(program, "bootstrap") \in Seq(Names)
      /\ Len(Append(program, "bootstrap")) = Len(program) + 1
      /\ Append(program, "bootstrap")[Len(program) + 1] = "bootstrap"
      /\ \A i \in 1..Len(program) : Append(program, "bootstrap")[i] = program[i]
  <2>1. program \in Seq(Names) /\ "bootstrap" \in Names
    BY <1>1, <1>2
  <2> QED
    BY <2>1, AppendFacts
<1>4. /\ steps \in Seq(Names) /\ Len(steps) = 10 /\ steps[10] = "bootstrap"
      /\ \A i \in 1..9 : steps[i] = program[i]
  BY <1>1, <1>2, <1>3
<1>5. /\ steps[1] = "check_manifests" /\ steps[2] = "build_image" /\ steps[3] = "put_app"
      /\ steps[4] = "fix_base_url" /\ steps[5] = "save_app" /\ steps[6] = "remote_aws"
      /\ steps[7] = "remote_gcp" /\ steps[8] = "seed_portfolio" /\ steps[9] = "save_status"
  BY <1>1, <1>4
<1> QED
  BY <1>4, <1>5 DEF steps

LEMMA GoLiveProgram ==
  LET steps == Steps("go-live")
  IN  /\ steps \in Seq(Names) /\ Len(steps) = 23
      /\ steps[1] = "reuse_aws" /\ steps[2] = "import_key" /\ steps[3] = "create_group"
      /\ steps[4] = "run_instances" /\ steps[5] = "allocate_address"
      /\ steps[6] = "associate_address" /\ steps[7] = "save_aws"
      /\ steps[8] = "ensure_azure" /\ steps[9] = "save_azure" /\ steps[10] = "reuse_gcp"
      /\ steps[11] = "firewall" /\ steps[12] = "instance" /\ steps[13] = "save_gcp"
      /\ steps[14] = "check_manifests" /\ steps[15] = "build_image"
      /\ steps[16] = "put_app" /\ steps[17] = "fix_base_url" /\ steps[18] = "save_app"
      /\ steps[19] = "remote_aws" /\ steps[20] = "remote_gcp"
      /\ steps[21] = "seed_portfolio" /\ steps[22] = "save_status" /\ steps[23] = "go-live"
<1> DEFINE program == Program("go-live")
           steps   == Steps("go-live")
<1>1. /\ program \in Seq(Names) /\ Len(program) = 22
      /\ program[1] = "reuse_aws" /\ program[2] = "import_key"
      /\ program[3] = "create_group" /\ program[4] = "run_instances"
      /\ program[5] = "allocate_address" /\ program[6] = "associate_address"
      /\ program[7] = "save_aws" /\ program[8] = "ensure_azure"
      /\ program[9] = "save_azure" /\ program[10] = "reuse_gcp" /\ program[11] = "firewall"
      /\ program[12] = "instance" /\ program[13] = "save_gcp"
      /\ program[14] = "check_manifests" /\ program[15] = "build_image"
      /\ program[16] = "put_app" /\ program[17] = "fix_base_url"
      /\ program[18] = "save_app" /\ program[19] = "remote_aws"
      /\ program[20] = "remote_gcp" /\ program[21] = "seed_portfolio"
      /\ program[22] = "save_status"
  BY GoLiveSteps DEF Program
<1>2. "go-live" \in Names /\ steps = Append(program, "go-live")
  BY DEF Names, Steps
<1> HIDE DEF program, steps
<1>3. /\ Append(program, "go-live") \in Seq(Names)
      /\ Len(Append(program, "go-live")) = Len(program) + 1
      /\ Append(program, "go-live")[Len(program) + 1] = "go-live"
      /\ \A i \in 1..Len(program) : Append(program, "go-live")[i] = program[i]
  <2>1. program \in Seq(Names) /\ "go-live" \in Names
    BY <1>1, <1>2
  <2> QED
    BY <2>1, AppendFacts
<1>4. /\ steps \in Seq(Names) /\ Len(steps) = 23 /\ steps[23] = "go-live"
      /\ \A i \in 1..22 : steps[i] = program[i]
  BY <1>1, <1>2, <1>3
<1>5. /\ steps[1] = "reuse_aws" /\ steps[2] = "import_key" /\ steps[3] = "create_group"
      /\ steps[4] = "run_instances" /\ steps[5] = "allocate_address"
      /\ steps[6] = "associate_address" /\ steps[7] = "save_aws"
      /\ steps[8] = "ensure_azure" /\ steps[9] = "save_azure" /\ steps[10] = "reuse_gcp"
      /\ steps[11] = "firewall" /\ steps[12] = "instance" /\ steps[13] = "save_gcp"
      /\ steps[14] = "check_manifests" /\ steps[15] = "build_image"
      /\ steps[16] = "put_app" /\ steps[17] = "fix_base_url" /\ steps[18] = "save_app"
      /\ steps[19] = "remote_aws" /\ steps[20] = "remote_gcp"
      /\ steps[21] = "seed_portfolio" /\ steps[22] = "save_status"
  BY <1>1, <1>4
<1> QED
  BY <1>4, <1>5 DEF steps

\* What comes after a step, in whatever command.
Follows(next, step) ==
  /\ step = "reuse_aws" => next \in {"import_key"}
  /\ step = "import_key" => next \in {"create_group"}
  /\ step = "create_group" => next \in {"run_instances"}
  /\ step = "run_instances" => next \in {"allocate_address"}
  /\ step = "allocate_address" => next \in {"associate_address"}
  /\ step = "associate_address" => next \in {"save_aws"}
  /\ step = "save_aws" => next \in {"provision-aws", "ensure_azure"}
  /\ step = "ensure_azure" => next \in {"save_azure"}
  /\ step = "save_azure" => next \in {"provision-azure", "reuse_gcp"}
  /\ step = "reuse_gcp" => next \in {"firewall"}
  /\ step = "firewall" => next \in {"instance"}
  /\ step = "instance" => next \in {"save_gcp"}
  /\ step = "save_gcp" => next \in {"provision-gcp", "check_manifests"}
  /\ step = "check_deploy" => next \in {"build_image"}
  /\ step = "build_image" => next \in {"put_app"}
  /\ step = "put_app" => next \in {"fix_base_url"}
  /\ step = "fix_base_url" => next \in {"save_app"}
  /\ step = "save_app" => next \in {"deploy-azure", "remote_aws"}
  /\ step = "check_manifests" => next \in {"build_image"}
  /\ step = "remote_aws" => next \in {"remote_gcp"}
  /\ step = "remote_gcp" => next \in {"seed_portfolio"}
  /\ step = "seed_portfolio" => next \in {"save_status"}
  /\ step = "save_status" => next \in {"bootstrap", "go-live"}

\* What a step may be, and what comes after it.
LEMMA StepFacts ==
  ASSUME NEW c \in Commands, NEW i \in 1..Len(Steps(c))
  PROVE  /\ Steps(c) \in Seq(Names) /\ Len(Steps(c)) \in Nat
         /\ Steps(c)[i] \in Commands <=> i = Len(Steps(c))
         /\ i < Len(Steps(c)) => Follows(Steps(c)[i + 1], Steps(c)[i])
         /\ Steps(c)[i] = "reuse_aws" =>
              i + 7 <= Len(Steps(c)) /\ Steps(c)[i + 7] \in {"ensure_azure", "provision-aws"}
         /\ Steps(c)[i] = "reuse_gcp" =>
              i + 4 <= Len(Steps(c)) /\ Steps(c)[i + 4] \in {"check_manifests", "provision-gcp"}
         /\ Steps(c)[i] = "check_manifests" =>
              i + 5 <= Len(Steps(c)) /\ Steps(c)[i + 5] = "remote_aws"
         /\ Steps(c)[1] \in {"reuse_aws", "ensure_azure", "reuse_gcp", "check_deploy",
                              "check_manifests"}
<1> USE DEF Commands
<1>1. CASE c = "provision-aws"
  <2>1. Len(Steps(c)) = 8 /\ Steps(c) \in Seq(Names)
    BY <1>1, AwsProgram
  <2>2. \/ i = 1 \/ i = 2 \/ i = 3 \/ i = 4 \/ i = 5 \/ i = 6 \/ i = 7
        \/ i = 8
    BY <2>1
  <2>3. Steps(c)[i] \in Commands <=> i = 8
    BY <1>1, <2>2, AwsProgram
  <2>4. i < 8 => Follows(Steps(c)[i + 1], Steps(c)[i])
    BY <1>1, <2>2, AwsProgram DEF Follows
  <2>5. Steps(c)[i] = "reuse_aws" =>
          i + 7 <= Len(Steps(c)) /\ Steps(c)[i + 7] \in {"ensure_azure", "provision-aws"}
    BY <1>1, <2>1, <2>2, AwsProgram
  <2>6. Steps(c)[i] = "reuse_gcp" =>
          i + 4 <= Len(Steps(c)) /\ Steps(c)[i + 4] \in {"check_manifests", "provision-gcp"}
    BY <1>1, <2>1, <2>2, AwsProgram
  <2>7. Steps(c)[i] = "check_manifests" =>
          i + 5 <= Len(Steps(c)) /\ Steps(c)[i + 5] = "remote_aws"
    BY <1>1, <2>1, <2>2, AwsProgram
  <2>8. Steps(c)[1] \in {"reuse_aws", "ensure_azure", "reuse_gcp", "check_deploy",
                         "check_manifests"}
    BY <1>1, AwsProgram
  <2> QED
    BY <2>1, <2>3, <2>4, <2>5, <2>6, <2>7, <2>8
<1>2. CASE c = "provision-azure"
  <2>1. Len(Steps(c)) = 3 /\ Steps(c) \in Seq(Names)
    BY <1>2, AzureProgram
  <2>2. \/ i = 1 \/ i = 2 \/ i = 3
    BY <2>1
  <2>3. Steps(c)[i] \in Commands <=> i = 3
    BY <1>2, <2>2, AzureProgram
  <2>4. i < 3 => Follows(Steps(c)[i + 1], Steps(c)[i])
    BY <1>2, <2>2, AzureProgram DEF Follows
  <2>5. Steps(c)[i] = "reuse_aws" =>
          i + 7 <= Len(Steps(c)) /\ Steps(c)[i + 7] \in {"ensure_azure", "provision-aws"}
    BY <1>2, <2>1, <2>2, AzureProgram
  <2>6. Steps(c)[i] = "reuse_gcp" =>
          i + 4 <= Len(Steps(c)) /\ Steps(c)[i + 4] \in {"check_manifests", "provision-gcp"}
    BY <1>2, <2>1, <2>2, AzureProgram
  <2>7. Steps(c)[i] = "check_manifests" =>
          i + 5 <= Len(Steps(c)) /\ Steps(c)[i + 5] = "remote_aws"
    BY <1>2, <2>1, <2>2, AzureProgram
  <2>8. Steps(c)[1] \in {"reuse_aws", "ensure_azure", "reuse_gcp", "check_deploy",
                         "check_manifests"}
    BY <1>2, AzureProgram
  <2> QED
    BY <2>1, <2>3, <2>4, <2>5, <2>6, <2>7, <2>8
<1>3. CASE c = "provision-gcp"
  <2>1. Len(Steps(c)) = 5 /\ Steps(c) \in Seq(Names)
    BY <1>3, GcpProgram
  <2>2. \/ i = 1 \/ i = 2 \/ i = 3 \/ i = 4 \/ i = 5
    BY <2>1
  <2>3. Steps(c)[i] \in Commands <=> i = 5
    BY <1>3, <2>2, GcpProgram
  <2>4. i < 5 => Follows(Steps(c)[i + 1], Steps(c)[i])
    BY <1>3, <2>2, GcpProgram DEF Follows
  <2>5. Steps(c)[i] = "reuse_aws" =>
          i + 7 <= Len(Steps(c)) /\ Steps(c)[i + 7] \in {"ensure_azure", "provision-aws"}
    BY <1>3, <2>1, <2>2, GcpProgram
  <2>6. Steps(c)[i] = "reuse_gcp" =>
          i + 4 <= Len(Steps(c)) /\ Steps(c)[i + 4] \in {"check_manifests", "provision-gcp"}
    BY <1>3, <2>1, <2>2, GcpProgram
  <2>7. Steps(c)[i] = "check_manifests" =>
          i + 5 <= Len(Steps(c)) /\ Steps(c)[i + 5] = "remote_aws"
    BY <1>3, <2>1, <2>2, GcpProgram
  <2>8. Steps(c)[1] \in {"reuse_aws", "ensure_azure", "reuse_gcp", "check_deploy",
                         "check_manifests"}
    BY <1>3, GcpProgram
  <2> QED
    BY <2>1, <2>3, <2>4, <2>5, <2>6, <2>7, <2>8
<1>4. CASE c = "deploy-azure"
  <2>1. Len(Steps(c)) = 6 /\ Steps(c) \in Seq(Names)
    BY <1>4, DeployProgram
  <2>2. \/ i = 1 \/ i = 2 \/ i = 3 \/ i = 4 \/ i = 5 \/ i = 6
    BY <2>1
  <2>3. Steps(c)[i] \in Commands <=> i = 6
    BY <1>4, <2>2, DeployProgram
  <2>4. i < 6 => Follows(Steps(c)[i + 1], Steps(c)[i])
    BY <1>4, <2>2, DeployProgram DEF Follows
  <2>5. Steps(c)[i] = "reuse_aws" =>
          i + 7 <= Len(Steps(c)) /\ Steps(c)[i + 7] \in {"ensure_azure", "provision-aws"}
    BY <1>4, <2>1, <2>2, DeployProgram
  <2>6. Steps(c)[i] = "reuse_gcp" =>
          i + 4 <= Len(Steps(c)) /\ Steps(c)[i + 4] \in {"check_manifests", "provision-gcp"}
    BY <1>4, <2>1, <2>2, DeployProgram
  <2>7. Steps(c)[i] = "check_manifests" =>
          i + 5 <= Len(Steps(c)) /\ Steps(c)[i + 5] = "remote_aws"
    BY <1>4, <2>1, <2>2, DeployProgram
  <2>8. Steps(c)[1] \in {"reuse_aws", "ensure_azure", "reuse_gcp", "check_deploy",
                         "check_manifests"}
    BY <1>4, DeployProgram
  <2> QED
    BY <2>1, <2>3, <2>4, <2>5, <2>6, <2>7, <2>8
<1>5. CASE c = "bootstrap"
  <2>1. Len(Steps(c)) = 10 /\ Steps(c) \in Seq(Names)
    BY <1>5, BootstrapProgram
  <2>2. \/ i = 1 \/ i = 2 \/ i = 3 \/ i = 4 \/ i = 5 \/ i = 6 \/ i = 7
        \/ i = 8 \/ i = 9 \/ i = 10
    BY <2>1
  <2>3. Steps(c)[i] \in Commands <=> i = 10
    BY <1>5, <2>2, BootstrapProgram
  <2>4. i < 10 => Follows(Steps(c)[i + 1], Steps(c)[i])
    <3>1. i = 1 => Follows(Steps(c)[i + 1], Steps(c)[i])
      <4>1. Steps(c)[1] = "check_manifests" /\ Steps(c)[2] = "build_image"
        BY <1>5, BootstrapProgram
      <4>2. Follows("build_image", "check_manifests")
        BY DEF Follows
      <4> QED
        BY <4>1, <4>2
    <3>2. i = 2 => Follows(Steps(c)[i + 1], Steps(c)[i])
      <4>1. Steps(c)[2] = "build_image" /\ Steps(c)[3] = "put_app"
        BY <1>5, BootstrapProgram
      <4>2. Follows("put_app", "build_image")
        BY DEF Follows
      <4> QED
        BY <4>1, <4>2
    <3>3. i = 3 => Follows(Steps(c)[i + 1], Steps(c)[i])
      <4>1. Steps(c)[3] = "put_app" /\ Steps(c)[4] = "fix_base_url"
        BY <1>5, BootstrapProgram
      <4>2. Follows("fix_base_url", "put_app")
        BY DEF Follows
      <4> QED
        BY <4>1, <4>2
    <3>4. i = 4 => Follows(Steps(c)[i + 1], Steps(c)[i])
      <4>1. Steps(c)[4] = "fix_base_url" /\ Steps(c)[5] = "save_app"
        BY <1>5, BootstrapProgram
      <4>2. Follows("save_app", "fix_base_url")
        BY DEF Follows
      <4> QED
        BY <4>1, <4>2
    <3>5. i = 5 => Follows(Steps(c)[i + 1], Steps(c)[i])
      <4>1. Steps(c)[5] = "save_app" /\ Steps(c)[6] = "remote_aws"
        BY <1>5, BootstrapProgram
      <4>2. Follows("remote_aws", "save_app")
        BY DEF Follows
      <4> QED
        BY <4>1, <4>2
    <3>6. i = 6 => Follows(Steps(c)[i + 1], Steps(c)[i])
      <4>1. Steps(c)[6] = "remote_aws" /\ Steps(c)[7] = "remote_gcp"
        BY <1>5, BootstrapProgram
      <4>2. Follows("remote_gcp", "remote_aws")
        BY DEF Follows
      <4> QED
        BY <4>1, <4>2
    <3>7. i = 7 => Follows(Steps(c)[i + 1], Steps(c)[i])
      <4>1. Steps(c)[7] = "remote_gcp" /\ Steps(c)[8] = "seed_portfolio"
        BY <1>5, BootstrapProgram
      <4>2. Follows("seed_portfolio", "remote_gcp")
        BY DEF Follows
      <4> QED
        BY <4>1, <4>2
    <3>8. i = 8 => Follows(Steps(c)[i + 1], Steps(c)[i])
      <4>1. Steps(c)[8] = "seed_portfolio" /\ Steps(c)[9] = "save_status"
        BY <1>5, BootstrapProgram
      <4>2. Follows("save_status", "seed_portfolio")
        BY DEF Follows
      <4> QED
        BY <4>1, <4>2
    <3>9. i = 9 => Follows(Steps(c)[i + 1], Steps(c)[i])
      <4>1. Steps(c)[9] = "save_status" /\ Steps(c)[10] = "bootstrap"
        BY <1>5, BootstrapProgram
      <4>2. Follows("bootstrap", "save_status")
        BY DEF Follows
      <4> QED
        BY <4>1, <4>2
    <3> QED
      BY <2>2, <3>1, <3>2, <3>3, <3>4, <3>5, <3>6, <3>7, <3>8, <3>9
  <2>5. Steps(c)[i] = "reuse_aws" =>
          i + 7 <= Len(Steps(c)) /\ Steps(c)[i + 7] \in {"ensure_azure", "provision-aws"}
    BY <1>5, <2>1, <2>2, BootstrapProgram
  <2>6. Steps(c)[i] = "reuse_gcp" =>
          i + 4 <= Len(Steps(c)) /\ Steps(c)[i + 4] \in {"check_manifests", "provision-gcp"}
    BY <1>5, <2>1, <2>2, BootstrapProgram
  <2>7. Steps(c)[i] = "check_manifests" =>
          i + 5 <= Len(Steps(c)) /\ Steps(c)[i + 5] = "remote_aws"
    BY <1>5, <2>1, <2>2, BootstrapProgram
  <2>8. Steps(c)[1] \in {"reuse_aws", "ensure_azure", "reuse_gcp", "check_deploy",
                         "check_manifests"}
    BY <1>5, BootstrapProgram
  <2> QED
    BY <2>1, <2>3, <2>4, <2>5, <2>6, <2>7, <2>8
<1>6. CASE c = "go-live"
  <2>1. Len(Steps(c)) = 23 /\ Steps(c) \in Seq(Names)
    BY <1>6, GoLiveProgram
  <2>2. \/ i = 1 \/ i = 2 \/ i = 3 \/ i = 4 \/ i = 5 \/ i = 6 \/ i = 7
        \/ i = 8 \/ i = 9 \/ i = 10 \/ i = 11 \/ i = 12 \/ i = 13 \/ i = 14
        \/ i = 15 \/ i = 16 \/ i = 17 \/ i = 18 \/ i = 19 \/ i = 20 \/ i = 21
        \/ i = 22 \/ i = 23
    BY <2>1
  <2>3. Steps(c)[i] \in Commands <=> i = 23
    BY <1>6, <2>2, GoLiveProgram
  <2>4. i < 23 => Follows(Steps(c)[i + 1], Steps(c)[i])
    <3>1. i = 1 => Follows(Steps(c)[i + 1], Steps(c)[i])
      <4>1. Steps(c)[1] = "reuse_aws" /\ Steps(c)[2] = "import_key"
        BY <1>6, GoLiveProgram
      <4>2. Follows("import_key", "reuse_aws")
        BY DEF Follows
      <4> QED
        BY <4>1, <4>2
    <3>2. i = 2 => Follows(Steps(c)[i + 1], Steps(c)[i])
      <4>1. Steps(c)[2] = "import_key" /\ Steps(c)[3] = "create_group"
        BY <1>6, GoLiveProgram
      <4>2. Follows("create_group", "import_key")
        BY DEF Follows
      <4> QED
        BY <4>1, <4>2
    <3>3. i = 3 => Follows(Steps(c)[i + 1], Steps(c)[i])
      <4>1. Steps(c)[3] = "create_group" /\ Steps(c)[4] = "run_instances"
        BY <1>6, GoLiveProgram
      <4>2. Follows("run_instances", "create_group")
        BY DEF Follows
      <4> QED
        BY <4>1, <4>2
    <3>4. i = 4 => Follows(Steps(c)[i + 1], Steps(c)[i])
      <4>1. Steps(c)[4] = "run_instances" /\ Steps(c)[5] = "allocate_address"
        BY <1>6, GoLiveProgram
      <4>2. Follows("allocate_address", "run_instances")
        BY DEF Follows
      <4> QED
        BY <4>1, <4>2
    <3>5. i = 5 => Follows(Steps(c)[i + 1], Steps(c)[i])
      <4>1. Steps(c)[5] = "allocate_address" /\ Steps(c)[6] = "associate_address"
        BY <1>6, GoLiveProgram
      <4>2. Follows("associate_address", "allocate_address")
        BY DEF Follows
      <4> QED
        BY <4>1, <4>2
    <3>6. i = 6 => Follows(Steps(c)[i + 1], Steps(c)[i])
      <4>1. Steps(c)[6] = "associate_address" /\ Steps(c)[7] = "save_aws"
        BY <1>6, GoLiveProgram
      <4>2. Follows("save_aws", "associate_address")
        BY DEF Follows
      <4> QED
        BY <4>1, <4>2
    <3>7. i = 7 => Follows(Steps(c)[i + 1], Steps(c)[i])
      <4>1. Steps(c)[7] = "save_aws" /\ Steps(c)[8] = "ensure_azure"
        BY <1>6, GoLiveProgram
      <4>2. Follows("ensure_azure", "save_aws")
        BY DEF Follows
      <4> QED
        BY <4>1, <4>2
    <3>8. i = 8 => Follows(Steps(c)[i + 1], Steps(c)[i])
      <4>1. Steps(c)[8] = "ensure_azure" /\ Steps(c)[9] = "save_azure"
        BY <1>6, GoLiveProgram
      <4>2. Follows("save_azure", "ensure_azure")
        BY DEF Follows
      <4> QED
        BY <4>1, <4>2
    <3>9. i = 9 => Follows(Steps(c)[i + 1], Steps(c)[i])
      <4>1. Steps(c)[9] = "save_azure" /\ Steps(c)[10] = "reuse_gcp"
        BY <1>6, GoLiveProgram
      <4>2. Follows("reuse_gcp", "save_azure")
        BY DEF Follows
      <4> QED
        BY <4>1, <4>2
    <3>10. i = 10 => Follows(Steps(c)[i + 1], Steps(c)[i])
      <4>1. Steps(c)[10] = "reuse_gcp" /\ Steps(c)[11] = "firewall"
        BY <1>6, GoLiveProgram
      <4>2. Follows("firewall", "reuse_gcp")
        BY DEF Follows
      <4> QED
        BY <4>1, <4>2
    <3>11. i = 11 => Follows(Steps(c)[i + 1], Steps(c)[i])
      <4>1. Steps(c)[11] = "firewall" /\ Steps(c)[12] = "instance"
        BY <1>6, GoLiveProgram
      <4>2. Follows("instance", "firewall")
        BY DEF Follows
      <4> QED
        BY <4>1, <4>2
    <3>12. i = 12 => Follows(Steps(c)[i + 1], Steps(c)[i])
      <4>1. Steps(c)[12] = "instance" /\ Steps(c)[13] = "save_gcp"
        BY <1>6, GoLiveProgram
      <4>2. Follows("save_gcp", "instance")
        BY DEF Follows
      <4> QED
        BY <4>1, <4>2
    <3>13. i = 13 => Follows(Steps(c)[i + 1], Steps(c)[i])
      <4>1. Steps(c)[13] = "save_gcp" /\ Steps(c)[14] = "check_manifests"
        BY <1>6, GoLiveProgram
      <4>2. Follows("check_manifests", "save_gcp")
        BY DEF Follows
      <4> QED
        BY <4>1, <4>2
    <3>14. i = 14 => Follows(Steps(c)[i + 1], Steps(c)[i])
      <4>1. Steps(c)[14] = "check_manifests" /\ Steps(c)[15] = "build_image"
        BY <1>6, GoLiveProgram
      <4>2. Follows("build_image", "check_manifests")
        BY DEF Follows
      <4> QED
        BY <4>1, <4>2
    <3>15. i = 15 => Follows(Steps(c)[i + 1], Steps(c)[i])
      <4>1. Steps(c)[15] = "build_image" /\ Steps(c)[16] = "put_app"
        BY <1>6, GoLiveProgram
      <4>2. Follows("put_app", "build_image")
        BY DEF Follows
      <4> QED
        BY <4>1, <4>2
    <3>16. i = 16 => Follows(Steps(c)[i + 1], Steps(c)[i])
      <4>1. Steps(c)[16] = "put_app" /\ Steps(c)[17] = "fix_base_url"
        BY <1>6, GoLiveProgram
      <4>2. Follows("fix_base_url", "put_app")
        BY DEF Follows
      <4> QED
        BY <4>1, <4>2
    <3>17. i = 17 => Follows(Steps(c)[i + 1], Steps(c)[i])
      <4>1. Steps(c)[17] = "fix_base_url" /\ Steps(c)[18] = "save_app"
        BY <1>6, GoLiveProgram
      <4>2. Follows("save_app", "fix_base_url")
        BY DEF Follows
      <4> QED
        BY <4>1, <4>2
    <3>18. i = 18 => Follows(Steps(c)[i + 1], Steps(c)[i])
      <4>1. Steps(c)[18] = "save_app" /\ Steps(c)[19] = "remote_aws"
        BY <1>6, GoLiveProgram
      <4>2. Follows("remote_aws", "save_app")
        BY DEF Follows
      <4> QED
        BY <4>1, <4>2
    <3>19. i = 19 => Follows(Steps(c)[i + 1], Steps(c)[i])
      <4>1. Steps(c)[19] = "remote_aws" /\ Steps(c)[20] = "remote_gcp"
        BY <1>6, GoLiveProgram
      <4>2. Follows("remote_gcp", "remote_aws")
        BY DEF Follows
      <4> QED
        BY <4>1, <4>2
    <3>20. i = 20 => Follows(Steps(c)[i + 1], Steps(c)[i])
      <4>1. Steps(c)[20] = "remote_gcp" /\ Steps(c)[21] = "seed_portfolio"
        BY <1>6, GoLiveProgram
      <4>2. Follows("seed_portfolio", "remote_gcp")
        BY DEF Follows
      <4> QED
        BY <4>1, <4>2
    <3>21. i = 21 => Follows(Steps(c)[i + 1], Steps(c)[i])
      <4>1. Steps(c)[21] = "seed_portfolio" /\ Steps(c)[22] = "save_status"
        BY <1>6, GoLiveProgram
      <4>2. Follows("save_status", "seed_portfolio")
        BY DEF Follows
      <4> QED
        BY <4>1, <4>2
    <3>22. i = 22 => Follows(Steps(c)[i + 1], Steps(c)[i])
      <4>1. Steps(c)[22] = "save_status" /\ Steps(c)[23] = "go-live"
        BY <1>6, GoLiveProgram
      <4>2. Follows("go-live", "save_status")
        BY DEF Follows
      <4> QED
        BY <4>1, <4>2
    <3> QED
      BY <2>2, <3>1, <3>2, <3>3, <3>4, <3>5, <3>6, <3>7, <3>8, <3>9, <3>10, <3>11,
         <3>12, <3>13, <3>14, <3>15, <3>16, <3>17, <3>18, <3>19, <3>20, <3>21, <3>22
  <2>5. Steps(c)[i] = "reuse_aws" =>
          i + 7 <= Len(Steps(c)) /\ Steps(c)[i + 7] \in {"ensure_azure", "provision-aws"}
    <3>1. /\ Steps(c)[2] # "reuse_aws" /\ Steps(c)[3] # "reuse_aws"
          /\ Steps(c)[4] # "reuse_aws" /\ Steps(c)[5] # "reuse_aws"
          /\ Steps(c)[6] # "reuse_aws" /\ Steps(c)[7] # "reuse_aws"
      BY <1>6, GoLiveProgram
    <3>2. /\ Steps(c)[8] # "reuse_aws" /\ Steps(c)[9] # "reuse_aws"
          /\ Steps(c)[10] # "reuse_aws" /\ Steps(c)[11] # "reuse_aws"
          /\ Steps(c)[12] # "reuse_aws" /\ Steps(c)[13] # "reuse_aws"
      BY <1>6, GoLiveProgram
    <3>3. /\ Steps(c)[14] # "reuse_aws" /\ Steps(c)[15] # "reuse_aws"
          /\ Steps(c)[16] # "reuse_aws" /\ Steps(c)[17] # "reuse_aws"
          /\ Steps(c)[18] # "reuse_aws"
      BY <1>6, GoLiveProgram
    <3>4. /\ Steps(c)[19] # "reuse_aws" /\ Steps(c)[20] # "reuse_aws"
          /\ Steps(c)[21] # "reuse_aws" /\ Steps(c)[22] # "reuse_aws"
          /\ Steps(c)[23] # "reuse_aws"
      BY <1>6, GoLiveProgram
    <3>5. Steps(c)[i] = "reuse_aws" => i = 1
      BY <2>2, <3>1, <3>2, <3>3, <3>4
    <3>6. Steps(c)[8] = "ensure_azure"
      BY <1>6, GoLiveProgram
    <3> QED
      BY <2>1, <3>5, <3>6
  <2>6. Steps(c)[i] = "reuse_gcp" =>
          i + 4 <= Len(Steps(c)) /\ Steps(c)[i + 4] \in {"check_manifests", "provision-gcp"}
    <3>1. /\ Steps(c)[1] # "reuse_gcp" /\ Steps(c)[2] # "reuse_gcp"
          /\ Steps(c)[3] # "reuse_gcp" /\ Steps(c)[4] # "reuse_gcp"
          /\ Steps(c)[5] # "reuse_gcp"
      BY <1>6, GoLiveProgram
    <3>2. /\ Steps(c)[6] # "reuse_gcp" /\ Steps(c)[7] # "reuse_gcp"
          /\ Steps(c)[8] # "reuse_gcp" /\ Steps(c)[9] # "reuse_gcp"
      BY <1>6, GoLiveProgram
    <3>3. /\ Steps(c)[11] # "reuse_gcp" /\ Steps(c)[12] # "reuse_gcp"
          /\ Steps(c)[13] # "reuse_gcp" /\ Steps(c)[14] # "reuse_gcp"
          /\ Steps(c)[15] # "reuse_gcp" /\ Steps(c)[16] # "reuse_gcp"
      BY <1>6, GoLiveProgram
    <3>4. /\ Steps(c)[17] # "reuse_gcp" /\ Steps(c)[18] # "reuse_gcp"
          /\ Steps(c)[19] # "reuse_gcp" /\ Steps(c)[20] # "reuse_gcp"
          /\ Steps(c)[21] # "reuse_gcp" /\ Steps(c)[22] # "reuse_gcp"
          /\ Steps(c)[23] # "reuse_gcp"
      BY <1>6, GoLiveProgram
    <3>5. Steps(c)[i] = "reuse_gcp" => i = 10
      BY <2>2, <3>1, <3>2, <3>3, <3>4
    <3>6. Steps(c)[14] = "check_manifests"
      BY <1>6, GoLiveProgram
    <3> QED
      BY <2>1, <3>5, <3>6
  <2>7. Steps(c)[i] = "check_manifests" =>
          i + 5 <= Len(Steps(c)) /\ Steps(c)[i + 5] = "remote_aws"
    <3>1. /\ Steps(c)[1] # "check_manifests" /\ Steps(c)[2] # "check_manifests"
          /\ Steps(c)[3] # "check_manifests" /\ Steps(c)[4] # "check_manifests"
          /\ Steps(c)[5] # "check_manifests" /\ Steps(c)[6] # "check_manifests"
      BY <1>6, GoLiveProgram
    <3>2. /\ Steps(c)[7] # "check_manifests" /\ Steps(c)[8] # "check_manifests"
          /\ Steps(c)[9] # "check_manifests" /\ Steps(c)[10] # "check_manifests"
          /\ Steps(c)[11] # "check_manifests" /\ Steps(c)[12] # "check_manifests"
          /\ Steps(c)[13] # "check_manifests"
      BY <1>6, GoLiveProgram
    <3>3. /\ Steps(c)[15] # "check_manifests" /\ Steps(c)[16] # "check_manifests"
          /\ Steps(c)[17] # "check_manifests" /\ Steps(c)[18] # "check_manifests"
      BY <1>6, GoLiveProgram
    <3>4. /\ Steps(c)[19] # "check_manifests" /\ Steps(c)[20] # "check_manifests"
          /\ Steps(c)[21] # "check_manifests" /\ Steps(c)[22] # "check_manifests"
          /\ Steps(c)[23] # "check_manifests"
      BY <1>6, GoLiveProgram
    <3>5. Steps(c)[i] = "check_manifests" => i = 14
      BY <2>2, <3>1, <3>2, <3>3, <3>4
    <3>6. Steps(c)[19] = "remote_aws"
      BY <1>6, GoLiveProgram
    <3> QED
      BY <2>1, <3>5, <3>6
  <2>8. Steps(c)[1] \in {"reuse_aws", "ensure_azure", "reuse_gcp", "check_deploy",
                         "check_manifests"}
    BY <1>6, GoLiveProgram
  <2> QED
    BY <2>1, <2>3, <2>4, <2>5, <2>6, <2>7, <2>8
<1> QED
  BY <1>1, <1>2, <1>3, <1>4, <1>5, <1>6

\* Every step has a name, and a command has at least one.
LEMMA StepsAreNames ==
  ASSUME NEW c \in Commands
  PROVE  Steps(c) \in Seq(Names) /\ Len(Steps(c)) \in Nat /\ Len(Steps(c)) >= 1
<1>1. c = "provision-aws" \/ c = "provision-azure" \/ c = "provision-gcp"
        \/ c = "deploy-azure" \/ c = "bootstrap" \/ c = "go-live"
  BY DEF Commands
<1>2. CASE c = "provision-aws"
  BY <1>2, AwsProgram
<1>3. CASE c = "provision-azure"
  BY <1>3, AzureProgram
<1>4. CASE c = "provision-gcp"
  BY <1>4, GcpProgram
<1>5. CASE c = "deploy-azure"
  BY <1>5, DeployProgram
<1>6. CASE c = "bootstrap"
  <2>1. Steps("bootstrap") \in Seq(Names)
    BY BootstrapProgram
  <2> DEFINE length == Len(Steps("bootstrap"))
  <2>2. length = 10
    BY BootstrapProgram
  <2> HIDE DEF length
  <2>3. length \in Nat /\ length >= 1
    BY <2>2
  <2> QED
    BY Zenon, <1>6, <2>1, <2>3 DEF length
<1>7. CASE c = "go-live"
  <2>1. Steps("go-live") \in Seq(Names)
    BY GoLiveProgram
  <2> DEFINE length == Len(Steps("go-live"))
  <2>2. length = 23
    BY GoLiveProgram
  <2> HIDE DEF length
  <2>3. length \in Nat /\ length >= 1
    BY <2>2
  <2> QED
    BY Zenon, <1>7, <2>1, <2>3 DEF length
<1> QED
  BY <1>1, <1>2, <1>3, <1>4, <1>5, <1>6, <1>7

-----------------------------------------------------------------------------
(* Where a command is.                                                     *)

\* What a command may have left.
Ending(q) ==
  \E c \in Commands : \E i \in DOMAIN Steps(c) : q = SubSeq(Steps(c), i, Len(Steps(c)))

LEMMA InProgramEnding == InProgram <=> (todo # << >> => Ending(todo))
  BY DEF InProgram, Ending, Steps

\* The end of a sequence, and the end of that.
LEMMA SuffixFacts ==
  ASSUME NEW S, NEW s \in Seq(S), NEW i \in 1..Len(s)
  PROVE  LET q == SubSeq(s, i, Len(s))
         IN  /\ q \in Seq(S) /\ q # << >> /\ Len(q) = Len(s) - i + 1 /\ Head(q) = s[i]
             /\ \A n \in Nat :
                  i + n <= Len(s) => SubSeq(q, n + 1, Len(q)) = SubSeq(s, i + n, Len(s))
<1> DEFINE q == SubSeq(s, i, Len(s))
<1>1. Len(s) \in Nat
  OBVIOUS
<1>2. /\ q \in Seq(S) /\ Len(q) = Len(s) - i + 1
      /\ \A j \in 1..Len(q) : q[j] = s[i + j - 1]
  BY <1>1, SubSeqProperties
<1> HIDE DEF q
<1>3. q # << >> /\ Head(q) = s[i]
  BY <1>1, <1>2
<1>4. ASSUME NEW n \in Nat, i + n <= Len(s)
      PROVE  SubSeq(q, n + 1, Len(q)) = SubSeq(s, i + n, Len(s))
  <2> DEFINE r == SubSeq(q, n + 1, Len(q))
             t == SubSeq(s, i + n, Len(s))
  <2>1. /\ r \in Seq(S) /\ Len(r) = Len(s) - i - n + 1
        /\ \A j \in 1..Len(r) : r[j] = q[n + j]
    BY <1>1, <1>2, <1>4, SubSeqProperties
  <2>2. /\ t \in Seq(S) /\ Len(t) = Len(s) - i - n + 1
        /\ \A j \in 1..Len(t) : t[j] = s[i + n + j - 1]
    BY <1>1, <1>4, SubSeqProperties
  <2> HIDE DEF r, t
  <2>3. \A j \in 1..Len(r) : r[j] = t[j]
    BY <1>1, <1>2, <1>4, <2>1, <2>2
  <2>4. r = t
    BY <2>1, <2>2, <2>3, SeqEqual
  <2> QED
    BY <2>4 DEF r, t
<1> QED
  BY <1>2, <1>3, <1>4 DEF q

\* The step at the head of what is left; only the last is a command's own.
LEMMA EndingHead ==
  ASSUME NEW q, Ending(q)
  PROVE  /\ q \in Seq(Names) /\ q # << >> /\ Head(q) \in Names
         /\ Len(q) = 1 => Head(q) \in Commands
<1>1. PICK c \in Commands : \E i \in DOMAIN Steps(c) : q = SubSeq(Steps(c), i, Len(Steps(c)))
  BY DEF Ending
<1>2. Steps(c) \in Seq(Names) /\ Len(Steps(c)) \in Nat
  BY StepsAreNames
<1>3. PICK i \in 1..Len(Steps(c)) : q = SubSeq(Steps(c), i, Len(Steps(c)))
  BY <1>1, <1>2
<1>4. Steps(c)[i] \in Commands <=> i = Len(Steps(c))
  BY StepFacts
<1>5. q \in Seq(Names) /\ q # << >> /\ Len(q) = Len(Steps(c)) - i + 1 /\ Head(q) = Steps(c)[i]
  BY <1>2, <1>3, SuffixFacts
<1> QED
  BY <1>2, <1>4, <1>5

\* What is left after the next step, and after those that a command skips.
LEMMA EndingSkip ==
  ASSUME NEW q, Ending(q)
  PROVE  /\ Head(q) \notin Commands =>
              LET r == SubSeq(q, 1 + 1, Len(q)) IN Ending(r) /\ Follows(Head(r), Head(q))
         /\ Head(q) = "reuse_aws" =>
              LET r == SubSeq(q, 7 + 1, Len(q))
              IN  Ending(r) /\ Head(r) \in {"ensure_azure", "provision-aws"}
         /\ Head(q) = "reuse_gcp" =>
              LET r == SubSeq(q, 4 + 1, Len(q))
              IN  Ending(r) /\ Head(r) \in {"check_manifests", "provision-gcp"}
         /\ Head(q) = "check_manifests" =>
              LET r == SubSeq(q, 5 + 1, Len(q)) IN Ending(r) /\ Head(r) = "remote_aws"
<1>1. PICK c \in Commands : \E i \in DOMAIN Steps(c) : q = SubSeq(Steps(c), i, Len(Steps(c)))
  BY DEF Ending
<1>2. Steps(c) \in Seq(Names) /\ Len(Steps(c)) \in Nat
  BY StepsAreNames
<1>3. PICK i \in 1..Len(Steps(c)) : q = SubSeq(Steps(c), i, Len(Steps(c)))
  BY <1>1, <1>2
<1>4. /\ Steps(c)[i] \in Commands <=> i = Len(Steps(c))
      /\ i < Len(Steps(c)) => Follows(Steps(c)[i + 1], Steps(c)[i])
      /\ Steps(c)[i] = "reuse_aws" =>
           i + 7 <= Len(Steps(c)) /\ Steps(c)[i + 7] \in {"ensure_azure", "provision-aws"}
      /\ Steps(c)[i] = "reuse_gcp" =>
           i + 4 <= Len(Steps(c)) /\ Steps(c)[i + 4] \in {"check_manifests", "provision-gcp"}
      /\ Steps(c)[i] = "check_manifests" =>
           i + 5 <= Len(Steps(c)) /\ Steps(c)[i + 5] = "remote_aws"
  BY StepFacts
<1>5. Head(q) = Steps(c)[i]
  BY <1>2, <1>3, SuffixFacts
<1>6. ASSUME NEW n \in Nat, i + n <= Len(Steps(c))
      PROVE  /\ Ending(SubSeq(q, n + 1, Len(q)))
             /\ Head(SubSeq(q, n + 1, Len(q))) = Steps(c)[i + n]
  <2>1. SubSeq(q, n + 1, Len(q)) = SubSeq(Steps(c), i + n, Len(Steps(c)))
    BY <1>2, <1>3, <1>6, SuffixFacts
  <2>2. i + n \in 1..Len(Steps(c)) /\ i + n \in DOMAIN Steps(c)
    BY <1>2, <1>6
  <2>3. Head(SubSeq(Steps(c), i + n, Len(Steps(c)))) = Steps(c)[i + n]
    BY <1>2, <2>2, SuffixFacts
  <2> QED
    BY <2>1, <2>2, <2>3 DEF Ending
<1>7. Head(q) \notin Commands =>
        Ending(SubSeq(q, 1 + 1, Len(q))) /\ Follows(Head(SubSeq(q, 1 + 1, Len(q))), Head(q))
  <2> SUFFICES ASSUME Head(q) \notin Commands
               PROVE  /\ Ending(SubSeq(q, 1 + 1, Len(q)))
                      /\ Follows(Head(SubSeq(q, 1 + 1, Len(q))), Head(q))
    OBVIOUS
  <2>1. i < Len(Steps(c)) /\ i + 1 <= Len(Steps(c))
    BY <1>2, <1>4, <1>5
  <2>2. Follows(Steps(c)[i + 1], Steps(c)[i])
    BY <1>4, <2>1
  <2>3. /\ Ending(SubSeq(q, 1 + 1, Len(q)))
        /\ Head(SubSeq(q, 1 + 1, Len(q))) = Steps(c)[i + 1]
    BY <1>6, <2>1
  <2> QED
    BY <1>5, <2>2, <2>3
<1>8. Head(q) = "reuse_aws" =>
        /\ Ending(SubSeq(q, 7 + 1, Len(q)))
        /\ Head(SubSeq(q, 7 + 1, Len(q))) \in {"ensure_azure", "provision-aws"}
  BY <1>4, <1>5, <1>6
<1>9. Head(q) = "reuse_gcp" =>
        /\ Ending(SubSeq(q, 4 + 1, Len(q)))
        /\ Head(SubSeq(q, 4 + 1, Len(q))) \in {"check_manifests", "provision-gcp"}
  BY <1>4, <1>5, <1>6
<1>10. Head(q) = "check_manifests" =>
        Ending(SubSeq(q, 5 + 1, Len(q))) /\ Head(SubSeq(q, 5 + 1, Len(q))) = "remote_aws"
  BY <1>4, <1>5, <1>6
<1> QED
  BY <1>7, <1>8, <1>9, <1>10

\* A command starts with all its steps.
LEMMA EndingStart ==
  ASSUME NEW c \in Commands
  PROVE  /\ Ending(Steps(c)) /\ Steps(c) # << >>
         /\ Head(Steps(c)) \in {"reuse_aws", "ensure_azure", "reuse_gcp", "check_deploy",
                                "check_manifests"}
<1>1. Steps(c) \in Seq(Names) /\ Len(Steps(c)) \in Nat /\ Len(Steps(c)) >= 1
  BY StepsAreNames
<1>2. Steps(c)[1] \in {"reuse_aws", "ensure_azure", "reuse_gcp", "check_deploy",
                       "check_manifests"}
  BY <1>1, StepFacts
<1>3. Steps(c) = SubSeq(Steps(c), 1, Len(Steps(c))) /\ 1 \in DOMAIN Steps(c)
  <2> DEFINE s == Steps(c)
             t == SubSeq(s, 1, Len(s))
  <2>1. /\ t \in Seq(Names) /\ Len(t) = Len(s)
        /\ \A j \in 1..Len(t) : t[j] = s[j]
    BY <1>1, SubSeqProperties
  <2> HIDE DEF s, t
  <2>2. s = t
    BY <1>1, <2>1, SeqEqual DEF s
  <2> QED
    BY <1>1, <2>2 DEF s, t
<1>4. Steps(c) # << >> /\ Head(Steps(c)) = Steps(c)[1]
  BY <1>1
<1> QED
  BY <1>2, <1>3, <1>4 DEF Ending

-----------------------------------------------------------------------------
(* The inductive invariant, action by action.                              *)

\* Where an action leaves the command that takes its next step.
LEMMA Advanced ==
  ASSUME InProgram, todo # << >>, Head(todo) \notin Commands, Skip(1)
  PROVE  todo' # << >> /\ Ending(todo') /\ Follows(Head(todo'), Head(todo))
<1>1. Ending(todo)
  BY InProgramEnding
<1>2. todo' = SubSeq(todo, 1 + 1, Len(todo))
  BY DEF Skip
<1>3. Ending(todo') /\ Follows(Head(todo'), Head(todo))
  BY <1>1, <1>2, EndingSkip
<1> QED
  BY <1>3, EndingHead

\* And the one that skips what is done already.
LEMMA Skipped ==
  ASSUME InProgram, todo # << >>
  PROVE  /\ Head(todo) = "reuse_aws" /\ Skip(Len(provision_aws)) =>
              todo' # << >> /\ Ending(todo') /\ Head(todo') \in {"ensure_azure", "provision-aws"}
         /\ Head(todo) = "reuse_gcp" /\ Skip(Len(provision_gcp)) =>
              todo' # << >> /\ Ending(todo') /\ Head(todo') \in {"check_manifests", "provision-gcp"}
         /\ Head(todo) = "check_manifests" /\ Skip(1 + Len(deploy_azure_container_app)) =>
              todo' # << >> /\ Ending(todo') /\ Head(todo') = "remote_aws"
<1>1. Ending(todo)
  BY InProgramEnding
<1>2. /\ Skip(Len(provision_aws)) => todo' = SubSeq(todo, 7 + 1, Len(todo))
      /\ Skip(Len(provision_gcp)) => todo' = SubSeq(todo, 4 + 1, Len(todo))
      /\ Skip(1 + Len(deploy_azure_container_app)) => todo' = SubSeq(todo, 5 + 1, Len(todo))
  BY AwsSteps, GcpSteps, AppSteps DEF Skip
<1>3. /\ Head(todo) = "reuse_aws" /\ Skip(Len(provision_aws)) =>
           Ending(todo') /\ Head(todo') \in {"ensure_azure", "provision-aws"}
      /\ Head(todo) = "reuse_gcp" /\ Skip(Len(provision_gcp)) =>
           Ending(todo') /\ Head(todo') \in {"check_manifests", "provision-gcp"}
      /\ Head(todo) = "check_manifests" /\ Skip(1 + Len(deploy_azure_container_app)) =>
           Ending(todo') /\ Head(todo') = "remote_aws"
  BY <1>1, <1>2, EndingSkip
<1> QED
  BY <1>3, EndingHead

\* What a manifest holds is not nothing, and the environments tell their fields.
LEMMA RecordFacts ==
  /\ \A x : [public_ip |-> x] # Nil /\ [public_ip |-> x].public_ip = x
  /\ \A x : [base_url |-> x] # Nil /\ [base_url |-> x].base_url = x
  /\ \A x, y : [endpoints |-> x, portfolio_seeded |-> y] # Nil
  /\ \A x : azure_container_env_vars(x) # Nil
  /\ NoUrl # Fqdn
<1>1. \A x : DOMAIN [public_ip |-> x] = {"public_ip"} /\ DOMAIN [base_url |-> x] = {"base_url"}
  OBVIOUS
<1>2. \A x, y : DOMAIN [endpoints |-> x, portfolio_seeded |-> y]
                  = {"endpoints", "portfolio_seeded"}
  OBVIOUS
<1>3. DOMAIN Nil = {}
  BY DEF Nil
<1>4. NoUrl # Fqdn
  BY DEF NoUrl, Fqdn
<1>5. \A x : DOMAIN azure_container_env_vars(x) = {"BASE_URL", "REGISTRY_URL"}
  BY DEF azure_container_env_vars
<1> QED
  BY <1>1, <1>2, <1>3, <1>4, <1>5

\* The instances and those left over are finite sets.
LEMMA FiniteInstances ==
  ASSUME TypeOK
  PROVE  IsFiniteSet(ec2.instances) /\ IsFiniteSet(Orphans) /\ Cardinality(Orphans) \in Nat
<1>1. ec2.instances \subseteq 1..MaxCommands
  BY DEF TypeOK
<1>2. IsFiniteSet(1..MaxCommands)
  BY BoundsAssumption, FS_Interval
<1>3. IsFiniteSet(ec2.instances)
  BY <1>1, <1>2, FS_Subset
<1>4. Orphans \subseteq ec2.instances
  BY DEF Orphans
<1> QED
  BY <1>3, <1>4, FS_Subset, FS_CardinalityType

\* The key pair of an attempt.
LEMMA ImportKeyKeeps ==
  ASSUME DeployInv, CreateEc2("import_key", "keys")
  PROVE  DeployInv'
<1>1. /\ TypeOK /\ ManifestsAreLive /\ InProgram /\ ProvisionDone /\ DeployDone
      /\ AppFollows /\ OrphanBudget
  BY DEF DeployInv
<1>2. /\ replace' = replace /\ attempt' = attempt /\ seeded' = seeded /\ azure' = azure
      /\ gcp' = gcp /\ app' = app /\ hosts' = hosts /\ portfolio' = portfolio
      /\ live' = live /\ completed' = completed /\ used' = used
  BY DEF CreateEc2, Advance, cloud, local
<1>3. /\ todo # << >> /\ Head(todo) = "import_key"
      /\ todo' # << >> /\ Ending(todo') /\ Head(todo') \in {"create_group"}
  <2>1. todo # << >> /\ Head(todo) = "import_key" /\ Skip(1)
    BY DEF CreateEc2, Advance, At
  <2>2. Head(todo) \notin Commands
    BY <2>1 DEF Commands
  <2>3. todo' # << >> /\ Ending(todo') /\ Follows(Head(todo'), Head(todo))
    BY <1>1, <2>1, <2>2, Advanced
  <2> QED
    BY <2>1, <2>3 DEF Follows
<1>4. /\ attempt \in 1..MaxCommands
      /\ ec2' \in [keys : SUBSET (1..MaxCommands), groups : SUBSET (1..MaxCommands),
                  instances : SUBSET (1..MaxCommands), addresses : SUBSET (1..MaxCommands),
                  attached : SUBSET (1..MaxCommands)]
      /\ ec2'.keys = ec2.keys \union {attempt}
      /\ ec2'.groups = ec2.groups
      /\ ec2'.instances = ec2.instances
      /\ ec2'.addresses = ec2.addresses
      /\ ec2'.attached = ec2.attached
  <2>1. attempt \in 1..MaxCommands
    BY <1>1, <1>3 DEF TypeOK
  <2>2. ec2' = [ec2 EXCEPT !["keys"] = @ \union {attempt}]
    BY DEF CreateEc2, Advance
  <2> QED
    BY <1>1, <2>1, <2>2 DEF TypeOK
<1>5. TypeOK'
  BY <1>1, <1>2, <1>3, <1>4 DEF TypeOK, AzureResources
<1>6. ManifestsAreLive'
  BY <1>1, <1>2, <1>3, <1>4 DEF ManifestsAreLive
<1>7. InProgram'
  <2>1. InProgram' <=> (todo' # << >> => Ending(todo'))
    BY DEF InProgram, Ending, Steps
  <2> QED
    BY <1>3, <2>1
<1>8. ProvisionDone'
  BY <1>1, <1>2, <1>3, <1>4 DEF ProvisionDone, At, AtAny
<1>9. DeployDone'
  BY <1>1, <1>2, <1>3, <1>4
     DEF DeployDone, At, AtAny, DeployingApp, Bootstrapping, ManifestsPresent, AppAgrees, Told,
         Endpoints, azure_container_env_vars, provisional_base_url
<1>10. AppFollows'
  BY <1>1, <1>2, <1>3, <1>4
     DEF AppFollows, Undisturbed, AppAgrees, azure_container_env_vars, At
<1>11. OrphanBudget'
  <2>1. Orphans' = Orphans
    BY <1>1, <1>2, <1>3, <1>4 DEF Orphans
  <2>2. Cardinality(Orphans) \in Nat
    BY <1>1, FiniteInstances
  <2> QED
    BY <1>1, <1>2, <1>3, <1>4, <2>1, <2>2
       DEF TypeOK, OrphanBudget, AtAny, BeforeInstance, AfterInstance
<1> QED
  BY <1>5, <1>6, <1>7, <1>8, <1>9, <1>10, <1>11 DEF DeployInv

\* The group of an attempt.
LEMMA CreateGroupKeeps ==
  ASSUME DeployInv, CreateEc2("create_group", "groups")
  PROVE  DeployInv'
<1>1. /\ TypeOK /\ ManifestsAreLive /\ InProgram /\ ProvisionDone /\ DeployDone
      /\ AppFollows /\ OrphanBudget
  BY DEF DeployInv
<1>2. /\ replace' = replace /\ attempt' = attempt /\ seeded' = seeded /\ azure' = azure
      /\ gcp' = gcp /\ app' = app /\ hosts' = hosts /\ portfolio' = portfolio
      /\ live' = live /\ completed' = completed /\ used' = used
  BY DEF CreateEc2, Advance, cloud, local
<1>3. /\ todo # << >> /\ Head(todo) = "create_group"
      /\ todo' # << >> /\ Ending(todo') /\ Head(todo') \in {"run_instances"}
  <2>1. todo # << >> /\ Head(todo) = "create_group" /\ Skip(1)
    BY DEF CreateEc2, Advance, At
  <2>2. Head(todo) \notin Commands
    BY <2>1 DEF Commands
  <2>3. todo' # << >> /\ Ending(todo') /\ Follows(Head(todo'), Head(todo))
    BY <1>1, <2>1, <2>2, Advanced
  <2> QED
    BY <2>1, <2>3 DEF Follows
<1>4. /\ attempt \in 1..MaxCommands
      /\ ec2' \in [keys : SUBSET (1..MaxCommands), groups : SUBSET (1..MaxCommands),
                  instances : SUBSET (1..MaxCommands), addresses : SUBSET (1..MaxCommands),
                  attached : SUBSET (1..MaxCommands)]
      /\ ec2'.groups = ec2.groups \union {attempt}
      /\ ec2'.keys = ec2.keys
      /\ ec2'.instances = ec2.instances
      /\ ec2'.addresses = ec2.addresses
      /\ ec2'.attached = ec2.attached
  <2>1. attempt \in 1..MaxCommands
    BY <1>1, <1>3 DEF TypeOK
  <2>2. ec2' = [ec2 EXCEPT !["groups"] = @ \union {attempt}]
    BY DEF CreateEc2, Advance
  <2> QED
    BY <1>1, <2>1, <2>2 DEF TypeOK
<1>5. TypeOK'
  BY <1>1, <1>2, <1>3, <1>4 DEF TypeOK, AzureResources
<1>6. ManifestsAreLive'
  BY <1>1, <1>2, <1>3, <1>4 DEF ManifestsAreLive
<1>7. InProgram'
  <2>1. InProgram' <=> (todo' # << >> => Ending(todo'))
    BY DEF InProgram, Ending, Steps
  <2> QED
    BY <1>3, <2>1
<1>8. ProvisionDone'
  BY <1>1, <1>2, <1>3, <1>4 DEF ProvisionDone, At, AtAny
<1>9. DeployDone'
  BY <1>1, <1>2, <1>3, <1>4
     DEF DeployDone, At, AtAny, DeployingApp, Bootstrapping, ManifestsPresent, AppAgrees, Told,
         Endpoints, azure_container_env_vars, provisional_base_url
<1>10. AppFollows'
  BY <1>1, <1>2, <1>3, <1>4
     DEF AppFollows, Undisturbed, AppAgrees, azure_container_env_vars, At
<1>11. OrphanBudget'
  <2>1. Orphans' = Orphans
    BY <1>1, <1>2, <1>3, <1>4 DEF Orphans
  <2>2. Cardinality(Orphans) \in Nat
    BY <1>1, FiniteInstances
  <2> QED
    BY <1>1, <1>2, <1>3, <1>4, <2>1, <2>2
       DEF TypeOK, OrphanBudget, AtAny, BeforeInstance, AfterInstance
<1> QED
  BY <1>5, <1>6, <1>7, <1>8, <1>9, <1>10, <1>11 DEF DeployInv

\* The address of an attempt that has its instance.
LEMMA AllocateAddressKeeps ==
  ASSUME DeployInv, CreateEc2("allocate_address", "addresses")
  PROVE  DeployInv'
<1>1. /\ TypeOK /\ ManifestsAreLive /\ InProgram /\ ProvisionDone /\ DeployDone
      /\ AppFollows /\ OrphanBudget
  BY DEF DeployInv
<1>2. /\ replace' = replace /\ attempt' = attempt /\ seeded' = seeded /\ azure' = azure
      /\ gcp' = gcp /\ app' = app /\ hosts' = hosts /\ portfolio' = portfolio
      /\ live' = live /\ completed' = completed /\ used' = used
  BY DEF CreateEc2, Advance, cloud, local
<1>3. /\ todo # << >> /\ Head(todo) = "allocate_address"
      /\ todo' # << >> /\ Ending(todo') /\ Head(todo') \in {"associate_address"}
  <2>1. todo # << >> /\ Head(todo) = "allocate_address" /\ Skip(1)
    BY DEF CreateEc2, Advance, At
  <2>2. Head(todo) \notin Commands
    BY <2>1 DEF Commands
  <2>3. todo' # << >> /\ Ending(todo') /\ Follows(Head(todo'), Head(todo))
    BY <1>1, <2>1, <2>2, Advanced
  <2> QED
    BY <2>1, <2>3 DEF Follows
<1>4. /\ attempt \in 1..MaxCommands
      /\ ec2' \in [keys : SUBSET (1..MaxCommands), groups : SUBSET (1..MaxCommands),
                  instances : SUBSET (1..MaxCommands), addresses : SUBSET (1..MaxCommands),
                  attached : SUBSET (1..MaxCommands)]
      /\ ec2'.addresses = ec2.addresses \union {attempt}
      /\ ec2'.keys = ec2.keys
      /\ ec2'.groups = ec2.groups
      /\ ec2'.instances = ec2.instances
      /\ ec2'.attached = ec2.attached
  <2>1. attempt \in 1..MaxCommands
    BY <1>1, <1>3 DEF TypeOK
  <2>2. ec2' = [ec2 EXCEPT !["addresses"] = @ \union {attempt}]
    BY DEF CreateEc2, Advance
  <2> QED
    BY <1>1, <2>1, <2>2 DEF TypeOK
<1>5. TypeOK'
  BY <1>1, <1>2, <1>3, <1>4 DEF TypeOK, AzureResources
<1>6. ManifestsAreLive'
  BY <1>1, <1>2, <1>3, <1>4 DEF ManifestsAreLive
<1>7. InProgram'
  <2>1. InProgram' <=> (todo' # << >> => Ending(todo'))
    BY DEF InProgram, Ending, Steps
  <2> QED
    BY <1>3, <2>1
<1>8. ProvisionDone'
  BY <1>1, <1>2, <1>3, <1>4 DEF ProvisionDone, At, AtAny
<1>9. DeployDone'
  BY <1>1, <1>2, <1>3, <1>4
     DEF DeployDone, At, AtAny, DeployingApp, Bootstrapping, ManifestsPresent, AppAgrees, Told,
         Endpoints, azure_container_env_vars, provisional_base_url
<1>10. AppFollows'
  BY <1>1, <1>2, <1>3, <1>4
     DEF AppFollows, Undisturbed, AppAgrees, azure_container_env_vars, At
<1>11. OrphanBudget'
  <2>1. Orphans' = Orphans
    BY <1>1, <1>2, <1>3, <1>4 DEF Orphans
  <2>2. Cardinality(Orphans) \in Nat
    BY <1>1, FiniteInstances
  <2> QED
    BY <1>1, <1>2, <1>3, <1>4, <2>1, <2>2
       DEF TypeOK, OrphanBudget, AtAny, BeforeInstance, AfterInstance
<1> QED
  BY <1>5, <1>6, <1>7, <1>8, <1>9, <1>10, <1>11 DEF DeployInv

\* The address is the instance's own.
LEMMA AssociateAddressKeeps ==
  ASSUME DeployInv, CreateEc2("associate_address", "attached")
  PROVE  DeployInv'
<1>1. /\ TypeOK /\ ManifestsAreLive /\ InProgram /\ ProvisionDone /\ DeployDone
      /\ AppFollows /\ OrphanBudget
  BY DEF DeployInv
<1>2. /\ replace' = replace /\ attempt' = attempt /\ seeded' = seeded /\ azure' = azure
      /\ gcp' = gcp /\ app' = app /\ hosts' = hosts /\ portfolio' = portfolio
      /\ live' = live /\ completed' = completed /\ used' = used
  BY DEF CreateEc2, Advance, cloud, local
<1>3. /\ todo # << >> /\ Head(todo) = "associate_address"
      /\ todo' # << >> /\ Ending(todo') /\ Head(todo') \in {"save_aws"}
  <2>1. todo # << >> /\ Head(todo) = "associate_address" /\ Skip(1)
    BY DEF CreateEc2, Advance, At
  <2>2. Head(todo) \notin Commands
    BY <2>1 DEF Commands
  <2>3. todo' # << >> /\ Ending(todo') /\ Follows(Head(todo'), Head(todo))
    BY <1>1, <2>1, <2>2, Advanced
  <2> QED
    BY <2>1, <2>3 DEF Follows
<1>4. /\ attempt \in 1..MaxCommands
      /\ ec2' \in [keys : SUBSET (1..MaxCommands), groups : SUBSET (1..MaxCommands),
                  instances : SUBSET (1..MaxCommands), addresses : SUBSET (1..MaxCommands),
                  attached : SUBSET (1..MaxCommands)]
      /\ ec2'.attached = ec2.attached \union {attempt}
      /\ ec2'.keys = ec2.keys
      /\ ec2'.groups = ec2.groups
      /\ ec2'.instances = ec2.instances
      /\ ec2'.addresses = ec2.addresses
  <2>1. attempt \in 1..MaxCommands
    BY <1>1, <1>3 DEF TypeOK
  <2>2. ec2' = [ec2 EXCEPT !["attached"] = @ \union {attempt}]
    BY DEF CreateEc2, Advance
  <2> QED
    BY <1>1, <2>1, <2>2 DEF TypeOK
<1>5. TypeOK'
  BY <1>1, <1>2, <1>3, <1>4 DEF TypeOK, AzureResources
<1>6. ManifestsAreLive'
  BY <1>1, <1>2, <1>3, <1>4 DEF ManifestsAreLive
<1>7. InProgram'
  <2>1. InProgram' <=> (todo' # << >> => Ending(todo'))
    BY DEF InProgram, Ending, Steps
  <2> QED
    BY <1>3, <2>1
<1>8. ProvisionDone'
  BY <1>1, <1>2, <1>3, <1>4 DEF ProvisionDone, At, AtAny
<1>9. DeployDone'
  BY <1>1, <1>2, <1>3, <1>4
     DEF DeployDone, At, AtAny, DeployingApp, Bootstrapping, ManifestsPresent, AppAgrees, Told,
         Endpoints, azure_container_env_vars, provisional_base_url
<1>10. AppFollows'
  BY <1>1, <1>2, <1>3, <1>4
     DEF AppFollows, Undisturbed, AppAgrees, azure_container_env_vars, At
<1>11. OrphanBudget'
  <2>1. Orphans' = Orphans
    BY <1>1, <1>2, <1>3, <1>4 DEF Orphans
  <2>2. Cardinality(Orphans) \in Nat
    BY <1>1, FiniteInstances
  <2> QED
    BY <1>1, <1>2, <1>3, <1>4, <2>1, <2>2
       DEF TypeOK, OrphanBudget, AtAny, BeforeInstance, AfterInstance
<1> QED
  BY <1>5, <1>6, <1>7, <1>8, <1>9, <1>10, <1>11 DEF DeployInv

\* The Azure manifest is written when the resources are there.
LEMMA SaveAzureKeeps ==
  ASSUME DeployInv, SaveAzure
  PROVE  DeployInv'
<1>1. /\ TypeOK /\ ManifestsAreLive /\ InProgram /\ ProvisionDone /\ DeployDone
      /\ AppFollows /\ OrphanBudget
  BY DEF DeployInv
<1>2. /\ replace' = replace /\ attempt' = attempt /\ seeded' = seeded /\ ec2' = ec2
      /\ azure' = azure /\ gcp' = gcp /\ app' = app /\ hosts' = hosts
      /\ portfolio' = portfolio /\ completed' = completed /\ used' = used
  BY DEF SaveAzure, Advance, cloud, local
<1>3. /\ todo # << >> /\ Head(todo) = "save_azure"
      /\ todo' # << >> /\ Ending(todo') /\ Head(todo') \in {"provision-azure", "reuse_gcp"}
  <2>1. todo # << >> /\ Head(todo) = "save_azure" /\ Skip(1)
    BY DEF SaveAzure, Advance, At
  <2>2. Head(todo) \notin Commands
    BY <2>1 DEF Commands
  <2>3. todo' # << >> /\ Ending(todo') /\ Follows(Head(todo'), Head(todo))
    BY <1>1, <2>1, <2>2, Advanced
  <2> QED
    BY <2>1, <2>3 DEF Follows
<1>4. /\ DOMAIN live' = Manifests /\ live'["azure"] \in [base_url : {NoUrl, Fqdn}]
      /\ live'["azure"].base_url # NoUrl => app # Nil
      /\ live'["aws"] = live["aws"] /\ live'["gcp"] = live["gcp"] /\ live'["status"] = live["status"]
  BY <1>1, RecordFacts DEF TypeOK, Manifests, SaveAzure, Advance
<1>5. TypeOK'
  BY <1>1, <1>2, <1>3, <1>4 DEF TypeOK, AzureResources
<1>6. ManifestsAreLive'
  <2>1. azure = ToSet(AzureResources)
    BY <1>1, <1>3 DEF ProvisionDone, At
  <2> QED
    BY <1>1, <1>2, <1>4, <2>1 DEF ManifestsAreLive
<1>7. InProgram'
  <2>1. InProgram' <=> (todo' # << >> => Ending(todo'))
    BY DEF InProgram, Ending, Steps
  <2> QED
    BY <1>3, <2>1
<1>8. ProvisionDone'
  BY <1>1, <1>2, <1>3, <1>4 DEF ProvisionDone, At, AtAny
<1>9. DeployDone'
  BY <1>1, <1>2, <1>3, <1>4
     DEF DeployDone, At, AtAny, DeployingApp, Bootstrapping, ManifestsPresent, AppAgrees, Told,
         Endpoints, azure_container_env_vars, provisional_base_url
<1>10. AppFollows'
  BY <1>1, <1>2, <1>3, <1>4
     DEF AppFollows, Undisturbed, AppAgrees, azure_container_env_vars, At
<1>11. OrphanBudget'
  <2>1. Orphans' = Orphans
    BY <1>1, <1>2, <1>3, <1>4 DEF Orphans
  <2>2. Cardinality(Orphans) \in Nat
    BY <1>1, FiniteInstances
  <2> QED
    BY <1>1, <1>2, <1>3, <1>4, <2>1, <2>2
       DEF TypeOK, OrphanBudget, AtAny, BeforeInstance, AfterInstance
<1> QED
  BY <1>5, <1>6, <1>7, <1>8, <1>9, <1>10, <1>11 DEF DeployInv

\* The firewall rule.
LEMMA FirewallKeeps ==
  ASSUME DeployInv, At("firewall"), EnsureGcp
  PROVE  DeployInv'
<1>1. /\ TypeOK /\ ManifestsAreLive /\ InProgram /\ ProvisionDone /\ DeployDone
      /\ AppFollows /\ OrphanBudget
  BY DEF DeployInv
<1>2. /\ replace' = replace /\ attempt' = attempt /\ seeded' = seeded /\ ec2' = ec2
      /\ azure' = azure /\ app' = app /\ hosts' = hosts /\ portfolio' = portfolio
      /\ live' = live /\ completed' = completed /\ used' = used
  BY DEF EnsureGcp, Advance, cloud, local
<1>3. /\ todo # << >> /\ Head(todo) = "firewall"
      /\ todo' # << >> /\ Ending(todo') /\ Head(todo') \in {"instance"}
  <2>1. todo # << >> /\ Head(todo) = "firewall" /\ Skip(1)
    BY DEF EnsureGcp, Advance, At
  <2>2. Head(todo) \notin Commands
    BY <2>1 DEF Commands
  <2>3. todo' # << >> /\ Ending(todo') /\ Follows(Head(todo'), Head(todo))
    BY <1>1, <2>1, <2>2, Advanced
  <2> QED
    BY <2>1, <2>3 DEF Follows
<1>4. /\ gcp' = gcp \union {"firewall"}
  BY DEF At, EnsureGcp, Advance
<1>5. TypeOK'
  BY <1>1, <1>2, <1>3, <1>4 DEF TypeOK, AzureResources
<1>6. ManifestsAreLive'
  BY <1>1, <1>2, <1>3, <1>4 DEF ManifestsAreLive
<1>7. InProgram'
  <2>1. InProgram' <=> (todo' # << >> => Ending(todo'))
    BY DEF InProgram, Ending, Steps
  <2> QED
    BY <1>3, <2>1
<1>8. ProvisionDone'
  BY <1>1, <1>2, <1>3, <1>4 DEF ProvisionDone, At, AtAny
<1>9. DeployDone'
  BY <1>1, <1>2, <1>3, <1>4
     DEF DeployDone, At, AtAny, DeployingApp, Bootstrapping, ManifestsPresent, AppAgrees, Told,
         Endpoints, azure_container_env_vars, provisional_base_url
<1>10. AppFollows'
  BY <1>1, <1>2, <1>3, <1>4
     DEF AppFollows, Undisturbed, AppAgrees, azure_container_env_vars, At
<1>11. OrphanBudget'
  <2>1. Orphans' = Orphans
    BY <1>1, <1>2, <1>3, <1>4 DEF Orphans
  <2>2. Cardinality(Orphans) \in Nat
    BY <1>1, FiniteInstances
  <2> QED
    BY <1>1, <1>2, <1>3, <1>4, <2>1, <2>2
       DEF TypeOK, OrphanBudget, AtAny, BeforeInstance, AfterInstance
<1> QED
  BY <1>5, <1>6, <1>7, <1>8, <1>9, <1>10, <1>11 DEF DeployInv

\* The GCP VM, with its firewall rule.
LEMMA InstanceKeeps ==
  ASSUME DeployInv, At("instance"), EnsureGcp
  PROVE  DeployInv'
<1>1. /\ TypeOK /\ ManifestsAreLive /\ InProgram /\ ProvisionDone /\ DeployDone
      /\ AppFollows /\ OrphanBudget
  BY DEF DeployInv
<1>2. /\ replace' = replace /\ attempt' = attempt /\ seeded' = seeded /\ ec2' = ec2
      /\ azure' = azure /\ app' = app /\ hosts' = hosts /\ portfolio' = portfolio
      /\ live' = live /\ completed' = completed /\ used' = used
  BY DEF EnsureGcp, Advance, cloud, local
<1>3. /\ todo # << >> /\ Head(todo) = "instance"
      /\ todo' # << >> /\ Ending(todo') /\ Head(todo') \in {"save_gcp"}
  <2>1. todo # << >> /\ Head(todo) = "instance" /\ Skip(1)
    BY DEF EnsureGcp, Advance, At
  <2>2. Head(todo) \notin Commands
    BY <2>1 DEF Commands
  <2>3. todo' # << >> /\ Ending(todo') /\ Follows(Head(todo'), Head(todo))
    BY <1>1, <2>1, <2>2, Advanced
  <2> QED
    BY <2>1, <2>3 DEF Follows
<1>4. /\ gcp' = gcp \union {"instance"}
  BY DEF At, EnsureGcp, Advance
<1>5. TypeOK'
  BY <1>1, <1>2, <1>3, <1>4 DEF TypeOK, AzureResources
<1>6. ManifestsAreLive'
  BY <1>1, <1>2, <1>3, <1>4 DEF ManifestsAreLive
<1>7. InProgram'
  <2>1. InProgram' <=> (todo' # << >> => Ending(todo'))
    BY DEF InProgram, Ending, Steps
  <2> QED
    BY <1>3, <2>1
<1>8. ProvisionDone'
  BY <1>1, <1>2, <1>3, <1>4 DEF ProvisionDone, At, AtAny
<1>9. DeployDone'
  BY <1>1, <1>2, <1>3, <1>4
     DEF DeployDone, At, AtAny, DeployingApp, Bootstrapping, ManifestsPresent, AppAgrees, Told,
         Endpoints, azure_container_env_vars, provisional_base_url
<1>10. AppFollows'
  BY <1>1, <1>2, <1>3, <1>4
     DEF AppFollows, Undisturbed, AppAgrees, azure_container_env_vars, At
<1>11. OrphanBudget'
  <2>1. Orphans' = Orphans
    BY <1>1, <1>2, <1>3, <1>4 DEF Orphans
  <2>2. Cardinality(Orphans) \in Nat
    BY <1>1, FiniteInstances
  <2> QED
    BY <1>1, <1>2, <1>3, <1>4, <2>1, <2>2
       DEF TypeOK, OrphanBudget, AtAny, BeforeInstance, AfterInstance
<1> QED
  BY <1>5, <1>6, <1>7, <1>8, <1>9, <1>10, <1>11 DEF DeployInv

\* The GCP manifest is written when the VM is there.
LEMMA SaveGcpKeeps ==
  ASSUME DeployInv, SaveGcp
  PROVE  DeployInv'
<1>1. /\ TypeOK /\ ManifestsAreLive /\ InProgram /\ ProvisionDone /\ DeployDone
      /\ AppFollows /\ OrphanBudget
  BY DEF DeployInv
<1>2. /\ replace' = replace /\ attempt' = attempt /\ seeded' = seeded /\ ec2' = ec2
      /\ azure' = azure /\ gcp' = gcp /\ app' = app /\ hosts' = hosts
      /\ portfolio' = portfolio /\ completed' = completed /\ used' = used
  BY DEF SaveGcp, Advance, cloud, local
<1>3. /\ todo # << >> /\ Head(todo) = "save_gcp"
      /\ todo' # << >> /\ Ending(todo') /\ Head(todo') \in {"provision-gcp", "check_manifests"}
  <2>1. todo # << >> /\ Head(todo) = "save_gcp" /\ Skip(1)
    BY DEF SaveGcp, Advance, At
  <2>2. Head(todo) \notin Commands
    BY <2>1 DEF Commands
  <2>3. todo' # << >> /\ Ending(todo') /\ Follows(Head(todo'), Head(todo))
    BY <1>1, <2>1, <2>2, Advanced
  <2> QED
    BY <2>1, <2>3 DEF Follows
<1>4. /\ DOMAIN live' = Manifests /\ live'["gcp"] = [public_ip |-> GcpIp]
      /\ live'["gcp"] # Nil /\ live'["gcp"].public_ip = GcpIp
      /\ live'["aws"] = live["aws"] /\ live'["azure"] = live["azure"] /\ live'["status"] = live["status"]
  BY <1>1, RecordFacts DEF TypeOK, Manifests, SaveGcp, Advance
<1>5. TypeOK'
  BY <1>1, <1>2, <1>3, <1>4 DEF TypeOK, AzureResources
<1>6. ManifestsAreLive'
  <2>1. gcp = {"firewall", "instance"}
    BY <1>1, <1>3 DEF TypeOK, ProvisionDone, At, AtAny
  <2> QED
    BY <1>1, <1>2, <1>4, <2>1 DEF ManifestsAreLive
<1>7. InProgram'
  <2>1. InProgram' <=> (todo' # << >> => Ending(todo'))
    BY DEF InProgram, Ending, Steps
  <2> QED
    BY <1>3, <2>1
<1>8. ProvisionDone'
  BY <1>1, <1>2, <1>3, <1>4 DEF ProvisionDone, At, AtAny
<1>9. DeployDone'
  BY <1>1, <1>2, <1>3, <1>4
     DEF DeployDone, At, AtAny, DeployingApp, Bootstrapping, ManifestsPresent, AppAgrees, Told,
         Endpoints, azure_container_env_vars, provisional_base_url
<1>10. AppFollows'
  BY <1>1, <1>2, <1>3, <1>4
     DEF AppFollows, Undisturbed, AppAgrees, azure_container_env_vars, At
<1>11. OrphanBudget'
  <2>1. Orphans' = Orphans
    BY <1>1, <1>2, <1>3, <1>4 DEF Orphans
  <2>2. Cardinality(Orphans) \in Nat
    BY <1>1, FiniteInstances
  <2> QED
    BY <1>1, <1>2, <1>3, <1>4, <2>1, <2>2
       DEF TypeOK, OrphanBudget, AtAny, BeforeInstance, AfterInstance
<1> QED
  BY <1>5, <1>6, <1>7, <1>8, <1>9, <1>10, <1>11 DEF DeployInv

\* deploy-azure goes on when the manifests are there.
LEMMA CheckDeployKeeps ==
  ASSUME DeployInv, CheckDeploy
  PROVE  DeployInv'
<1>1. /\ TypeOK /\ ManifestsAreLive /\ InProgram /\ ProvisionDone /\ DeployDone
      /\ AppFollows /\ OrphanBudget
  BY DEF DeployInv
<1>2. /\ replace' = replace /\ attempt' = attempt /\ seeded' = seeded /\ ec2' = ec2
      /\ azure' = azure /\ gcp' = gcp /\ app' = app /\ hosts' = hosts
      /\ portfolio' = portfolio /\ live' = live /\ completed' = completed /\ used' = used
  BY DEF CheckDeploy, Advance, cloud, local
<1>3. /\ todo # << >> /\ Head(todo) = "check_deploy"
      /\ todo' # << >> /\ Ending(todo') /\ Head(todo') \in {"build_image"}
  <2>1. todo # << >> /\ Head(todo) = "check_deploy" /\ Skip(1)
    BY DEF CheckDeploy, Advance, At
  <2>2. Head(todo) \notin Commands
    BY <2>1 DEF Commands
  <2>3. todo' # << >> /\ Ending(todo') /\ Follows(Head(todo'), Head(todo))
    BY <1>1, <2>1, <2>2, Advanced
  <2> QED
    BY <2>1, <2>3 DEF Follows
<1>4. /\ ManifestsPresent
  BY DEF CheckDeploy, Advance
<1>5. TypeOK'
  BY <1>1, <1>2, <1>3, <1>4 DEF TypeOK, AzureResources
<1>6. ManifestsAreLive'
  BY <1>1, <1>2, <1>3, <1>4 DEF ManifestsAreLive
<1>7. InProgram'
  <2>1. InProgram' <=> (todo' # << >> => Ending(todo'))
    BY DEF InProgram, Ending, Steps
  <2> QED
    BY <1>3, <2>1
<1>8. ProvisionDone'
  BY <1>1, <1>2, <1>3, <1>4 DEF ProvisionDone, At, AtAny
<1>9. DeployDone'
  BY <1>1, <1>2, <1>3, <1>4
     DEF DeployDone, At, AtAny, DeployingApp, Bootstrapping, ManifestsPresent, AppAgrees, Told,
         Endpoints, azure_container_env_vars, provisional_base_url
<1>10. AppFollows'
  BY <1>1, <1>2, <1>3, <1>4
     DEF AppFollows, Undisturbed, AppAgrees, azure_container_env_vars, At
<1>11. OrphanBudget'
  <2>1. Orphans' = Orphans
    BY <1>1, <1>2, <1>3, <1>4 DEF Orphans
  <2>2. Cardinality(Orphans) \in Nat
    BY <1>1, FiniteInstances
  <2> QED
    BY <1>1, <1>2, <1>3, <1>4, <2>1, <2>2
       DEF TypeOK, OrphanBudget, AtAny, BeforeInstance, AfterInstance
<1> QED
  BY <1>5, <1>6, <1>7, <1>8, <1>9, <1>10, <1>11 DEF DeployInv

\* The image.
LEMMA BuildImageKeeps ==
  ASSUME DeployInv, BuildImage
  PROVE  DeployInv'
<1>1. /\ TypeOK /\ ManifestsAreLive /\ InProgram /\ ProvisionDone /\ DeployDone
      /\ AppFollows /\ OrphanBudget
  BY DEF DeployInv
<1>2. /\ replace' = replace /\ attempt' = attempt /\ seeded' = seeded /\ ec2' = ec2
      /\ azure' = azure /\ gcp' = gcp /\ app' = app /\ hosts' = hosts
      /\ portfolio' = portfolio /\ live' = live /\ completed' = completed /\ used' = used
  BY DEF BuildImage, Advance, cloud, local
<1>3. /\ todo # << >> /\ Head(todo) = "build_image"
      /\ todo' # << >> /\ Ending(todo') /\ Head(todo') \in {"put_app"}
  <2>1. todo # << >> /\ Head(todo) = "build_image" /\ Skip(1)
    BY DEF BuildImage, Advance, At
  <2>2. Head(todo) \notin Commands
    BY <2>1 DEF Commands
  <2>3. todo' # << >> /\ Ending(todo') /\ Follows(Head(todo'), Head(todo))
    BY <1>1, <2>1, <2>2, Advanced
  <2> QED
    BY <2>1, <2>3 DEF Follows
<1>4. TypeOK'
  BY <1>1, <1>2, <1>3 DEF TypeOK, AzureResources
<1>5. ManifestsAreLive'
  BY <1>1, <1>2, <1>3 DEF ManifestsAreLive
<1>6. InProgram'
  <2>1. InProgram' <=> (todo' # << >> => Ending(todo'))
    BY DEF InProgram, Ending, Steps
  <2> QED
    BY <1>3, <2>1
<1>7. ProvisionDone'
  BY <1>1, <1>2, <1>3 DEF ProvisionDone, At, AtAny
<1>8. DeployDone'
  BY <1>1, <1>2, <1>3
     DEF DeployDone, At, AtAny, DeployingApp, Bootstrapping, ManifestsPresent, AppAgrees, Told,
         Endpoints, azure_container_env_vars, provisional_base_url
<1>9. AppFollows'
  BY <1>1, <1>2, <1>3
     DEF AppFollows, Undisturbed, AppAgrees, azure_container_env_vars, At
<1>10. OrphanBudget'
  <2>1. Orphans' = Orphans
    BY <1>1, <1>2, <1>3 DEF Orphans
  <2>2. Cardinality(Orphans) \in Nat
    BY <1>1, FiniteInstances
  <2> QED
    BY <1>1, <1>2, <1>3, <2>1, <2>2
       DEF TypeOK, OrphanBudget, AtAny, BeforeInstance, AfterInstance
<1> QED
  BY <1>4, <1>5, <1>6, <1>7, <1>8, <1>9, <1>10 DEF DeployInv

\* The app gets the provisional environment.
LEMMA PutAppKeeps ==
  ASSUME DeployInv, PutApp
  PROVE  DeployInv'
<1>1. /\ TypeOK /\ ManifestsAreLive /\ InProgram /\ ProvisionDone /\ DeployDone
      /\ AppFollows /\ OrphanBudget
  BY DEF DeployInv
<1>2. /\ replace' = replace /\ attempt' = attempt /\ seeded' = seeded /\ ec2' = ec2
      /\ azure' = azure /\ gcp' = gcp /\ hosts' = hosts /\ portfolio' = portfolio
      /\ live' = live /\ completed' = completed /\ used' = used
  BY DEF PutApp, Advance, cloud, local
<1>3. /\ todo # << >> /\ Head(todo) = "put_app"
      /\ todo' # << >> /\ Ending(todo') /\ Head(todo') \in {"fix_base_url"}
  <2>1. todo # << >> /\ Head(todo) = "put_app" /\ Skip(1)
    BY DEF PutApp, Advance, At
  <2>2. Head(todo) \notin Commands
    BY <2>1 DEF Commands
  <2>3. todo' # << >> /\ Ending(todo') /\ Follows(Head(todo'), Head(todo))
    BY <1>1, <2>1, <2>2, Advanced
  <2> QED
    BY <2>1, <2>3 DEF Follows
<1>4. /\ app' = azure_container_env_vars(provisional_base_url)
      /\ app' # Nil
  BY RecordFacts DEF PutApp, Advance
<1>5. TypeOK'
  BY <1>1, <1>2, <1>3, <1>4 DEF TypeOK, AzureResources
<1>6. ManifestsAreLive'
  BY <1>1, <1>2, <1>3, <1>4 DEF ManifestsAreLive
<1>7. InProgram'
  <2>1. InProgram' <=> (todo' # << >> => Ending(todo'))
    BY DEF InProgram, Ending, Steps
  <2> QED
    BY <1>3, <2>1
<1>8. ProvisionDone'
  BY <1>1, <1>2, <1>3, <1>4 DEF ProvisionDone, At, AtAny
<1>9. DeployDone'
  BY <1>1, <1>2, <1>3, <1>4
     DEF DeployDone, At, AtAny, DeployingApp, Bootstrapping, ManifestsPresent, AppAgrees, Told,
         Endpoints, azure_container_env_vars, provisional_base_url
<1>10. AppFollows'
  <2>1. live["aws"] # Nil
    BY <1>1, <1>3 DEF DeployDone, AtAny, DeployingApp, ManifestsPresent
  <2> QED
    BY <1>2, <1>3, <2>1 DEF AppFollows, At
<1>11. OrphanBudget'
  <2>1. Orphans' = Orphans
    BY <1>1, <1>2, <1>3, <1>4 DEF Orphans
  <2>2. Cardinality(Orphans) \in Nat
    BY <1>1, FiniteInstances
  <2> QED
    BY <1>1, <1>2, <1>3, <1>4, <2>1, <2>2
       DEF TypeOK, OrphanBudget, AtAny, BeforeInstance, AfterInstance
<1> QED
  BY <1>5, <1>6, <1>7, <1>8, <1>9, <1>10, <1>11 DEF DeployInv

\* The app has its own URL and that of the registry.
LEMMA FixBaseUrlKeeps ==
  ASSUME DeployInv, FixBaseUrl
  PROVE  DeployInv'
<1>1. /\ TypeOK /\ ManifestsAreLive /\ InProgram /\ ProvisionDone /\ DeployDone
      /\ AppFollows /\ OrphanBudget
  BY DEF DeployInv
<1>2. /\ replace' = replace /\ attempt' = attempt /\ seeded' = seeded /\ ec2' = ec2
      /\ azure' = azure /\ gcp' = gcp /\ hosts' = hosts /\ portfolio' = portfolio
      /\ live' = live /\ completed' = completed /\ used' = used
  BY DEF FixBaseUrl, Advance, cloud, local
<1>3. /\ todo # << >> /\ Head(todo) = "fix_base_url"
      /\ todo' # << >> /\ Ending(todo') /\ Head(todo') \in {"save_app"}
  <2>1. todo # << >> /\ Head(todo) = "fix_base_url" /\ Skip(1)
    BY DEF FixBaseUrl, Advance, At
  <2>2. Head(todo) \notin Commands
    BY <2>1 DEF Commands
  <2>3. todo' # << >> /\ Ending(todo') /\ Follows(Head(todo'), Head(todo))
    BY <1>1, <2>1, <2>2, Advanced
  <2> QED
    BY <2>1, <2>3 DEF Follows
<1>4. /\ app' = azure_container_env_vars(Fqdn)
      /\ app' # Nil
  BY <1>1, <1>3, RecordFacts DEF DeployDone, At, FixBaseUrl, Advance
<1>5. TypeOK'
  BY <1>1, <1>2, <1>3, <1>4 DEF TypeOK, AzureResources
<1>6. ManifestsAreLive'
  BY <1>1, <1>2, <1>3, <1>4 DEF ManifestsAreLive
<1>7. InProgram'
  <2>1. InProgram' <=> (todo' # << >> => Ending(todo'))
    BY DEF InProgram, Ending, Steps
  <2> QED
    BY <1>3, <2>1
<1>8. ProvisionDone'
  BY <1>1, <1>2, <1>3, <1>4 DEF ProvisionDone, At, AtAny
<1>9. DeployDone'
  BY <1>1, <1>2, <1>3, <1>4
     DEF DeployDone, At, AtAny, DeployingApp, Bootstrapping, ManifestsPresent, AppAgrees, Told,
         Endpoints, azure_container_env_vars, provisional_base_url
<1>10. AppFollows'
  <2>1. live["aws"] # Nil
    BY <1>1, <1>3 DEF DeployDone, AtAny, DeployingApp, ManifestsPresent
  <2> QED
    BY <1>2, <1>3, <1>4, <2>1 DEF AppFollows, AppAgrees, azure_container_env_vars
<1>11. OrphanBudget'
  <2>1. Orphans' = Orphans
    BY <1>1, <1>2, <1>3, <1>4 DEF Orphans
  <2>2. Cardinality(Orphans) \in Nat
    BY <1>1, FiniteInstances
  <2> QED
    BY <1>1, <1>2, <1>3, <1>4, <2>1, <2>2
       DEF TypeOK, OrphanBudget, AtAny, BeforeInstance, AfterInstance
<1> QED
  BY <1>5, <1>6, <1>7, <1>8, <1>9, <1>10, <1>11 DEF DeployInv

\* The Azure manifest names the app.
LEMMA SaveAppKeeps ==
  ASSUME DeployInv, SaveApp
  PROVE  DeployInv'
<1>1. /\ TypeOK /\ ManifestsAreLive /\ InProgram /\ ProvisionDone /\ DeployDone
      /\ AppFollows /\ OrphanBudget
  BY DEF DeployInv
<1>2. /\ replace' = replace /\ attempt' = attempt /\ seeded' = seeded /\ ec2' = ec2
      /\ azure' = azure /\ gcp' = gcp /\ app' = app /\ hosts' = hosts
      /\ portfolio' = portfolio /\ completed' = completed /\ used' = used
  BY DEF SaveApp, Advance, cloud, local
<1>3. /\ todo # << >> /\ Head(todo) = "save_app"
      /\ todo' # << >> /\ Ending(todo') /\ Head(todo') \in {"deploy-azure", "remote_aws"}
  <2>1. todo # << >> /\ Head(todo) = "save_app" /\ Skip(1)
    BY DEF SaveApp, Advance, At
  <2>2. Head(todo) \notin Commands
    BY <2>1 DEF Commands
  <2>3. todo' # << >> /\ Ending(todo') /\ Follows(Head(todo'), Head(todo))
    BY <1>1, <2>1, <2>2, Advanced
  <2> QED
    BY <2>1, <2>3 DEF Follows
<1>4. /\ DOMAIN live' = Manifests /\ live'["azure"] = [base_url |-> Fqdn]
      /\ live'["azure"] # Nil /\ live'["azure"].base_url = Fqdn
      /\ live'["aws"] = live["aws"] /\ live'["gcp"] = live["gcp"] /\ live'["status"] = live["status"]
  BY <1>1, RecordFacts DEF TypeOK, Manifests, SaveApp, Advance
<1>5. TypeOK'
  BY <1>1, <1>2, <1>3, <1>4 DEF TypeOK, AzureResources
<1>6. ManifestsAreLive'
  <2>1. app # Nil /\ azure = ToSet(AzureResources)
    BY <1>1, <1>3, RecordFacts
       DEF DeployDone, AtAny, DeployingApp, AppAgrees, ManifestsPresent,
                                   ManifestsAreLive
  <2> QED
    BY <1>1, <1>2, <1>4, <2>1 DEF ManifestsAreLive
<1>7. InProgram'
  <2>1. InProgram' <=> (todo' # << >> => Ending(todo'))
    BY DEF InProgram, Ending, Steps
  <2> QED
    BY <1>3, <2>1
<1>8. ProvisionDone'
  BY <1>1, <1>2, <1>3, <1>4 DEF ProvisionDone, At, AtAny
<1>9. DeployDone'
  BY <1>1, <1>2, <1>3, <1>4
     DEF DeployDone, At, AtAny, DeployingApp, Bootstrapping, ManifestsPresent, AppAgrees, Told,
         Endpoints, azure_container_env_vars, provisional_base_url
<1>10. AppFollows'
  BY <1>1, <1>2, <1>3, <1>4
     DEF AppFollows, Undisturbed, AppAgrees, azure_container_env_vars, At
<1>11. OrphanBudget'
  <2>1. Orphans' = Orphans
    BY <1>1, <1>2, <1>3, <1>4 DEF Orphans
  <2>2. Cardinality(Orphans) \in Nat
    BY <1>1, FiniteInstances
  <2> QED
    BY <1>1, <1>2, <1>3, <1>4, <2>1, <2>2
       DEF TypeOK, OrphanBudget, AtAny, BeforeInstance, AfterInstance
<1> QED
  BY <1>5, <1>6, <1>7, <1>8, <1>9, <1>10, <1>11 DEF DeployInv

\* The AWS VM is told the endpoints.
LEMMA RemoteAwsKeeps ==
  ASSUME DeployInv, RunRemote("remote_aws", live["aws"].public_ip)
  PROVE  DeployInv'
<1>1. /\ TypeOK /\ ManifestsAreLive /\ InProgram /\ ProvisionDone /\ DeployDone
      /\ AppFollows /\ OrphanBudget
  BY DEF DeployInv
<1>2. /\ replace' = replace /\ attempt' = attempt /\ seeded' = seeded /\ ec2' = ec2
      /\ azure' = azure /\ gcp' = gcp /\ app' = app /\ portfolio' = portfolio
      /\ live' = live /\ completed' = completed /\ used' = used
  BY DEF RunRemote, Advance, cloud, local
<1>3. /\ todo # << >> /\ Head(todo) = "remote_aws"
      /\ todo' # << >> /\ Ending(todo') /\ Head(todo') \in {"remote_gcp"}
  <2>1. todo # << >> /\ Head(todo) = "remote_aws" /\ Skip(1)
    BY DEF RunRemote, Advance, At
  <2>2. Head(todo) \notin Commands
    BY <2>1 DEF Commands
  <2>3. todo' # << >> /\ Ending(todo') /\ Follows(Head(todo'), Head(todo))
    BY <1>1, <2>1, <2>2, Advanced
  <2> QED
    BY <2>1, <2>3 DEF Follows
<1>4. /\ hosts' = [h \in DOMAIN hosts \union {live["aws"].public_ip} |->
                    IF h = live["aws"].public_ip THEN Endpoints ELSE hosts[h]]
  BY DEF RunRemote, Advance
<1>5. TypeOK'
  BY <1>1, <1>2, <1>3, <1>4 DEF TypeOK, AzureResources
<1>6. ManifestsAreLive'
  BY <1>1, <1>2, <1>3, <1>4 DEF ManifestsAreLive
<1>7. InProgram'
  <2>1. InProgram' <=> (todo' # << >> => Ending(todo'))
    BY DEF InProgram, Ending, Steps
  <2> QED
    BY <1>3, <2>1
<1>8. ProvisionDone'
  BY <1>1, <1>2, <1>3, <1>4 DEF ProvisionDone, At, AtAny
<1>9. DeployDone'
  BY <1>1, <1>2, <1>3, <1>4
     DEF DeployDone, At, AtAny, DeployingApp, Bootstrapping, ManifestsPresent, AppAgrees, Told,
         Endpoints, azure_container_env_vars, provisional_base_url
<1>10. AppFollows'
  BY <1>1, <1>2, <1>3, <1>4
     DEF AppFollows, Undisturbed, AppAgrees, azure_container_env_vars, At
<1>11. OrphanBudget'
  <2>1. Orphans' = Orphans
    BY <1>1, <1>2, <1>3, <1>4 DEF Orphans
  <2>2. Cardinality(Orphans) \in Nat
    BY <1>1, FiniteInstances
  <2> QED
    BY <1>1, <1>2, <1>3, <1>4, <2>1, <2>2
       DEF TypeOK, OrphanBudget, AtAny, BeforeInstance, AfterInstance
<1> QED
  BY <1>5, <1>6, <1>7, <1>8, <1>9, <1>10, <1>11 DEF DeployInv

\* The GCP VM is told the endpoints.
LEMMA RemoteGcpKeeps ==
  ASSUME DeployInv, RunRemote("remote_gcp", live["gcp"].public_ip)
  PROVE  DeployInv'
<1>1. /\ TypeOK /\ ManifestsAreLive /\ InProgram /\ ProvisionDone /\ DeployDone
      /\ AppFollows /\ OrphanBudget
  BY DEF DeployInv
<1>2. /\ replace' = replace /\ attempt' = attempt /\ seeded' = seeded /\ ec2' = ec2
      /\ azure' = azure /\ gcp' = gcp /\ app' = app /\ portfolio' = portfolio
      /\ live' = live /\ completed' = completed /\ used' = used
  BY DEF RunRemote, Advance, cloud, local
<1>3. /\ todo # << >> /\ Head(todo) = "remote_gcp"
      /\ todo' # << >> /\ Ending(todo') /\ Head(todo') \in {"seed_portfolio"}
  <2>1. todo # << >> /\ Head(todo) = "remote_gcp" /\ Skip(1)
    BY DEF RunRemote, Advance, At
  <2>2. Head(todo) \notin Commands
    BY <2>1 DEF Commands
  <2>3. todo' # << >> /\ Ending(todo') /\ Follows(Head(todo'), Head(todo))
    BY <1>1, <2>1, <2>2, Advanced
  <2> QED
    BY <2>1, <2>3 DEF Follows
<1>4. /\ hosts' = [h \in DOMAIN hosts \union {live["gcp"].public_ip} |->
                    IF h = live["gcp"].public_ip THEN Endpoints ELSE hosts[h]]
  BY DEF RunRemote, Advance
<1>5. TypeOK'
  BY <1>1, <1>2, <1>3, <1>4 DEF TypeOK, AzureResources
<1>6. ManifestsAreLive'
  BY <1>1, <1>2, <1>3, <1>4 DEF ManifestsAreLive
<1>7. InProgram'
  <2>1. InProgram' <=> (todo' # << >> => Ending(todo'))
    BY DEF InProgram, Ending, Steps
  <2> QED
    BY <1>3, <2>1
<1>8. ProvisionDone'
  BY <1>1, <1>2, <1>3, <1>4 DEF ProvisionDone, At, AtAny
<1>9. DeployDone'
  BY <1>1, <1>2, <1>3, <1>4
     DEF DeployDone, At, AtAny, DeployingApp, Bootstrapping, ManifestsPresent, AppAgrees, Told,
         Endpoints, azure_container_env_vars, provisional_base_url
<1>10. AppFollows'
  BY <1>1, <1>2, <1>3, <1>4
     DEF AppFollows, Undisturbed, AppAgrees, azure_container_env_vars, At
<1>11. OrphanBudget'
  <2>1. Orphans' = Orphans
    BY <1>1, <1>2, <1>3, <1>4 DEF Orphans
  <2>2. Cardinality(Orphans) \in Nat
    BY <1>1, FiniteInstances
  <2> QED
    BY <1>1, <1>2, <1>3, <1>4, <2>1, <2>2
       DEF TypeOK, OrphanBudget, AtAny, BeforeInstance, AfterInstance
<1> QED
  BY <1>5, <1>6, <1>7, <1>8, <1>9, <1>10, <1>11 DEF DeployInv

\* What the status will say of the portfolio is so.
LEMMA SeedPortfolioKeeps ==
  ASSUME DeployInv, SeedPortfolio
  PROVE  DeployInv'
<1>1. /\ TypeOK /\ ManifestsAreLive /\ InProgram /\ ProvisionDone /\ DeployDone
      /\ AppFollows /\ OrphanBudget
  BY DEF DeployInv
<1>2. /\ replace' = replace /\ attempt' = attempt /\ ec2' = ec2 /\ azure' = azure
      /\ gcp' = gcp /\ app' = app /\ hosts' = hosts /\ live' = live
      /\ completed' = completed /\ used' = used
  BY DEF SeedPortfolio, cloud, local
<1>3. /\ todo # << >> /\ Head(todo) = "seed_portfolio"
      /\ todo' # << >> /\ Ending(todo') /\ Head(todo') \in {"save_status"}
  <2>1. todo # << >> /\ Head(todo) = "seed_portfolio" /\ Skip(1)
    BY DEF SeedPortfolio, At
  <2>2. Head(todo) \notin Commands
    BY <2>1 DEF Commands
  <2>3. todo' # << >> /\ Ending(todo') /\ Follows(Head(todo'), Head(todo))
    BY <1>1, <2>1, <2>2, Advanced
  <2> QED
    BY <2>1, <2>3 DEF Follows
<1>4. /\ seeded' \in BOOLEAN /\ portfolio' \in BOOLEAN
      /\ portfolio => portfolio'
      /\ seeded' => portfolio'
  BY <1>1 DEF TypeOK, SeedPortfolio
<1>5. TypeOK'
  BY <1>1, <1>2, <1>3, <1>4 DEF TypeOK, AzureResources
<1>6. ManifestsAreLive'
  BY <1>1, <1>2, <1>3, <1>4 DEF ManifestsAreLive
<1>7. InProgram'
  <2>1. InProgram' <=> (todo' # << >> => Ending(todo'))
    BY DEF InProgram, Ending, Steps
  <2> QED
    BY <1>3, <2>1
<1>8. ProvisionDone'
  BY <1>1, <1>2, <1>3, <1>4 DEF ProvisionDone, At, AtAny
<1>9. DeployDone'
  BY <1>1, <1>2, <1>3, <1>4
     DEF DeployDone, At, AtAny, DeployingApp, Bootstrapping, ManifestsPresent, AppAgrees, Told,
         Endpoints, azure_container_env_vars, provisional_base_url
<1>10. AppFollows'
  BY <1>1, <1>2, <1>3, <1>4
     DEF AppFollows, Undisturbed, AppAgrees, azure_container_env_vars, At
<1>11. OrphanBudget'
  <2>1. Orphans' = Orphans
    BY <1>1, <1>2, <1>3, <1>4 DEF Orphans
  <2>2. Cardinality(Orphans) \in Nat
    BY <1>1, FiniteInstances
  <2> QED
    BY <1>1, <1>2, <1>3, <1>4, <2>1, <2>2
       DEF TypeOK, OrphanBudget, AtAny, BeforeInstance, AfterInstance
<1> QED
  BY <1>5, <1>6, <1>7, <1>8, <1>9, <1>10, <1>11 DEF DeployInv

\* The status tells what was done.
LEMMA SaveStatusKeeps ==
  ASSUME DeployInv, SaveStatus
  PROVE  DeployInv'
<1>1. /\ TypeOK /\ ManifestsAreLive /\ InProgram /\ ProvisionDone /\ DeployDone
      /\ AppFollows /\ OrphanBudget
  BY DEF DeployInv
<1>2. /\ replace' = replace /\ attempt' = attempt /\ seeded' = seeded /\ ec2' = ec2
      /\ azure' = azure /\ gcp' = gcp /\ app' = app /\ hosts' = hosts
      /\ portfolio' = portfolio /\ completed' = completed /\ used' = used
  BY DEF SaveStatus, Advance, cloud, local
<1>3. /\ todo # << >> /\ Head(todo) = "save_status"
      /\ todo' # << >> /\ Ending(todo') /\ Head(todo') \in {"bootstrap", "go-live"}
  <2>1. todo # << >> /\ Head(todo) = "save_status" /\ Skip(1)
    BY DEF SaveStatus, Advance, At
  <2>2. Head(todo) \notin Commands
    BY <2>1 DEF Commands
  <2>3. todo' # << >> /\ Ending(todo') /\ Follows(Head(todo'), Head(todo))
    BY <1>1, <2>1, <2>2, Advanced
  <2> QED
    BY <2>1, <2>3 DEF Follows
<1>4. /\ DOMAIN live' = Manifests /\ live'["status"] = [endpoints |-> Endpoints, portfolio_seeded |-> seeded]
      /\ live'["status"] # Nil /\ live'["status"].portfolio_seeded = seeded
      /\ live'["aws"] = live["aws"] /\ live'["azure"] = live["azure"] /\ live'["gcp"] = live["gcp"]
  BY <1>1, RecordFacts DEF TypeOK, Manifests, SaveStatus, Advance
<1>5. TypeOK'
  BY <1>1, <1>2, <1>3, <1>4 DEF TypeOK, AzureResources
<1>6. ManifestsAreLive'
  <2>1. seeded => portfolio
    BY <1>1, <1>3 DEF DeployDone
  <2> QED
    BY <1>1, <1>2, <1>4, <2>1 DEF ManifestsAreLive
<1>7. InProgram'
  <2>1. InProgram' <=> (todo' # << >> => Ending(todo'))
    BY DEF InProgram, Ending, Steps
  <2> QED
    BY <1>3, <2>1
<1>8. ProvisionDone'
  BY <1>1, <1>2, <1>3, <1>4 DEF ProvisionDone, At, AtAny
<1>9. DeployDone'
  BY <1>1, <1>2, <1>3, <1>4
     DEF DeployDone, At, AtAny, DeployingApp, Bootstrapping, ManifestsPresent, AppAgrees, Told,
         Endpoints, azure_container_env_vars, provisional_base_url
<1>10. AppFollows'
  BY <1>1, <1>2, <1>3, <1>4
     DEF AppFollows, Undisturbed, AppAgrees, azure_container_env_vars, At
<1>11. OrphanBudget'
  <2>1. Orphans' = Orphans
    BY <1>1, <1>2, <1>3, <1>4 DEF Orphans
  <2>2. Cardinality(Orphans) \in Nat
    BY <1>1, FiniteInstances
  <2> QED
    BY <1>1, <1>2, <1>3, <1>4, <2>1, <2>2
       DEF TypeOK, OrphanBudget, AtAny, BeforeInstance, AfterInstance
<1> QED
  BY <1>5, <1>6, <1>7, <1>8, <1>9, <1>10, <1>11 DEF DeployInv

\* The instance of an attempt: left over until its manifest is written.
LEMMA RunInstancesKeeps ==
  ASSUME DeployInv, CreateEc2("run_instances", "instances")
  PROVE  DeployInv'
<1>1. /\ TypeOK /\ ManifestsAreLive /\ InProgram /\ ProvisionDone /\ DeployDone
      /\ AppFollows /\ OrphanBudget
  BY DEF DeployInv
<1>2. /\ replace' = replace /\ attempt' = attempt /\ seeded' = seeded /\ azure' = azure
      /\ gcp' = gcp /\ app' = app /\ hosts' = hosts /\ portfolio' = portfolio
      /\ live' = live /\ completed' = completed /\ used' = used
  BY DEF CreateEc2, Advance, cloud, local
<1>3. /\ todo # << >> /\ Head(todo) = "run_instances"
      /\ todo' # << >> /\ Ending(todo') /\ Head(todo') \in {"allocate_address"}
  <2>1. todo # << >> /\ Head(todo) = "run_instances" /\ Skip(1)
    BY DEF CreateEc2, Advance, At
  <2>2. Head(todo) \notin Commands
    BY <2>1 DEF Commands
  <2>3. todo' # << >> /\ Ending(todo') /\ Follows(Head(todo'), Head(todo))
    BY <1>1, <2>1, <2>2, Advanced
  <2> QED
    BY <2>1, <2>3 DEF Follows
<1>4. /\ attempt \in 1..MaxCommands
      /\ ec2' \in [keys : SUBSET (1..MaxCommands), groups : SUBSET (1..MaxCommands),
                  instances : SUBSET (1..MaxCommands), addresses : SUBSET (1..MaxCommands),
                  attached : SUBSET (1..MaxCommands)]
      /\ ec2'.instances = ec2.instances \union {attempt}
      /\ ec2'.keys = ec2.keys
      /\ ec2'.groups = ec2.groups
      /\ ec2'.addresses = ec2.addresses
      /\ ec2'.attached = ec2.attached
  <2>1. attempt \in 1..MaxCommands
    BY <1>1, <1>3 DEF TypeOK
  <2>2. ec2' = [ec2 EXCEPT !["instances"] = @ \union {attempt}]
    BY DEF CreateEc2, Advance
  <2> QED
    BY <1>1, <2>1, <2>2 DEF TypeOK
<1>5. TypeOK'
  BY <1>1, <1>2, <1>3, <1>4 DEF TypeOK, AzureResources
<1>6. ManifestsAreLive'
  BY <1>1, <1>2, <1>3, <1>4 DEF ManifestsAreLive
<1>7. InProgram'
  <2>1. InProgram' <=> (todo' # << >> => Ending(todo'))
    BY DEF InProgram, Ending, Steps
  <2> QED
    BY <1>3, <2>1
<1>8. ProvisionDone'
  BY <1>1, <1>2, <1>3, <1>4 DEF ProvisionDone, At, AtAny
<1>9. DeployDone'
  BY <1>1, <1>2, <1>3, <1>4
     DEF DeployDone, At, AtAny, DeployingApp, Bootstrapping, ManifestsPresent, AppAgrees, Told,
         Endpoints, azure_container_env_vars, provisional_base_url
<1>10. AppFollows'
  BY <1>1, <1>2, <1>3, <1>4
     DEF AppFollows, Undisturbed, AppAgrees, azure_container_env_vars, At
<1>11. OrphanBudget'
  <2>1. Orphans' \subseteq Orphans \union {attempt}
    BY <1>2, <1>4 DEF Orphans
  <2>2. /\ IsFiniteSet(Orphans) /\ Cardinality(Orphans) \in Nat
        /\ IsFiniteSet(ec2.instances)
    BY <1>1, FiniteInstances
  <2>3. /\ IsFiniteSet(Orphans \union {attempt})
        /\ Cardinality(Orphans \union {attempt}) <= Cardinality(Orphans) + 1
        /\ Cardinality(Orphans \union {attempt}) \in Nat
    <3>1. /\ IsFiniteSet(Orphans \union {attempt})
          /\ \/ Cardinality(Orphans \union {attempt}) = Cardinality(Orphans) + 1
             \/ Cardinality(Orphans \union {attempt}) = Cardinality(Orphans)
      BY <2>2, FS_AddElement
    <3> QED
      BY <2>2, <3>1
  <2>4. Cardinality(Orphans') <= Cardinality(Orphans) + 1 /\ Cardinality(Orphans') \in Nat
    BY <2>1, <2>2, <2>3, FS_Subset, FS_CardinalityType
  <2>5. /\ Cardinality(Orphans) + (IF replace THEN 1 ELSE 0)
             <= used["failures"] + used["replaces"]
        /\ live["aws"] = Nil \/ replace
        /\ replace => used["replaces"] > 0
    BY <1>1, <1>3, <2>2
       DEF TypeOK, OrphanBudget, AtAny, BeforeInstance, AfterInstance, Bounds
  <2>6. used["failures"] \in Nat /\ used["replaces"] \in Nat
    BY <1>1 DEF TypeOK, Bounds
  <2>7. Cardinality(Orphans')
          <= used["failures"] + used["replaces"] + (IF ~replace THEN 1 ELSE 0)
    BY <2>2, <2>4, <2>5, <2>6
  <2> QED
    BY <1>2, <1>3, <2>4, <2>5, <2>6, <2>7
       DEF OrphanBudget, AtAny, BeforeInstance, AfterInstance
<1> QED
  BY <1>5, <1>6, <1>7, <1>8, <1>9, <1>10, <1>11 DEF DeployInv

\* The manifest names the new instance, and no longer the one before.
LEMMA SaveAwsKeeps ==
  ASSUME DeployInv, SaveAws
  PROVE  DeployInv'
<1>1. /\ TypeOK /\ ManifestsAreLive /\ InProgram /\ ProvisionDone /\ DeployDone
      /\ AppFollows /\ OrphanBudget
  BY DEF DeployInv
<1>2. /\ replace' = replace /\ attempt' = attempt /\ seeded' = seeded /\ ec2' = ec2
      /\ azure' = azure /\ gcp' = gcp /\ app' = app /\ hosts' = hosts
      /\ portfolio' = portfolio /\ completed' = completed /\ used' = used
  BY DEF SaveAws, Advance, cloud, local
<1>3. /\ todo # << >> /\ Head(todo) = "save_aws"
      /\ todo' # << >> /\ Ending(todo') /\ Head(todo') \in {"provision-aws", "ensure_azure"}
  <2>1. todo # << >> /\ Head(todo) = "save_aws" /\ Skip(1)
    BY DEF SaveAws, Advance, At
  <2>2. Head(todo) \notin Commands
    BY <2>1 DEF Commands
  <2>3. todo' # << >> /\ Ending(todo') /\ Follows(Head(todo'), Head(todo))
    BY <1>1, <2>1, <2>2, Advanced
  <2> QED
    BY <2>1, <2>3 DEF Follows
<1>4. /\ DOMAIN live' = Manifests /\ live'["aws"] = [public_ip |-> attempt]
      /\ live'["aws"] # Nil /\ live'["aws"].public_ip = attempt
      /\ live'["azure"] = live["azure"] /\ live'["gcp"] = live["gcp"] /\ live'["status"] = live["status"]
  BY <1>1, RecordFacts DEF TypeOK, Manifests, SaveAws, Advance
<1>5. TypeOK'
  <2>1. attempt \in 1..MaxCommands
    BY <1>1, <1>3 DEF TypeOK
  <2> QED
    BY <1>1, <1>2, <1>3, <1>4, <2>1 DEF TypeOK, AzureResources
<1>6. ManifestsAreLive'
  <2>1. attempt \in ec2.instances \intersect ec2.addresses \intersect ec2.attached
    BY <1>1, <1>3 DEF ProvisionDone, At, AtAny
  <2> QED
    BY <1>1, <1>2, <1>4, <2>1 DEF ManifestsAreLive
<1>7. InProgram'
  <2>1. InProgram' <=> (todo' # << >> => Ending(todo'))
    BY DEF InProgram, Ending, Steps
  <2> QED
    BY <1>3, <2>1
<1>8. ProvisionDone'
  BY <1>1, <1>2, <1>3, <1>4 DEF ProvisionDone, At, AtAny
<1>9. DeployDone'
  BY <1>1, <1>2, <1>3, <1>4
     DEF DeployDone, At, AtAny, DeployingApp, Bootstrapping, ManifestsPresent, AppAgrees, Told,
         Endpoints, azure_container_env_vars, provisional_base_url
<1>10. AppFollows'
  <2> SUFFICES ASSUME Undisturbed'
               PROVE  app' = Nil
    BY DEF AppFollows
  <2>1. Undisturbed /\ used["replaces"] = 0
    BY <1>2 DEF Undisturbed
  <2>2. live["aws"] = Nil
    BY <1>1, <1>3, <2>1 DEF OrphanBudget, AtAny, AfterInstance
  <2> QED
    BY <1>1, <1>2, <2>1, <2>2 DEF AppFollows
<1>11. OrphanBudget'
  <2>1. Orphans' = ec2.instances \ {attempt} /\ attempt \in ec2.instances
    BY <1>1, <1>2, <1>3, <1>4 DEF Orphans, ProvisionDone, AtAny
  <2>2. /\ IsFiniteSet(Orphans) /\ Cardinality(Orphans) \in Nat
        /\ IsFiniteSet(ec2.instances) /\ Cardinality(ec2.instances) \in Nat
    BY <1>1, FiniteInstances, FS_CardinalityType
  <2>3. Cardinality(Orphans') = Cardinality(ec2.instances) - 1
    BY <2>1, <2>2, FS_RemoveElement
  <2>4. /\ live["aws"] = Nil => Cardinality(Orphans) = Cardinality(ec2.instances)
        /\ live["aws"] # Nil => Cardinality(Orphans) = Cardinality(ec2.instances) - 1
    <3>1. live["aws"] = Nil => Orphans = ec2.instances
      BY DEF Orphans
    <3>2. live["aws"] # Nil => /\ Orphans = ec2.instances \ {live["aws"].public_ip}
                               /\ live["aws"].public_ip \in ec2.instances
      BY <1>1 DEF Orphans, ManifestsAreLive
    <3> QED
      BY <2>2, <3>1, <3>2, FS_RemoveElement
  <2>5. /\ Cardinality(Orphans)
             <= used["failures"] + used["replaces"] + (IF ~replace THEN 1 ELSE 0)
        /\ live["aws"] = Nil \/ replace
        /\ replace => used["replaces"] > 0
    BY <1>1, <1>3, <2>2
       DEF TypeOK, OrphanBudget, AtAny, BeforeInstance, AfterInstance, Bounds
  <2>6. used["failures"] \in Nat /\ used["replaces"] \in Nat
    BY <1>1 DEF TypeOK, Bounds
  <2>7. Cardinality(Orphans') <= used["failures"] + used["replaces"]
    BY <2>2, <2>3, <2>4, <2>5, <2>6
  <2>8. Cardinality(Orphans') \in Nat
    BY <2>1, <2>2, FS_Difference, FS_CardinalityType
  <2> QED
    BY <1>2, <1>3, <2>5, <2>6, <2>7, <2>8
       DEF OrphanBudget, AtAny, BeforeInstance, AfterInstance
<1> QED
  BY <1>5, <1>6, <1>7, <1>8, <1>9, <1>10, <1>11 DEF DeployInv

\* The AWS deployment at hand is kept, or another is made.
LEMMA ReuseAwsKeeps ==
  ASSUME DeployInv, ReuseAws
  PROVE  DeployInv'
<1>1. /\ TypeOK /\ ManifestsAreLive /\ InProgram /\ ProvisionDone /\ DeployDone
      /\ AppFollows /\ OrphanBudget
  BY DEF DeployInv
<1>2. /\ replace' = replace /\ attempt' = attempt /\ seeded' = seeded /\ ec2' = ec2
      /\ azure' = azure /\ gcp' = gcp /\ app' = app /\ hosts' = hosts
      /\ portfolio' = portfolio /\ live' = live /\ completed' = completed /\ used' = used
  BY DEF ReuseAws, cloud, local
<1>3. /\ todo # << >> /\ Head(todo) = "reuse_aws"
      /\ todo' # << >> /\ Ending(todo') /\ Head(todo') \in {"import_key", "ensure_azure", "provision-aws"}
  <2>1. todo # << >> /\ Head(todo) = "reuse_aws" /\ (Skip(Len(provision_aws)) \/ Skip(1))
    BY DEF ReuseAws, At
  <2>2. CASE Skip(1)
    <3>1. Head(todo) \notin Commands
      BY <2>1 DEF Commands
    <3>2. todo' # << >> /\ Ending(todo') /\ Follows(Head(todo'), Head(todo))
      BY <1>1, <2>1, <2>2, <3>1, Advanced
    <3> QED
      BY <2>1, <3>2 DEF Follows
  <2>3. CASE Skip(Len(provision_aws))
    BY <1>1, <2>1, <2>3, Skipped
  <2> QED
    BY <2>1, <2>2, <2>3
<1>4. /\ Head(todo') = "import_key" => live["aws"] = Nil \/ replace
  <2>1. ReusesAws => Skip(Len(provision_aws))
    BY DEF ReuseAws
  <2>2. ReusesAws => Head(todo') # "import_key"
    BY <1>1, <1>3, <2>1, Skipped
  <2> QED
    BY <2>2 DEF ReusesAws
<1>5. TypeOK'
  BY <1>1, <1>2, <1>3, <1>4 DEF TypeOK, AzureResources
<1>6. ManifestsAreLive'
  BY <1>1, <1>2, <1>3, <1>4 DEF ManifestsAreLive
<1>7. InProgram'
  <2>1. InProgram' <=> (todo' # << >> => Ending(todo'))
    BY DEF InProgram, Ending, Steps
  <2> QED
    BY <1>3, <2>1
<1>8. ProvisionDone'
  BY <1>1, <1>2, <1>3, <1>4 DEF ProvisionDone, At, AtAny
<1>9. DeployDone'
  BY <1>1, <1>2, <1>3, <1>4
     DEF DeployDone, At, AtAny, DeployingApp, Bootstrapping, ManifestsPresent, AppAgrees, Told,
         Endpoints, azure_container_env_vars, provisional_base_url
<1>10. AppFollows'
  BY <1>1, <1>2, <1>3, <1>4
     DEF AppFollows, Undisturbed, AppAgrees, azure_container_env_vars, At
<1>11. OrphanBudget'
  <2>1. Orphans' = Orphans
    BY <1>2 DEF Orphans
  <2>2. Cardinality(Orphans) \in Nat
    BY <1>1, FiniteInstances
  <2>3. used["failures"] \in Nat /\ used["replaces"] \in Nat
    BY <1>1 DEF TypeOK, Bounds
  <2>4. /\ Cardinality(Orphans) + (IF replace THEN 1 ELSE 0)
             <= used["failures"] + used["replaces"]
        /\ replace => used["replaces"] > 0
    BY <1>1, <1>3, <2>2, <2>3 DEF OrphanBudget, AtAny, BeforeInstance, AfterInstance
  <2>5. CASE Head(todo') = "import_key"
    BY <1>2, <1>3, <1>4, <2>1, <2>2, <2>3, <2>4, <2>5
       DEF OrphanBudget, AtAny, BeforeInstance, AfterInstance
  <2>6. CASE Head(todo') # "import_key"
    BY <1>2, <1>3, <2>1, <2>2, <2>3, <2>4, <2>6
       DEF OrphanBudget, AtAny, BeforeInstance, AfterInstance
  <2> QED
    BY <2>5, <2>6
<1> QED
  BY <1>5, <1>6, <1>7, <1>8, <1>9, <1>10, <1>11 DEF DeployInv

\* The GCP deployment at hand is kept, or made.
LEMMA ReuseGcpKeeps ==
  ASSUME DeployInv, ReuseGcp
  PROVE  DeployInv'
<1>1. /\ TypeOK /\ ManifestsAreLive /\ InProgram /\ ProvisionDone /\ DeployDone
      /\ AppFollows /\ OrphanBudget
  BY DEF DeployInv
<1>2. /\ replace' = replace /\ attempt' = attempt /\ seeded' = seeded /\ ec2' = ec2
      /\ azure' = azure /\ gcp' = gcp /\ app' = app /\ hosts' = hosts
      /\ portfolio' = portfolio /\ live' = live /\ completed' = completed /\ used' = used
  BY DEF ReuseGcp, cloud, local
<1>3. /\ todo # << >> /\ Head(todo) = "reuse_gcp"
      /\ todo' # << >> /\ Ending(todo') /\ Head(todo') \in {"firewall", "check_manifests", "provision-gcp"}
  <2>1. todo # << >> /\ Head(todo) = "reuse_gcp" /\ (Skip(Len(provision_gcp)) \/ Skip(1))
    BY DEF ReuseGcp, At
  <2>2. CASE Skip(1)
    <3>1. Head(todo) \notin Commands
      BY <2>1 DEF Commands
    <3>2. todo' # << >> /\ Ending(todo') /\ Follows(Head(todo'), Head(todo))
      BY <1>1, <2>1, <2>2, <3>1, Advanced
    <3> QED
      BY <2>1, <3>2 DEF Follows
  <2>3. CASE Skip(Len(provision_gcp))
    BY <1>1, <2>1, <2>3, Skipped
  <2> QED
    BY <2>1, <2>2, <2>3
<1>4. TypeOK'
  BY <1>1, <1>2, <1>3 DEF TypeOK, AzureResources
<1>5. ManifestsAreLive'
  BY <1>1, <1>2, <1>3 DEF ManifestsAreLive
<1>6. InProgram'
  <2>1. InProgram' <=> (todo' # << >> => Ending(todo'))
    BY DEF InProgram, Ending, Steps
  <2> QED
    BY <1>3, <2>1
<1>7. ProvisionDone'
  BY <1>1, <1>2, <1>3 DEF ProvisionDone, At, AtAny
<1>8. DeployDone'
  BY <1>1, <1>2, <1>3
     DEF DeployDone, At, AtAny, DeployingApp, Bootstrapping, ManifestsPresent, AppAgrees, Told,
         Endpoints, azure_container_env_vars, provisional_base_url
<1>9. AppFollows'
  BY <1>1, <1>2, <1>3
     DEF AppFollows, Undisturbed, AppAgrees, azure_container_env_vars, At
<1>10. OrphanBudget'
  <2>1. Orphans' = Orphans
    BY <1>1, <1>2, <1>3 DEF Orphans
  <2>2. Cardinality(Orphans) \in Nat
    BY <1>1, FiniteInstances
  <2> QED
    BY <1>1, <1>2, <1>3, <2>1, <2>2
       DEF TypeOK, OrphanBudget, AtAny, BeforeInstance, AfterInstance
<1> QED
  BY <1>4, <1>5, <1>6, <1>7, <1>8, <1>9, <1>10 DEF DeployInv

\* The VMs are next when the Azure manifest has the URL of the app.
LEMMA CheckManifestsKeeps ==
  ASSUME DeployInv, CheckManifests
  PROVE  DeployInv'
<1>1. /\ TypeOK /\ ManifestsAreLive /\ InProgram /\ ProvisionDone /\ DeployDone
      /\ AppFollows /\ OrphanBudget
  BY DEF DeployInv
<1>2. /\ replace' = replace /\ attempt' = attempt /\ seeded' = seeded /\ ec2' = ec2
      /\ azure' = azure /\ gcp' = gcp /\ app' = app /\ hosts' = hosts
      /\ portfolio' = portfolio /\ live' = live /\ completed' = completed /\ used' = used
  BY DEF CheckManifests, cloud, local
<1>3. /\ todo # << >> /\ Head(todo) = "check_manifests"
      /\ todo' # << >> /\ Ending(todo') /\ Head(todo') \in {"build_image", "remote_aws"}
  <2>1. /\ todo # << >> /\ Head(todo) = "check_manifests"
        /\ Skip(1 + Len(deploy_azure_container_app)) \/ Skip(1)
    BY DEF CheckManifests, At
  <2>2. CASE Skip(1)
    <3>1. Head(todo) \notin Commands
      BY <2>1 DEF Commands
    <3>2. todo' # << >> /\ Ending(todo') /\ Follows(Head(todo'), Head(todo))
      BY <1>1, <2>1, <2>2, <3>1, Advanced
    <3> QED
      BY <2>1, <3>2 DEF Follows
  <2>3. CASE Skip(1 + Len(deploy_azure_container_app))
    BY <1>1, <2>1, <2>3, Skipped
  <2> QED
    BY <2>1, <2>2, <2>3
<1>4. /\ ManifestsPresent /\ (Head(todo') = "remote_aws" => live["azure"].base_url = Fqdn)
  <2>1. ManifestsPresent /\ (live["azure"].base_url = NoUrl => Skip(1))
    BY DEF CheckManifests
  <2>2. live["azure"].base_url \in {NoUrl, Fqdn}
    BY <1>1, <2>1 DEF TypeOK, ManifestsPresent
  <2>3. Skip(1) => Head(todo') # "remote_aws"
    <3>1. Head(todo) \notin Commands
      BY <1>3 DEF Commands
    <3>2. Skip(1) => Follows(Head(todo'), Head(todo))
      BY <1>1, <1>3, <3>1, Advanced
    <3> QED
      BY <1>3, <3>2 DEF Follows
  <2> QED
    BY <2>1, <2>2, <2>3
<1>5. TypeOK'
  BY <1>1, <1>2, <1>3, <1>4 DEF TypeOK, AzureResources
<1>6. ManifestsAreLive'
  BY <1>1, <1>2, <1>3, <1>4 DEF ManifestsAreLive
<1>7. InProgram'
  <2>1. InProgram' <=> (todo' # << >> => Ending(todo'))
    BY DEF InProgram, Ending, Steps
  <2> QED
    BY <1>3, <2>1
<1>8. ProvisionDone'
  BY <1>1, <1>2, <1>3, <1>4 DEF ProvisionDone, At, AtAny
<1>9. DeployDone'
  BY <1>1, <1>2, <1>3, <1>4
     DEF DeployDone, At, AtAny, DeployingApp, Bootstrapping, ManifestsPresent, AppAgrees, Told,
         Endpoints, azure_container_env_vars, provisional_base_url
<1>10. AppFollows'
  BY <1>1, <1>2, <1>3, <1>4
     DEF AppFollows, Undisturbed, AppAgrees, azure_container_env_vars, At
<1>11. OrphanBudget'
  <2>1. Orphans' = Orphans
    BY <1>1, <1>2, <1>3, <1>4 DEF Orphans
  <2>2. Cardinality(Orphans) \in Nat
    BY <1>1, FiniteInstances
  <2> QED
    BY <1>1, <1>2, <1>3, <1>4, <2>1, <2>2
       DEF TypeOK, OrphanBudget, AtAny, BeforeInstance, AfterInstance
<1> QED
  BY <1>5, <1>6, <1>7, <1>8, <1>9, <1>10, <1>11 DEF DeployInv

\* All the Azure resources are there.
LEMMA AzureDoneKeeps ==
  ASSUME DeployInv, EnsureAzure, Skip(1), azure' = azure, ToSet(AzureResources) \subseteq azure
  PROVE  DeployInv'
<1>1. /\ TypeOK /\ ManifestsAreLive /\ InProgram /\ ProvisionDone /\ DeployDone
      /\ AppFollows /\ OrphanBudget
  BY DEF DeployInv
<1>2. /\ replace' = replace /\ attempt' = attempt /\ seeded' = seeded /\ ec2' = ec2
      /\ gcp' = gcp /\ app' = app /\ hosts' = hosts /\ portfolio' = portfolio
      /\ live' = live /\ completed' = completed /\ used' = used
  BY DEF EnsureAzure, cloud, local
<1>3. /\ todo # << >> /\ Head(todo) = "ensure_azure"
      /\ todo' # << >> /\ Ending(todo') /\ Head(todo') \in {"save_azure"}
  <2>1. todo # << >> /\ Head(todo) = "ensure_azure" /\ Skip(1)
    BY DEF EnsureAzure, At
  <2>2. Head(todo) \notin Commands
    BY <2>1 DEF Commands
  <2>3. todo' # << >> /\ Ending(todo') /\ Follows(Head(todo'), Head(todo))
    BY <1>1, <2>1, <2>2, Advanced
  <2> QED
    BY <2>1, <2>3 DEF Follows
<1>4. /\ azure' = azure
  BY DEF EnsureAzure
<1>5. TypeOK'
  BY <1>1, <1>2, <1>3, <1>4 DEF TypeOK, AzureResources
<1>6. ManifestsAreLive'
  BY <1>1, <1>2, <1>3, <1>4 DEF ManifestsAreLive
<1>7. InProgram'
  <2>1. InProgram' <=> (todo' # << >> => Ending(todo'))
    BY DEF InProgram, Ending, Steps
  <2> QED
    BY <1>3, <2>1
<1>8. ProvisionDone'
  <2>1. azure' = ToSet(AzureResources)
    BY <1>1, <1>4 DEF TypeOK
  <2> QED
    BY <1>3, <2>1 DEF ProvisionDone, At, AtAny
<1>9. DeployDone'
  BY <1>1, <1>2, <1>3, <1>4
     DEF DeployDone, At, AtAny, DeployingApp, Bootstrapping, ManifestsPresent, AppAgrees, Told,
         Endpoints, azure_container_env_vars, provisional_base_url
<1>10. AppFollows'
  BY <1>1, <1>2, <1>3, <1>4
     DEF AppFollows, Undisturbed, AppAgrees, azure_container_env_vars, At
<1>11. OrphanBudget'
  <2>1. Orphans' = Orphans
    BY <1>1, <1>2, <1>3, <1>4 DEF Orphans
  <2>2. Cardinality(Orphans) \in Nat
    BY <1>1, FiniteInstances
  <2> QED
    BY <1>1, <1>2, <1>3, <1>4, <2>1, <2>2
       DEF TypeOK, OrphanBudget, AtAny, BeforeInstance, AfterInstance
<1> QED
  BY <1>5, <1>6, <1>7, <1>8, <1>9, <1>10, <1>11 DEF DeployInv

\* The next Azure resource.
LEMMA AzureNextKeeps ==
  ASSUME DeployInv, EnsureAzure, UNCHANGED todo,
         NEW r \in ToSet(AzureResources), azure' = azure \union {r}
  PROVE  DeployInv'
<1>1. /\ TypeOK /\ ManifestsAreLive /\ InProgram /\ ProvisionDone /\ DeployDone
      /\ AppFollows /\ OrphanBudget
  BY DEF DeployInv
<1>2. /\ replace' = replace /\ attempt' = attempt /\ seeded' = seeded /\ ec2' = ec2
      /\ gcp' = gcp /\ app' = app /\ hosts' = hosts /\ portfolio' = portfolio
      /\ live' = live /\ completed' = completed /\ used' = used
  BY DEF EnsureAzure, cloud, local
<1>3. /\ todo # << >> /\ Head(todo) = "ensure_azure"
      /\ todo' # << >> /\ Ending(todo') /\ Head(todo') \in {"ensure_azure"}
  <2>1. todo # << >> /\ Head(todo) = "ensure_azure" /\ todo' = todo
    BY DEF EnsureAzure, At
  <2>2. Ending(todo)
    BY <1>1, <2>1, InProgramEnding
  <2> QED
    BY <2>1, <2>2
<1>4. /\ azure' = azure \union {r}
  BY DEF EnsureAzure
<1>5. TypeOK'
  <2>1. azure' \subseteq ToSet(AzureResources)
    BY <1>1, <1>4 DEF TypeOK
  <2> QED
    BY <1>1, <1>2, <1>3, <2>1 DEF TypeOK
<1>6. ManifestsAreLive'
  <2>1. azure \subseteq azure' /\ azure' \subseteq ToSet(AzureResources)
    BY <1>1, <1>4 DEF TypeOK
  <2>2. live["azure"] # Nil => azure' = ToSet(AzureResources)
    BY <1>1, <2>1 DEF ManifestsAreLive
  <2> QED
    BY <1>1, <1>2, <2>2 DEF ManifestsAreLive
<1>7. InProgram'
  <2>1. InProgram' <=> (todo' # << >> => Ending(todo'))
    BY DEF InProgram, Ending, Steps
  <2> QED
    BY <1>3, <2>1
<1>8. ProvisionDone'
  BY <1>1, <1>2, <1>3, <1>4 DEF ProvisionDone, At, AtAny
<1>9. DeployDone'
  BY <1>1, <1>2, <1>3, <1>4
     DEF DeployDone, At, AtAny, DeployingApp, Bootstrapping, ManifestsPresent, AppAgrees, Told,
         Endpoints, azure_container_env_vars, provisional_base_url
<1>10. AppFollows'
  BY <1>1, <1>2, <1>3, <1>4
     DEF AppFollows, Undisturbed, AppAgrees, azure_container_env_vars, At
<1>11. OrphanBudget'
  <2>1. Orphans' = Orphans
    BY <1>1, <1>2, <1>3, <1>4 DEF Orphans
  <2>2. Cardinality(Orphans) \in Nat
    BY <1>1, FiniteInstances
  <2> QED
    BY <1>1, <1>2, <1>3, <1>4, <2>1, <2>2
       DEF TypeOK, OrphanBudget, AtAny, BeforeInstance, AfterInstance
<1> QED
  BY <1>5, <1>6, <1>7, <1>8, <1>9, <1>10, <1>11 DEF DeployInv

\* A command that ends has nothing left to keep.
LEMMA NothingLeftToDo ==
  ASSUME todo' = << >>
  PROVE  InProgram' /\ ProvisionDone' /\ (\A s \in Names : ~At(s)') /\ (\A S : ~AtAny(S)')
<1>1. (\A s \in Names : ~At(s)') /\ (\A S : ~AtAny(S)')
  BY DEF At, AtAny
<1>2. InProgram'
  BY DEF InProgram
<1> QED
  BY <1>1, <1>2 DEF ProvisionDone, At, AtAny

\* A command ends where it neither makes an instance nor changes the app.
LEMMA EndKeeps ==
  ASSUME DeployInv, todo' = << >>, UNCHANGED <<local, cloud, live, used>>,
         completed' \in Commands \union {"none"}, ~AtAny(AfterInstance), ~At("fix_base_url")
  PROVE  DeployInv'
<1>1. /\ TypeOK /\ ManifestsAreLive /\ DeployDone /\ AppFollows /\ OrphanBudget
  BY DEF DeployInv
<1>2. /\ replace' = replace /\ attempt' = attempt /\ seeded' = seeded /\ ec2' = ec2
      /\ azure' = azure /\ gcp' = gcp /\ app' = app /\ hosts' = hosts
      /\ portfolio' = portfolio /\ live' = live /\ used' = used
  BY DEF local, cloud
<1>3. TypeOK'
  BY <1>1, <1>2 DEF TypeOK, AzureResources
<1>4. ManifestsAreLive'
  BY <1>1, <1>2 DEF ManifestsAreLive
<1>5. InProgram' /\ ProvisionDone'
  BY NothingLeftToDo
<1>6. DeployDone'
  BY <1>1, <1>2 DEF DeployDone, At, AtAny
<1>7. AppFollows'
  BY <1>1, <1>2 DEF AppFollows, Undisturbed, AppAgrees, azure_container_env_vars
<1>8. OrphanBudget'
  <2>1. Orphans' = Orphans
    BY <1>2 DEF Orphans
  <2>2. Cardinality(Orphans) \in Nat
    BY <1>1, FiniteInstances
  <2> QED
    BY <1>1, <1>2, <2>1, <2>2 DEF TypeOK, Bounds, OrphanBudget, AtAny
<1> QED
  BY <1>3, <1>4, <1>5, <1>6, <1>7, <1>8 DEF DeployInv

\* The last step of a command.
LEMMA CompleteKeeps ==
  ASSUME DeployInv, Complete
  PROVE  DeployInv'
<1>1. todo # << >> => Ending(todo)
  BY InProgramEnding DEF DeployInv
<1>2. Len(todo) = 1 /\ todo # << >>
  BY DEF Complete
<1>3. Head(todo) \in Commands
  BY <1>1, <1>2, EndingHead
<1>4. ~AtAny(AfterInstance) /\ ~At("fix_base_url")
  BY <1>3 DEF Commands, AtAny, At, AfterInstance
<1>5. /\ todo' = << >> /\ UNCHANGED <<local, cloud, live, used>>
      /\ completed' \in Commands \union {"none"}
  BY <1>3 DEF Complete
<1> QED
  BY <1>4, <1>5, EndKeeps

\* A command that finds a manifest missing.
LEMMA MissingManifestKeeps ==
  ASSUME DeployInv, MissingManifest
  PROVE  DeployInv'
<1>1. ~AtAny(AfterInstance) /\ ~At("fix_base_url")
  BY DEF MissingManifest, AtAny, At, AfterInstance
<1>2. /\ todo' = << >> /\ UNCHANGED <<local, cloud, live, used>>
      /\ completed' \in Commands \union {"none"}
  BY DEF MissingManifest, DeployInv, TypeOK
<1> QED
  BY <1>1, <1>2, EndKeeps

\* A failed command leaves at most one more instance, and at most the manifest that it
\* was about to write empty.
LEMMA FailKeeps ==
  ASSUME DeployInv, Fail
  PROVE  DeployInv'
<1>1. /\ TypeOK /\ ManifestsAreLive /\ DeployDone /\ AppFollows /\ OrphanBudget
  BY DEF DeployInv
<1>2. /\ replace' = replace /\ attempt' = attempt /\ seeded' = seeded /\ ec2' = ec2
      /\ azure' = azure /\ gcp' = gcp /\ app' = app /\ hosts' = hosts
      /\ portfolio' = portfolio /\ completed' = completed /\ todo # << >> /\ todo' = << >>
  BY DEF Fail, Abort, local, cloud
<1>3. /\ used' \in [Bounds -> Nat] /\ used'["failures"] = used["failures"] + 1
      /\ used["failures"] + 1 <= MaxFailures
      /\ used'["replaces"] = used["replaces"] /\ used'["commands"] = used["commands"]
  BY <1>1, BoundsAssumption DEF Fail, Abort, TypeOK, Bounds
<1>4. /\ DOMAIN live' = Manifests
      /\ \A m \in Manifests : live'[m] = live[m] \/ (live'[m] = Nil /\ m \in Writing)
  <2>1. DOMAIN live = Manifests
    BY <1>1 DEF TypeOK
  <2> QED
    BY <2>1 DEF Fail, Abort
<1>5. /\ live'["aws"] \in {live["aws"], Nil} /\ live'["azure"] \in {live["azure"], Nil}
      /\ live'["gcp"] \in {live["gcp"], Nil} /\ live'["status"] \in {live["status"], Nil}
  BY <1>4 DEF Manifests
<1>6. live'["aws"] = live["aws"] \/ (live'["aws"] = Nil /\ At("save_aws"))
  <2>1. "aws" \in Writing => At("save_aws")
    BY DEF Writing, At
  <2> QED
    BY <1>4, <2>1 DEF Manifests
<1>7. TypeOK'
  <2>1. used'["failures"] <= MaxFailures
    BY <1>1, <1>3, BoundsAssumption DEF TypeOK, Bounds
  <2> QED
    BY <1>1, <1>2, <1>3, <1>4, <1>5, <2>1 DEF TypeOK, AzureResources
<1>8. ManifestsAreLive'
  BY <1>1, <1>2, <1>5 DEF ManifestsAreLive
<1>9. InProgram' /\ ProvisionDone'
  BY <1>2, NothingLeftToDo
<1>10. DeployDone'
  BY <1>1, <1>2 DEF DeployDone, At, AtAny
<1>11. AppFollows'
  <2>1. used'["failures"] # 0
    BY <1>1, <1>3 DEF TypeOK, Bounds
  <2> QED
    BY <2>1 DEF AppFollows, Undisturbed
<1>12. OrphanBudget'
  <2>1. /\ IsFiniteSet(Orphans) /\ Cardinality(Orphans) \in Nat
        /\ IsFiniteSet(ec2.instances)
    BY <1>1, FiniteInstances
  <2>2. used["failures"] \in Nat /\ used["replaces"] \in Nat
    BY <1>1 DEF TypeOK, Bounds
  <2>3. /\ Cardinality(Orphans)
             <= used["failures"] + used["replaces"] + 1
        /\ replace => used["replaces"] > 0
    BY <1>1, <2>1, <2>2 DEF OrphanBudget
  <2>4. Cardinality(Orphans') <= used["failures"] + 1 + used["replaces"]
    <3>1. CASE live'["aws"] = live["aws"]
      <4>1. Orphans' = Orphans
        BY <1>2, <3>1 DEF Orphans
      <4> QED
        BY <2>1, <2>2, <2>3, <4>1
    <3>2. CASE live'["aws"] = Nil /\ At("save_aws")
      <4>1. Orphans' = ec2.instances
        BY <1>2, <3>2 DEF Orphans
      <4>2. CASE replace
        <5>1. Cardinality(Orphans) <= used["failures"] + used["replaces"]
          BY <1>1, <2>1, <2>2, <3>2, <4>2 DEF OrphanBudget, AtAny, At, BeforeInstance,
                                               AfterInstance
        <5>2. CASE live["aws"] = Nil
          <6>1. Orphans' = Orphans
            BY <4>1, <5>2 DEF Orphans
          <6> QED
            BY <2>1, <2>2, <5>1, <6>1
        <5>3. CASE live["aws"] # Nil
          <6>1. /\ Orphans = ec2.instances \ {live["aws"].public_ip}
                /\ live["aws"].public_ip \in ec2.instances
            BY <1>1, <5>3 DEF Orphans, ManifestsAreLive
          <6>2. Cardinality(Orphans) = Cardinality(ec2.instances) - 1
            BY <2>1, <6>1, FS_RemoveElement
          <6>3. Cardinality(ec2.instances) \in Nat
            BY <2>1, FS_CardinalityType
          <6> QED
            BY <2>1, <2>2, <4>1, <5>1, <6>2, <6>3
        <5> QED
          BY <5>2, <5>3
      <4>3. CASE ~replace
        <5>1. live["aws"] = Nil
          BY <1>1, <3>2, <4>3 DEF OrphanBudget, AtAny, At, AfterInstance
        <5>2. Orphans' = Orphans
          BY <4>1, <5>1 DEF Orphans
        <5> QED
          BY <2>1, <2>2, <2>3, <5>2
      <4> QED
        BY <4>2, <4>3
    <3> QED
      BY <1>6, <3>1, <3>2
  <2>5. Cardinality(Orphans') \in Nat
    <3>1. Orphans' \subseteq ec2.instances
      BY <1>2 DEF Orphans
    <3> QED
      BY <2>1, <3>1, FS_Subset, FS_CardinalityType
  <2>6. \A S : ~AtAny(S)'
    BY <1>2, NothingLeftToDo
  <2>7. used'["failures"] \in Nat /\ used'["replaces"] \in Nat
    BY <1>3, <2>2
  <2> QED
    BY <1>2, <1>3, <2>2, <2>3, <2>4, <2>5, <2>6, <2>7 DEF OrphanBudget
<1> QED
  BY <1>7, <1>8, <1>9, <1>10, <1>11, <1>12 DEF DeployInv

\* A command starts when none is running.
LEMMA StartKeeps ==
  ASSUME DeployInv, Start
  PROVE  DeployInv'
<1>1. /\ TypeOK /\ ManifestsAreLive /\ DeployDone /\ AppFollows /\ OrphanBudget
  BY DEF DeployInv
<1>2. /\ ec2' = ec2 /\ azure' = azure /\ gcp' = gcp /\ app' = app /\ hosts' = hosts
      /\ portfolio' = portfolio /\ live' = live /\ completed' = "none" /\ seeded' = FALSE
      /\ todo = << >> /\ attempt' = used'["commands"]
  BY DEF Start, cloud
<1>3. PICK command \in Commands, flag \in BOOLEAN :
        /\ flag => used["replaces"] < MaxReplaces
        /\ todo' = Append(Program(command), command) /\ replace' = flag
        /\ used' = [used EXCEPT !["commands"] = @ + 1,
                                !["replaces"] = IF flag THEN @ + 1 ELSE @]
  BY DEF Start
<1>4. /\ todo' # << >> /\ Ending(todo')
      /\ Head(todo') \in {"reuse_aws", "ensure_azure", "reuse_gcp", "check_deploy",
                          "check_manifests"}
  BY <1>3, EndingStart DEF Steps
<1>5. /\ used' \in [Bounds -> Nat] /\ used'["commands"] = used["commands"] + 1
      /\ used'["replaces"] = IF flag THEN used["replaces"] + 1 ELSE used["replaces"]
      /\ used'["failures"] = used["failures"]
      /\ used["commands"] \in Nat /\ used["replaces"] \in Nat /\ used["failures"] \in Nat
  BY <1>1, <1>3 DEF TypeOK, Bounds
<1>6. /\ used'["commands"] <= MaxCommands /\ used'["replaces"] <= MaxReplaces
      /\ attempt' \in 0..MaxCommands /\ attempt' > 0
  BY <1>1, <1>2, <1>3, <1>5, BoundsAssumption DEF Start, TypeOK
<1>7. TypeOK'
  BY <1>1, <1>2, <1>3, <1>4, <1>5, <1>6 DEF TypeOK, AzureResources
<1>8. ManifestsAreLive'
  BY <1>1, <1>2 DEF ManifestsAreLive
<1>9. InProgram'
  <2>1. InProgram' <=> (todo' # << >> => Ending(todo'))
    BY DEF InProgram, Ending, Steps
  <2> QED
    BY <1>4, <2>1
<1>10. ProvisionDone'
  BY <1>4 DEF ProvisionDone, At, AtAny
<1>11. DeployDone'
  BY <1>2, <1>4 DEF DeployDone, At, AtAny, DeployingApp, Bootstrapping
<1>12. AppFollows'
  <2>1. Undisturbed' => Undisturbed
    BY <1>5 DEF Undisturbed
  <2> QED
    BY <1>1, <1>2, <2>1 DEF AppFollows, AppAgrees, azure_container_env_vars, At
<1>13. OrphanBudget'
  <2>1. Orphans' = Orphans
    BY <1>2 DEF Orphans
  <2>2. Cardinality(Orphans) \in Nat
    BY <1>1, FiniteInstances
  <2>3. Cardinality(Orphans) <= used["failures"] + used["replaces"]
    BY <1>1, <1>2, <1>5, <2>2 DEF OrphanBudget, AtAny
  <2>4. Cardinality(Orphans) + (IF flag THEN 1 ELSE 0) <= used'["failures"] + used'["replaces"]
    BY <1>5, <2>2, <2>3
  <2>5. Cardinality(Orphans) <= used'["failures"] + used'["replaces"]
    BY <1>5, <2>2, <2>3
  <2>6. ~AtAny((BeforeInstance \ {"reuse_aws"}) \union AfterInstance)' /\ ~AtAny(AfterInstance)'
    BY <1>4 DEF AtAny, BeforeInstance, AfterInstance
  <2>7. replace' = flag /\ (flag => used'["replaces"] > 0)
    BY <1>3, <1>5
  <2>8. Cardinality(Orphans') + (IF AtAny(BeforeInstance)' /\ replace' THEN 1 ELSE 0)
          <= used'["failures"] + used'["replaces"]
    <3>1. CASE AtAny(BeforeInstance)' /\ replace'
      BY <2>1, <2>4, <2>7, <3>1
    <3>2. CASE ~(AtAny(BeforeInstance)' /\ replace')
      <4>1. Cardinality(Orphans') + 0 = Cardinality(Orphans)
        BY <2>1, <2>2
      <4> QED
        BY <2>5, <3>2, <4>1
    <3> QED
      BY <3>1, <3>2
  <2>9. used'["failures"] + used'["replaces"] + 0 = used'["failures"] + used'["replaces"]
    BY <1>5
  <2> QED
    BY <2>6, <2>7, <2>8, <2>9 DEF OrphanBudget
<1> QED
  BY <1>7, <1>8, <1>9, <1>10, <1>11, <1>12, <1>13 DEF DeployInv

-----------------------------------------------------------------------------
(* The theorems.                                                           *)

LEMMA InitDeployInv == Init => DeployInv
<1> SUFFICES ASSUME Init
             PROVE  DeployInv
  OBVIOUS
<1>1. \A m \in Manifests : live[m] = Nil
  BY DEF Init
<1>2. live["aws"] = Nil /\ live["azure"] = Nil /\ live["gcp"] = Nil /\ live["status"] = Nil
  BY <1>1 DEF Manifests
<1>3. TypeOK
  <2>1. used \in [Bounds -> Nat] /\ \A b \in Bounds : used[b] = 0
    BY DEF Init
  <2>2. {} \in SUBSET (1..MaxCommands) /\ 0 \in 0..MaxCommands
    BY BoundsAssumption
  <2>3. ec2 \in [keys : SUBSET (1..MaxCommands), groups : SUBSET (1..MaxCommands),
                instances : SUBSET (1..MaxCommands), addresses : SUBSET (1..MaxCommands),
                attached : SUBSET (1..MaxCommands)]
    BY <2>2 DEF Init
  <2>4. /\ used["commands"] <= MaxCommands /\ used["failures"] <= MaxFailures
        /\ used["replaces"] <= MaxReplaces
    BY <2>1, BoundsAssumption DEF Bounds
  <2>5. DOMAIN live = Manifests /\ azure = {} /\ gcp = {} /\ todo = << >> /\ attempt = 0
        /\ completed = "none" /\ {replace, seeded, portfolio} \subseteq BOOLEAN
    BY DEF Init
  <2> QED
    BY <1>2, <2>1, <2>2, <2>3, <2>4, <2>5 DEF TypeOK
<1>4. ManifestsAreLive /\ InProgram /\ ProvisionDone
  BY <1>2 DEF Init, ManifestsAreLive, InProgram, ProvisionDone, At, AtAny
<1>5. DeployDone /\ AppFollows
  BY DEF Init, DeployDone, AppFollows, At, AtAny
<1>6. OrphanBudget
  <2>1. Orphans = {}
    BY DEF Init, Orphans
  <2>2. Cardinality(Orphans) = 0
    BY <2>1, FS_EmptySet
  <2>3. used["failures"] = 0 /\ used["replaces"] = 0
    BY DEF Init, Bounds
  <2> QED
    BY <2>2, <2>3 DEF Init, OrphanBudget, AtAny
<1> QED
  BY <1>3, <1>4, <1>5, <1>6 DEF DeployInv

LEMMA StutterDeployInv ==
  ASSUME DeployInv, UNCHANGED vars
  PROVE  DeployInv'
<1>1. /\ TypeOK /\ ManifestsAreLive /\ InProgram /\ ProvisionDone /\ DeployDone
      /\ AppFollows /\ OrphanBudget
  BY DEF DeployInv
<1>2. /\ replace' = replace /\ attempt' = attempt /\ seeded' = seeded /\ ec2' = ec2
      /\ azure' = azure /\ gcp' = gcp /\ app' = app /\ hosts' = hosts
      /\ portfolio' = portfolio /\ live' = live /\ completed' = completed
      /\ used' = used /\ todo' = todo
  BY DEF vars, local, cloud
<1>3. TypeOK' /\ ManifestsAreLive'
  BY <1>1, <1>2 DEF TypeOK, ManifestsAreLive
<1>4. InProgram' /\ ProvisionDone'
  BY <1>1, <1>2 DEF InProgram, ProvisionDone, At, AtAny
<1>5. DeployDone'
  BY <1>1, <1>2 DEF DeployDone, At, AtAny, ManifestsPresent, AppAgrees, Told, Endpoints,
                    azure_container_env_vars, provisional_base_url
<1>6. AppFollows'
  BY <1>1, <1>2 DEF AppFollows, Undisturbed, AppAgrees, azure_container_env_vars, At
<1>7. OrphanBudget'
  <2>1. Orphans' = Orphans
    BY <1>2 DEF Orphans
  <2> QED
    BY <1>1, <1>2, <2>1 DEF OrphanBudget, AtAny
<1> QED
  BY <1>3, <1>4, <1>5, <1>6, <1>7 DEF DeployInv

\* One step per action.
LEMMA NextDeployInv == DeployInv /\ [Next]_vars => DeployInv'
<1> SUFFICES ASSUME DeployInv, [Next]_vars
             PROVE  DeployInv'
  OBVIOUS
<1>1. CASE Start \/ Fail \/ Complete \/ MissingManifest
  BY <1>1, StartKeeps, FailKeeps, CompleteKeeps, MissingManifestKeeps
<1>2. CASE ReuseAws \/ SaveAws
  BY <1>2, ReuseAwsKeeps, SaveAwsKeeps
<1>3. CASE ProvisionEc2
  BY <1>3, ImportKeyKeeps, CreateGroupKeeps, RunInstancesKeeps, AllocateAddressKeeps,
     AssociateAddressKeeps DEF ProvisionEc2
<1>4. CASE EnsureAzure
  <2>1. CASE ToSet(AzureResources) \subseteq azure /\ Skip(1) /\ UNCHANGED azure
    BY <1>4, <2>1, AzureDoneKeeps
  <2>2. CASE \E i \in DOMAIN AzureResources :
               azure' = azure \union {AzureResources[i]} /\ UNCHANGED todo
    <3>1. \A i \in DOMAIN AzureResources : AzureResources[i] \in ToSet(AzureResources)
      BY DEF ToSet
    <3> QED
      BY <1>4, <2>2, <3>1, AzureNextKeeps
  <2> QED
    BY <1>4, <2>1, <2>2 DEF EnsureAzure
<1>5. CASE SaveAzure \/ ReuseGcp \/ SaveGcp
  BY <1>5, SaveAzureKeeps, ReuseGcpKeeps, SaveGcpKeeps
<1>6. CASE EnsureGcp
  <2>1. At("firewall") \/ At("instance")
    BY <1>6 DEF EnsureGcp
  <2> QED
    BY <1>6, <2>1, FirewallKeeps, InstanceKeeps
<1>7. CASE CheckDeploy \/ BuildImage \/ PutApp \/ FixBaseUrl \/ SaveApp
  BY <1>7, CheckDeployKeeps, BuildImageKeeps, PutAppKeeps, FixBaseUrlKeeps, SaveAppKeeps
<1>8. CASE CheckManifests \/ SeedPortfolio \/ SaveStatus
  BY <1>8, CheckManifestsKeeps, SeedPortfolioKeeps, SaveStatusKeeps
<1>9. CASE RunRemotes
  BY <1>9, RemoteAwsKeeps, RemoteGcpKeeps DEF RunRemotes
<1>10. CASE UNCHANGED vars
  BY <1>10, StutterDeployInv
<1> QED
  BY <1>1, <1>2, <1>3, <1>4, <1>5, <1>6, <1>7, <1>8, <1>9, <1>10 DEF Next

\* What a manifest of dist/live names exists in the cloud and is complete, however many
\* commands fail or are stopped, wherever: cloud_deploy.py saves it behind the last call
\* that it tells of.  With it, what the running command has done by the step it is at.
THEOREM DeployInvariant == Spec => []DeployInv
<1>1. Init => DeployInv
  BY InitDeployInv
<1>2. DeployInv /\ [Next]_vars => DeployInv'
  BY NextDeployInv
<1> QED
  BY <1>1, <1>2, PTL DEF Spec

\* EC2 instances that no manifest names, and that somebody pays for, are never more than
\* the failed commands and the replacements together, and one while a command runs.
THEOREM OrphansAreExplained == Spec => []OrphansExplained
<1>1. DeployInv => OrphansExplained
  <2> SUFFICES ASSUME DeployInv
               PROVE  OrphansExplained
    OBVIOUS
  <2>1. TypeOK /\ OrphanBudget
    BY DEF DeployInv
  <2>2. Cardinality(Orphans) \in Nat /\ used["failures"] \in Nat /\ used["replaces"] \in Nat
    BY <2>1, FiniteInstances DEF TypeOK, Bounds
  <2>3. CASE todo = << >>
    BY <2>1, <2>2, <2>3 DEF OrphanBudget, OrphansExplained, AtAny
  <2>4. CASE todo # << >>
    <3>1. Cardinality(Orphans) <= used["failures"] + used["replaces"] + 1
      BY <2>1, <2>2 DEF OrphanBudget
    <3> QED
      BY <2>2, <2>4, <3>1 DEF OrphansExplained
  <2> QED
    BY <2>3, <2>4
<1> QED
  BY <1>1, DeployInvariant, PTL

\* While no command has completed there is nothing to agree on.
LEMMA NothingCompleted ==
  ASSUME completed' = "none"
  PROVE  DeploymentAgrees'
  BY DEF DeploymentAgrees, HostsAgree, AppAgreesUndisturbed, DeployRepairs, Deployed

\* The last step of a command has what it promises.
LEMMA CompleteAgrees ==
  ASSUME DeployInv, Complete
  PROVE  DeploymentAgrees'
<1>1. /\ TypeOK /\ ManifestsAreLive /\ DeployDone /\ AppFollows
  BY DEF DeployInv
<1>2. /\ todo # << >> /\ completed' = Head(todo)
      /\ app' = app /\ hosts' = hosts /\ live' = live /\ used' = used
  BY DEF Complete, cloud
<1>3. HostsAgree'
  <2> SUFFICES ASSUME Head(todo) \in {"go-live", "bootstrap"}
               PROVE  \A h \in {live["aws"].public_ip, live["gcp"].public_ip} :
                        hosts[h] = Endpoints /\ hosts[h].ANOMALY_URL = Fqdn
    BY <1>2 DEF HostsAgree, Deployed, Endpoints
  <2>1. /\ live["azure"].base_url = Fqdn
        /\ Told(live["aws"].public_ip) /\ Told(live["gcp"].public_ip)
    BY <1>1, <1>2 DEF DeployDone, AtAny, Bootstrapping
  <2>2. Endpoints.ANOMALY_URL = Fqdn
    BY <2>1 DEF Endpoints
  <2> QED
    BY <2>1, <2>2 DEF Told
<1>4. AppAgreesUndisturbed'
  <2> SUFFICES ASSUME Head(todo) \in {"go-live", "bootstrap"}, Undisturbed
               PROVE  AppAgrees
    BY <1>2
       DEF AppAgreesUndisturbed, Deployed, Undisturbed, AppAgrees, azure_container_env_vars
  <2>1. ManifestsPresent /\ live["azure"].base_url = Fqdn
    BY <1>1, <1>2 DEF DeployDone, AtAny, Bootstrapping
  <2>2. app # Nil
    BY <1>1, <2>1, RecordFacts DEF ManifestsAreLive, ManifestsPresent
  <2> QED
    BY <1>1, <2>2 DEF AppFollows, At
<1>5. DeployRepairs'
  BY <1>1, <1>2
     DEF DeployRepairs, DeployDone, AtAny, AppAgrees, azure_container_env_vars
<1> QED
  BY <1>3, <1>4, <1>5 DEF DeploymentAgrees

LEMMA NextAgrees == DeployInv /\ DeploymentAgrees /\ [Next]_vars => DeploymentAgrees'
<1> SUFFICES ASSUME DeployInv, DeploymentAgrees, [Next]_vars
             PROVE  DeploymentAgrees'
  OBVIOUS
<1>1. todo # << >> => completed = "none"
  BY DEF DeployInv, TypeOK
<1>2. CASE Start
  BY <1>2, NothingCompleted DEF Start
<1>3. CASE Complete
  BY <1>3, CompleteAgrees
<1>4. CASE Next /\ ~Start /\ ~Complete
  <2>1. todo # << >> /\ completed' = completed
    BY <1>4
       DEF Next, Fail, Abort, ReuseAws, ProvisionEc2, CreateEc2, SaveAws, EnsureAzure,
         SaveAzure, ReuseGcp, EnsureGcp, SaveGcp, CheckDeploy, BuildImage, PutApp, FixBaseUrl,
         SaveApp, CheckManifests, MissingManifest, RunRemotes, RunRemote, SeedPortfolio,
         SaveStatus, Advance, At
  <2> QED
    BY <1>1, <2>1, NothingCompleted
<1>5. CASE UNCHANGED vars
  BY <1>5 DEF vars, local, cloud, DeploymentAgrees, HostsAgree, AppAgreesUndisturbed,
       DeployRepairs, Deployed, Undisturbed, AppAgrees, azure_container_env_vars, Endpoints
<1> QED
  BY <1>2, <1>3, <1>4, <1>5

\* After a completed go-live or bootstrap both VMs have the endpoints of the deployment at
\* hand; the Container App agrees too if no command failed or replaced AWS; and a completed
\* deploy-azure makes it agree whatever happened before.
THEOREM DeploymentsAgree == Spec => []DeploymentAgrees
<1>1. Init => DeploymentAgrees
  BY
     DEF Init, DeploymentAgrees, HostsAgree, AppAgreesUndisturbed, DeployRepairs, Deployed
<1>2. DeployInv /\ DeploymentAgrees /\ [Next]_vars => DeploymentAgrees'
  BY NextAgrees
<1> QED
  BY <1>1, <1>2, DeployInvariant, PTL DEF Spec


-----------------------------------------------------------------------------
(* run_local_stack.py: lists of programs and lists of steps.               *)

\* What is in a list, backwards, with one more, and without the first.
LEMMA ToSetFacts ==
  ASSUME NEW S, NEW s \in Seq(S)
  PROVE  /\ ToSet(s) \subseteq S
         /\ \A x : x \in ToSet(s) <=> \E i \in 1..Len(s) : s[i] = x
  BY DEF ToSet

LEMMA ReverseFacts ==
  ASSUME NEW S, NEW s \in Seq(S)
  PROVE  Reverse(s) \in Seq(S) /\ \A x \in ToSet(s) : x \in ToSet(Reverse(s))
<1>1. Len(s) \in Nat /\ \A i \in 1..Len(s) : s[i] \in S
  OBVIOUS
<1>2. \A i \in 1..Len(s) : (Len(s) - i) + 1 \in 1..Len(s) /\ (Len(s) - ((Len(s) - i) + 1)) + 1 = i
  BY <1>1
<1>3. /\ Reverse(s) \in Seq(S) /\ Len(Reverse(s)) = Len(s)
      /\ \A i \in 1..Len(s) : Reverse(s)[i] = s[(Len(s) - i) + 1]
  BY <1>1, <1>2 DEF Reverse
<1>4. ASSUME NEW x \in ToSet(s) PROVE x \in ToSet(Reverse(s))
  <2>1. PICK i \in 1..Len(s) : s[i] = x
    BY ToSetFacts
  <2>2. /\ (Len(s) - i) + 1 \in 1..Len(Reverse(s))
        /\ Reverse(s)[(Len(s) - i) + 1] = x
    BY <1>2, <1>3, <2>1
  <2> QED
    BY <1>3, <2>2, ToSetFacts
<1> QED
  BY <1>3, <1>4

LEMMA AppendSet ==
  ASSUME NEW S, NEW s \in Seq(S), NEW e \in S
  PROVE  /\ Append(s, e) \in Seq(S) /\ e \in ToSet(Append(s, e))
         /\ \A x \in ToSet(s) : x \in ToSet(Append(s, e))
<1>1. /\ Append(s, e) \in Seq(S) /\ Len(Append(s, e)) = Len(s) + 1 /\ Len(s) \in Nat
      /\ Append(s, e)[Len(s) + 1] = e /\ \A i \in 1..Len(s) : Append(s, e)[i] = s[i]
  OBVIOUS
<1>2. Len(s) + 1 \in 1..Len(Append(s, e)) /\ \A i \in 1..Len(s) : i \in 1..Len(Append(s, e))
  BY <1>1
<1>3. e \in ToSet(Append(s, e))
  BY <1>1, <1>2, ToSetFacts
<1>4. ASSUME NEW x \in ToSet(s) PROVE x \in ToSet(Append(s, e))
  <2>1. PICK i \in 1..Len(s) : s[i] = x
    BY ToSetFacts
  <2>2. i \in 1..Len(Append(s, e)) /\ Append(s, e)[i] = x
    BY <1>1, <1>2, <2>1
  <2> QED
    BY <1>1, <2>2, ToSetFacts
<1> QED
  BY <1>1, <1>3, <1>4

LEMMA TailSet ==
  ASSUME NEW S, NEW s \in Seq(S), s # << >>
  PROVE  /\ Tail(s) \in Seq(S) /\ Head(s) \in S
         /\ \A x \in ToSet(s) : x = Head(s) \/ x \in ToSet(Tail(s))
<1>1. /\ Len(s) \in Nat /\ Len(s) >= 1 /\ Tail(s) \in Seq(S) /\ Len(Tail(s)) = Len(s) - 1
      /\ Head(s) = s[1] /\ \A i \in 1..Len(Tail(s)) : Tail(s)[i] = s[i + 1]
  OBVIOUS
<1>2. Head(s) \in S
  BY <1>1
<1>3. ASSUME NEW x \in ToSet(s), x # Head(s) PROVE x \in ToSet(Tail(s))
  <2>1. PICK i \in 1..Len(s) : s[i] = x
    BY ToSetFacts
  <2>2. i - 1 \in 1..Len(Tail(s))
    BY <1>1, <1>3, <2>1
  <2>3. Tail(s)[i - 1] = x
    BY <1>1, <2>1, <2>2
  <2> QED
    BY <1>1, <2>2, <2>3, ToSetFacts
<1> QED
  BY <1>1, <1>2, <1>3

\* The steps that remain after the first are still paired.
LEMMA TailListed ==
  ASSUME NEW s \in Seq(TryStep), s # << >>, ListedNext(s)
  PROVE  ListedNext(Tail(s))
<1>1. /\ Len(s) \in Nat /\ Len(s) >= 1 /\ Tail(s) \in Seq(TryStep) /\ Len(Tail(s)) = Len(s) - 1
      /\ \A i \in 1..Len(Tail(s)) : Tail(s)[i] = s[i + 1]
      /\ DOMAIN s = 1..Len(s) /\ DOMAIN Tail(s) = 1..Len(Tail(s))
  OBVIOUS
<1> SUFFICES ASSUME NEW i \in DOMAIN Tail(s), Tail(s)[i].do = "popen"
             PROVE  /\ i < Len(Tail(s))
                    /\ Tail(s)[i + 1] = [do |-> "append", prog |-> Tail(s)[i].prog]
  BY DEF ListedNext
<1>2. i + 1 \in DOMAIN s /\ Tail(s)[i] = s[i + 1]
  BY <1>1
<1>3. i + 1 < Len(s) /\ s[i + 1 + 1] = [do |-> "append", prog |-> s[i + 1].prog]
  BY <1>2 DEF ListedNext
<1>4. i < Len(Tail(s)) /\ i + 1 \in 1..Len(Tail(s))
  BY <1>1, <1>3
<1> QED
  BY <1>1, <1>2, <1>3, <1>4

\* One list of steps after another.
LEMMA ConcatListed ==
  ASSUME NEW s \in Seq(TryStep), NEW t \in Seq(TryStep), ListedNext(s), ListedNext(t)
  PROVE  s \o t \in Seq(TryStep) /\ ListedNext(s \o t)
<1> DEFINE u == s \o t
<1>1. /\ u \in Seq(TryStep) /\ Len(u) = Len(s) + Len(t)
      /\ \A i \in 1..(Len(s) + Len(t)) : u[i] = IF i <= Len(s) THEN s[i] ELSE t[i - Len(s)]
  BY ConcatFacts
<1>2. /\ Len(s) \in Nat /\ Len(t) \in Nat /\ DOMAIN s = 1..Len(s) /\ DOMAIN t = 1..Len(t)
      /\ DOMAIN u = 1..Len(u)
  BY <1>1
<1> HIDE DEF u
<1>3. ASSUME NEW i \in DOMAIN u, u[i].do = "popen"
      PROVE  i < Len(u) /\ u[i + 1] = [do |-> "append", prog |-> u[i].prog]
  <2>1. CASE i <= Len(s)
    <3>1. i \in DOMAIN s /\ u[i] = s[i]
      BY <1>1, <1>2, <2>1
    <3>2. i < Len(s) /\ s[i + 1] = [do |-> "append", prog |-> s[i].prog]
      BY <1>3, <3>1 DEF ListedNext
    <3>3. i < Len(u) /\ u[i + 1] = s[i + 1]
      BY <1>1, <1>2, <3>2
    <3> QED
      BY <3>1, <3>2, <3>3
  <2>2. CASE ~(i <= Len(s))
    <3>1. i - Len(s) \in DOMAIN t /\ u[i] = t[i - Len(s)]
      BY <1>1, <1>2, <2>2
    <3>2. /\ i - Len(s) < Len(t)
          /\ t[i - Len(s) + 1] = [do |-> "append", prog |-> t[i - Len(s)].prog]
      BY <1>3, <3>1 DEF ListedNext
    <3>3. i < Len(u) /\ u[i + 1] = t[i - Len(s) + 1]
      <4>1. i + 1 \in 1..(Len(s) + Len(t)) /\ ~(i + 1 <= Len(s)) /\ i + 1 - Len(s) = i - Len(s) + 1
        BY <1>1, <1>2, <2>2, <3>2
      <4> QED
        BY <1>1, <1>2, <4>1
    <3> QED
      BY <3>1, <3>2, <3>3
  <2> QED
    BY <2>1, <2>2
<1>4. ListedNext(u)
  BY <1>3 DEF ListedNext
<1> QED
  BY <1>1, <1>4 DEF u

\* The steps of one program.
LEMMA LaunchListed ==
  ASSUME NEW p \in Programs
  PROVE  /\ LaunchSteps(p) \in Seq(TryStep) /\ ListedNext(LaunchSteps(p))
         /\ HealthStep(p) \in Seq(TryStep) /\ ListedNext(HealthStep(p))
<1> DEFINE popen  == [do |-> "popen", prog |-> p]
           append == [do |-> "append", prog |-> p]
           health == [do |-> "health", prog |-> p]
<1>1. /\ popen \in TryStep /\ append \in TryStep /\ health \in TryStep
      /\ popen.do = "popen" /\ popen.prog = p /\ append.do # "popen" /\ health.do # "popen"
  BY DEF TryStep
<1>2. append = [do |-> "append", prog |-> popen.prog]
  OBVIOUS
<1> HIDE DEF popen, append, health
<1>3. /\ <<popen, append>> \in Seq(TryStep) /\ Len(<<popen, append>>) = 2
      /\ DOMAIN <<popen, append>> = {1, 2}
      /\ <<popen, append>>[1] = popen /\ <<popen, append>>[2] = append
  BY <1>1
<1>4. ListedNext(<<popen, append>>)
  BY <1>1, <1>2, <1>3 DEF ListedNext
<1>5. /\ <<health>> \in Seq(TryStep) /\ Len(<<health>>) = 1
      /\ DOMAIN <<health>> = {1} /\ <<health>>[1] = health
  BY <1>1
<1>6. ListedNext(<<health>>)
  BY <1>1, <1>5 DEF ListedNext
<1> QED
  BY <1>3, <1>4, <1>5, <1>6 DEF LaunchSteps, HealthStep, popen, append, health

\* The loop over the services.
LEMMA ServicesListed ==
  ServiceSteps \in Seq(TryStep) /\ ListedNext(ServiceSteps)
<1> DEFINE n == Len(Services)
           kind(k) == <<"popen", "append", "health">>[1 + ((k - 1) % 3)]
           prog(k) == Services[1 + ((k - 1) \div 3)]
<1>1. /\ n \in Nat /\ \A i \in 1..n : Services[i] \in Programs
  BY ServicesAssumption DEF Programs
<1>2. \A k \in 1..(3 * n) : /\ 1 + ((k - 1) \div 3) \in 1..n
                            /\ (k - 1) % 3 \in {0, 1, 2}
  BY <1>1
<1>3. \A k \in 1..(3 * n) : prog(k) \in Programs
  BY <1>1, <1>2
<1>4. \A k \in 1..(3 * n) : /\ kind(k) \in {"popen", "append", "health"}
                            /\ kind(k) = "popen" => (k - 1) % 3 = 0
  BY <1>2
<1>5. \A k \in 1..(3 * n) : (k - 1) % 3 = 0 =>
        /\ k + 1 \in 1..(3 * n)
        /\ (k + 1 - 1) % 3 = 1 /\ (k + 1 - 1) \div 3 = (k - 1) \div 3
  BY <1>1
<1> HIDE DEF n
<1>6. /\ ServiceSteps \in Seq(TryStep) /\ Len(ServiceSteps) = 3 * n
      /\ DOMAIN ServiceSteps = 1..(3 * n)
      /\ \A k \in 1..(3 * n) : ServiceSteps[k] = [do |-> kind(k), prog |-> prog(k)]
  <2>1. ServiceSteps = [k \in 1..(3 * n) |-> [do |-> kind(k), prog |-> prog(k)]]
    BY DEF ServiceSteps, n
  <2> HIDE DEF kind, prog
  <2>2. \A k \in 1..(3 * n) : [do |-> kind(k), prog |-> prog(k)] \in TryStep
    BY <1>3, <1>4 DEF TryStep
  <2>3. 3 * n \in Nat
    BY <1>1
  <2>4. ServiceSteps \in [1..(3 * n) -> TryStep]
    BY <2>1, <2>2
  <2> QED
    BY <2>1, <2>3, <2>4
<1>7. ASSUME NEW k \in DOMAIN ServiceSteps, ServiceSteps[k].do = "popen"
      PROVE  /\ k < Len(ServiceSteps)
             /\ ServiceSteps[k + 1] = [do |-> "append", prog |-> ServiceSteps[k].prog]
  <2>1. k \in 1..(3 * n) /\ kind(k) = "popen" /\ ServiceSteps[k].prog = prog(k)
    <3> HIDE DEF kind, prog
    <3> QED
      BY <1>6, <1>7
  <2>2. k + 1 \in 1..(3 * n) /\ kind(k + 1) = "append" /\ prog(k + 1) = prog(k)
    BY <1>4, <1>5, <2>1
  <2> HIDE DEF kind, prog
  <2>3. ServiceSteps[k + 1] = [do |-> "append", prog |-> prog(k)]
    BY <1>6, <2>2
  <2> QED
    BY <1>1, <1>6, <2>1, <2>2, <2>3
<1> QED
  BY <1>6, <1>7 DEF ListedNext

\* The whole try block.
LEMMA MainListed ==
  ASSUME NEW options
  PROVE  MainSteps(options) \in Seq(TryStep) /\ ListedNext(MainSteps(options))
<1> DEFINE bridge    == IF "iot_bridge" \in options
                        THEN LaunchSteps("iot_bridge") \o HealthStep("iot_bridge") ELSE << >>
           seed      == <<[do |-> "seed", prog |-> Seeded]>>
           publisher == IF "publisher" \in options THEN LaunchSteps("publisher") ELSE << >>
           dashboard == IF "dashboard" \in options THEN LaunchSteps("dashboard") ELSE << >>
<1>0. << >> \in Seq(TryStep) /\ ListedNext(<< >>)
  BY DEF ListedNext
<1>1. "iot_bridge" \in Programs /\ "publisher" \in Programs /\ "dashboard" \in Programs
      /\ Seeded \in Programs
  BY ServicesAssumption DEF Programs, Extras
<1>2. bridge \in Seq(TryStep) /\ ListedNext(bridge)
  BY <1>0, <1>1, LaunchListed, ConcatListed
<1>3. seed \in Seq(TryStep) /\ ListedNext(seed)
  <2> DEFINE step == [do |-> "seed", prog |-> Seeded]
  <2>1. step \in TryStep /\ step.do # "popen"
    BY <1>1 DEF TryStep
  <2> HIDE DEF step
  <2>2. <<step>> \in Seq(TryStep) /\ DOMAIN <<step>> = {1} /\ <<step>>[1] = step
    BY <2>1
  <2>3. ListedNext(<<step>>)
    BY <2>1, <2>2 DEF ListedNext
  <2> QED
    BY <2>2, <2>3 DEF step
<1>4. publisher \in Seq(TryStep) /\ ListedNext(publisher)
  BY <1>0, <1>1, LaunchListed
<1>5. dashboard \in Seq(TryStep) /\ ListedNext(dashboard)
  BY <1>0, <1>1, LaunchListed
<1> HIDE DEF bridge, seed, publisher, dashboard
<1>6. ServiceSteps \o bridge \in Seq(TryStep) /\ ListedNext(ServiceSteps \o bridge)
  BY <1>2, ServicesListed, ConcatListed
<1>7. ServiceSteps \o bridge \o seed \in Seq(TryStep) /\ ListedNext(ServiceSteps \o bridge \o seed)
  BY <1>3, <1>6, ConcatListed
<1>8. /\ ServiceSteps \o bridge \o seed \o publisher \in Seq(TryStep)
      /\ ListedNext(ServiceSteps \o bridge \o seed \o publisher)
  BY <1>4, <1>7, ConcatListed
<1>9. /\ ServiceSteps \o bridge \o seed \o publisher \o dashboard \in Seq(TryStep)
      /\ ListedNext(ServiceSteps \o bridge \o seed \o publisher \o dashboard)
  BY <1>5, <1>8, ConcatListed
<1> QED
  BY <1>9 DEF MainSteps, bridge, seed, publisher, dashboard

-----------------------------------------------------------------------------
(* StackInv: one lemma for each action.                                    *)

\* What StackInv says of a state, and that ResetIsClean goes with it.
LEMMA InitStack ==
  ASSUME StackInit
  PROVE  StackInv /\ ResetIsClean
<1>1. << >> \in Seq(TryStep) /\ << >> \in Seq(Programs) /\ ListedNext(<< >>)
  BY DEF ListedNext
<1>2. StackTypes
  <2>1. /\ phase = "off" /\ rest = << >> /\ processes = << >> /\ queue = << >> /\ run = 0
        /\ procs = {} /\ foreign = FALSE /\ abandoned = FALSE
    BY DEF StackInit
  <2>2. data \in [ToSet(Services) -> {"none", "new", "old"}]
    BY DEF StackInit
  <2>3. run \in 0..MaxRuns
    BY <2>1, RunsAssumption
  <2> QED
    BY <1>1, <2>1, <2>2, <2>3 DEF StackTypes
<1>3. NothingLeft /\ HealthIsOwn /\ ListedNext(rest) /\ ChildrenKnown
  BY <1>1 DEF StackInit, NothingLeft, HealthIsOwn, ChildrenKnown
<1>4. \A p \in DOMAIN data : data[p] # "old"
  BY DEF StackInit
<1>5. ResetIsClean
  BY <1>4 DEF StackInit, ResetIsClean
<1> QED
  BY <1>2, <1>3, <1>5 DEF StackInv

LEMMA MainStack ==
  ASSUME StackInv, Main
  PROVE  StackInv'
<1>1. /\ phase = "off" /\ run < MaxRuns /\ run' = run + 1 /\ phase' = "try"
      /\ processes' = << >> /\ queue' = queue /\ foreign' = foreign /\ abandoned' = abandoned
  BY DEF Main
<1>2. PICK options \in Options : rest' = MainSteps(options)
  BY DEF Main
<1>3. rest' \in Seq(TryStep) /\ ListedNext(rest')
  BY <1>2, MainListed
<1>4. /\ run \in Nat /\ run' \in 1..MaxRuns /\ queue \in Seq(Programs)
      /\ << >> \in Seq(Programs) /\ procs \subseteq Process
      /\ data \in [ToSet(Services) -> {"none", "new", "old"}]
      /\ foreign \in BOOLEAN /\ abandoned \in BOOLEAN
  BY <1>1, RunsAssumption DEF StackInv, StackTypes
<1>5. /\ procs' \subseteq Process /\ (procs = {} => procs' = {})
      /\ data' \in [ToSet(Services) -> {"none", "new", "old"}]
  <2>1. CASE ResetState
    <3>1. procs' = {[q EXCEPT !.old = TRUE] : q \in procs}
      BY <2>1 DEF ResetState
    <3>2. \A q \in procs : [q EXCEPT !.old = TRUE] \in Process
      BY <1>4 DEF Process
    <3>3. data' \in [ToSet(Services) -> {"none", "new", "old"}]
      BY <2>1 DEF ResetState
    <3> QED
      BY <3>1, <3>2, <3>3
  <2>2. CASE UNCHANGED <<data, procs>>
    BY <1>4, <2>2
  <2> QED
    BY <2>1, <2>2 DEF Main
<1>6. StackTypes'
  BY <1>1, <1>3, <1>4, <1>5 DEF StackTypes
<1>7. ~abandoned => procs' = {}
  BY <1>1, <1>5 DEF StackInv, NothingLeft
<1>8. NothingLeft' /\ HealthIsOwn' /\ ListedNext(rest)'
  BY <1>1, <1>3 DEF StackInv, NothingLeft, HealthIsOwn
<1>9. ChildrenKnown'
  BY <1>1, <1>4, <1>7 DEF ChildrenKnown
<1> QED
  BY <1>6, <1>8, <1>9 DEF StackInv

\* What a step of the try block finds, and what it leaves to do.
LEMMA TryStepFacts ==
  ASSUME StackInv, phase = "try", rest # << >>
  PROVE  /\ Head(rest) \in TryStep /\ Tail(rest) \in Seq(TryStep) /\ ListedNext(Tail(rest))
         /\ Head(rest).prog \in Programs
         /\ Head(rest).do = "popen" =>
              /\ Tail(rest) # << >>
              /\ Head(Tail(rest)) = [do |-> "append", prog |-> Head(rest).prog]
<1>1. rest \in Seq(TryStep) /\ ListedNext(rest)
  BY DEF StackInv, StackTypes
<1>2. Head(rest) \in TryStep /\ Tail(rest) \in Seq(TryStep)
  BY <1>1, TailSet
<1>3. ListedNext(Tail(rest))
  BY <1>1, TailListed
<1>4. Head(rest).prog \in Programs
  BY <1>2 DEF TryStep
<1>5. ASSUME Head(rest).do = "popen"
      PROVE  /\ Tail(rest) # << >>
             /\ Head(Tail(rest)) = [do |-> "append", prog |-> Head(rest).prog]
  <2>1. /\ 1 \in DOMAIN rest /\ Head(rest) = rest[1] /\ Len(rest) \in Nat
        /\ Len(Tail(rest)) = Len(rest) - 1
        /\ \A i \in 1..(Len(rest) - 1) : Tail(rest)[i] = rest[i + 1]
    BY <1>1
  <2>2. 1 < Len(rest) /\ rest[2] = [do |-> "append", prog |-> rest[1].prog]
    BY <1>1, <1>5, <2>1 DEF ListedNext
  <2>3. Tail(rest)[1] = rest[2] /\ Len(Tail(rest)) >= 1
    BY <2>1, <2>2
  <2>4. \A t \in Seq(TryStep) : Len(t) >= 1 => t # << >> /\ Head(t) = t[1]
    OBVIOUS
  <2>5. Tail(rest) # << >> /\ Head(Tail(rest)) = Tail(rest)[1]
    BY Zenon, <1>2, <2>3, <2>4
  <2> QED
    BY <2>1, <2>2, <2>3, <2>5
<1> QED
  BY <1>2, <1>3, <1>4, <1>5

LEMMA PopenStack ==
  ASSUME StackInv, Popen
  PROVE  StackInv'
<1> DEFINE p == Head(rest).prog
           child == [prog |-> p, run |-> run, old |-> FALSE, st |-> "starting"]
<1>1. /\ phase = "try" /\ rest # << >> /\ Head(rest).do = "popen"
      /\ procs' = procs \union {child} /\ rest' = Tail(rest)
      /\ UNCHANGED <<phase, processes, queue, run, data, foreign, abandoned>>
  BY DEF Popen, Do, observers
<1>2. /\ p \in Programs /\ Tail(rest) \in Seq(TryStep) /\ ListedNext(Tail(rest))
      /\ Tail(rest) # << >> /\ Head(Tail(rest)) = [do |-> "append", prog |-> p]
  BY <1>1, TryStepFacts
<1>3. run \in 1..MaxRuns
  BY <1>1 DEF StackInv, ChildrenKnown
<1>4. child \in Process /\ child.run = run /\ child.prog = p
  BY <1>2, <1>3 DEF Process
<1>5. \A q \in procs : ~abandoned => q.run = run /\ q.prog \in ToSet(processes)
  <2>1. \A x : Head(rest) # [do |-> "append", prog |-> x]
    BY <1>1
  <2> QED
    BY <1>1, <2>1 DEF StackInv, ChildrenKnown
<1> HIDE DEF p, child
<1>6. StackTypes'
  BY <1>1, <1>2, <1>4 DEF StackInv, StackTypes
<1>7. NothingLeft' /\ HealthIsOwn' /\ ListedNext(rest)'
  BY <1>1, <1>2 DEF StackInv, NothingLeft, HealthIsOwn
<1>8. ChildrenKnown'
  BY <1>1, <1>2, <1>3, <1>4, <1>5 DEF ChildrenKnown
<1> QED
  BY <1>6, <1>7, <1>8 DEF StackInv

LEMMA AppendProcessStack ==
  ASSUME StackInv, AppendProcess
  PROVE  StackInv'
<1> DEFINE p == Head(rest).prog
<1>1. /\ phase = "try" /\ rest # << >> /\ Head(rest).do = "append"
      /\ processes' = Append(processes, p) /\ rest' = Tail(rest)
      /\ UNCHANGED <<phase, queue, run, procs, data, foreign, abandoned>>
  BY DEF AppendProcess, Do, observers
<1>2. p \in Programs /\ Tail(rest) \in Seq(TryStep) /\ ListedNext(Tail(rest))
  BY <1>1, TryStepFacts
<1>3. /\ Append(processes, p) \in Seq(Programs) /\ p \in ToSet(Append(processes, p))
      /\ \A x \in ToSet(processes) : x \in ToSet(Append(processes, p))
  BY <1>2, AppendSet DEF StackInv, StackTypes
<1>4. \A q \in procs : Head(rest) = [do |-> "append", prog |-> q.prog] => q.prog = p
  OBVIOUS
<1>5. \A q \in procs : ~abandoned => q.run = run /\ q.prog \in ToSet(processes')
  BY <1>1, <1>3, <1>4 DEF StackInv, ChildrenKnown
<1> HIDE DEF p
<1>6. StackTypes'
  BY <1>1, <1>2, <1>3 DEF StackInv, StackTypes
<1>7. NothingLeft' /\ HealthIsOwn' /\ ListedNext(rest)'
  BY <1>1, <1>2 DEF StackInv, NothingLeft, HealthIsOwn
<1>8. ChildrenKnown'
  BY <1>1, <1>5 DEF StackInv, ChildrenKnown
<1> QED
  BY <1>6, <1>7, <1>8 DEF StackInv

\* A step that is neither the start of a child nor its entry in the list is done.
LEMMA OtherStepDone ==
  ASSUME StackInv, phase = "try", rest # << >>, Head(rest).do \in {"health", "seed"},
         rest' = Tail(rest), foreign' \in BOOLEAN, foreign' => abandoned,
         UNCHANGED <<phase, processes, queue, run, procs, data, abandoned>>
  PROVE  StackInv'
<1>1. Tail(rest) \in Seq(TryStep) /\ ListedNext(Tail(rest))
  BY TryStepFacts
<1>2. \A x : Head(rest) # [do |-> "append", prog |-> x]
  OBVIOUS
<1>3. \A q \in procs : ~abandoned => q.run = run /\ q.prog \in ToSet(processes)
  BY <1>2 DEF StackInv, ChildrenKnown
<1>4. StackTypes'
  BY <1>1 DEF StackInv, StackTypes
<1>5. NothingLeft' /\ HealthIsOwn' /\ ListedNext(rest)'
  BY <1>1 DEF StackInv, NothingLeft, HealthIsOwn
<1>6. ChildrenKnown'
  BY <1>3 DEF StackInv, ChildrenKnown
<1> QED
  BY <1>4, <1>5, <1>6 DEF StackInv

\* The try block is left: with every child in the list, or cut short.
LEMMA LeaveStack ==
  ASSUME StackInv, phase = "try", Leave, abandoned' \in BOOLEAN, abandoned => abandoned',
         rest # << >> /\ Head(rest).do = "append" => abandoned',
         procs' \subseteq Process,
         \A q \in procs' : \E o \in procs : q.prog = o.prog /\ q.run = o.run,
         UNCHANGED <<data, foreign>>
  PROVE  StackInv'
<1>1. /\ phase' = "term" /\ rest' = << >> /\ queue' = Reverse(processes)
      /\ processes' = processes /\ run' = run
  BY DEF Leave
<1>2. /\ << >> \in Seq(TryStep) /\ ListedNext(<< >>) /\ Reverse(processes) \in Seq(Programs)
  BY ReverseFacts DEF ListedNext, StackInv, StackTypes
<1>3. ASSUME NEW q \in procs', ~abandoned'
      PROVE  q.run = run /\ q.prog \in ToSet(processes)
  <2>1. PICK o \in procs : q.prog = o.prog /\ q.run = o.run
    OBVIOUS
  <2>2. rest # << >> => Head(rest) # [do |-> "append", prog |-> o.prog]
    BY <1>3
  <2>3. o.run = run /\ o.prog \in ToSet(processes)
    BY <1>3, <2>2 DEF StackInv, StackTypes, ChildrenKnown
  <2> QED
    BY <2>1, <2>3
<1>4. StackTypes'
  BY <1>1, <1>2 DEF StackInv, StackTypes
<1>5. NothingLeft' /\ HealthIsOwn' /\ ListedNext(rest)'
  BY <1>1, <1>2 DEF StackInv, NothingLeft, HealthIsOwn
<1>6. ChildrenKnown'
  BY <1>1, <1>3 DEF StackInv, ChildrenKnown
<1> QED
  BY <1>4, <1>5, <1>6 DEF StackInv

\* The same when no process changes.
LEMMA LeaveSame ==
  ASSUME StackInv, phase = "try", rest # << >>, Head(rest).do # "append", Leave,
         UNCHANGED <<procs, data, foreign, abandoned>>
  PROVE  StackInv'
<1>1. procs' \subseteq Process /\ abandoned' \in BOOLEAN
  BY DEF StackInv, StackTypes
<1>2. \A q \in procs' : \E o \in procs : q.prog = o.prog /\ q.run = o.run
  OBVIOUS
<1> QED
  BY <1>1, <1>2, LeaveStack

LEMMA PopenFailsStack ==
  ASSUME StackInv, PopenFails
  PROVE  StackInv'
  BY LeaveSame DEF PopenFails, Do, observers

\* Who answers is the run's own child unless a run was cut short.
LEMMA HealthOkStack ==
  ASSUME StackInv, HealthOk
  PROVE  StackInv'
<1> DEFINE p == Head(rest).prog
<1>1. /\ phase = "try" /\ rest # << >> /\ Head(rest).do = "health"
      /\ PortTaken(p) /\ rest' = Tail(rest)
      /\ foreign' = (foreign \/ ~ \E q \in Own(p) : q.st = "serving")
      /\ UNCHANGED <<phase, processes, queue, run, procs, data, abandoned>>
  BY DEF HealthOk, Do
<1>2. PICK q \in procs : q.prog = p /\ q.st = "serving"
  BY <1>1 DEF PortTaken
<1>3. ~abandoned => q \in Own(p)
  BY <1>2 DEF StackInv, ChildrenKnown, Own
<1>4. foreign' \in BOOLEAN /\ (foreign' => abandoned)
  BY <1>1, <1>2, <1>3 DEF StackInv, HealthIsOwn, StackTypes
<1> QED
  BY <1>1, <1>4, OtherStepDone

LEMMA HealthFailsStack ==
  ASSUME StackInv, HealthFails
  PROVE  StackInv'
<1>1. /\ phase = "try" /\ rest # << >> /\ Head(rest).do = "health"
      /\ UNCHANGED <<procs, data, foreign, abandoned>>
  BY DEF HealthFails, Do, observers
<1>2. CASE Head(rest).prog = "iot_bridge"
  <2>1. rest' = Tail(rest) /\ UNCHANGED <<phase, processes, queue, run>>
    BY <1>2 DEF HealthFails
  <2>2. foreign' \in BOOLEAN /\ (foreign' => abandoned)
    BY <1>1 DEF StackInv, StackTypes, HealthIsOwn
  <2> QED
    BY <1>1, <2>1, <2>2, OtherStepDone
<1>3. CASE Head(rest).prog # "iot_bridge"
  <2>1. Leave
    BY <1>3 DEF HealthFails
  <2> QED
    BY <1>1, <2>1, LeaveSame
<1> QED
  BY <1>2, <1>3

LEMMA SeedStack ==
  ASSUME StackInv, Seed
  PROVE  StackInv'
<1>1. /\ phase = "try" /\ rest # << >> /\ Head(rest).do = "seed"
      /\ UNCHANGED <<procs, data, foreign, abandoned>>
  BY DEF Seed, Do, observers
<1>2. CASE rest' = Tail(rest) /\ UNCHANGED <<phase, processes, queue, run>>
  <2>1. foreign' \in BOOLEAN /\ (foreign' => abandoned)
    BY <1>1 DEF StackInv, StackTypes, HealthIsOwn
  <2> QED
    BY <1>1, <1>2, <2>1, OtherStepDone
<1>3. CASE Leave
  BY <1>1, <1>3, LeaveSame
<1> QED
  BY <1>2, <1>3 DEF Seed

\* An interrupt between the start of a child and its entry in the list is the
\* one that leaves a child unknown.
LEMMA InterruptStack ==
  ASSUME StackInv, Interrupt
  PROVE  StackInv'
<1>1. /\ phase = "try" /\ Leave /\ abandoned' = (abandoned \/ Do("append"))
      /\ UNCHANGED <<data, foreign>>
  BY DEF Interrupt
<1>2. /\ abandoned' \in BOOLEAN /\ (abandoned => abandoned')
      /\ (rest # << >> /\ Head(rest).do = "append" => abandoned')
  BY <1>1 DEF StackInv, StackTypes, Do
<1>3. procs \subseteq Process
  BY DEF StackInv, StackTypes
<1>4. /\ procs' \subseteq Process
      /\ \A q \in procs' : \E o \in procs : q.prog = o.prog /\ q.run = o.run
  <2>1. CASE UNCHANGED procs
    BY <1>3, <2>1
  <2>2. CASE procs' = {IF q.run = run THEN [q EXCEPT !.st = "terminating"] ELSE q : q \in procs}
    <3> DEFINE f(q) == IF q.run = run THEN [q EXCEPT !.st = "terminating"] ELSE q
    <3>1. \A q \in procs : f(q) \in Process /\ f(q).prog = q.prog /\ f(q).run = q.run
      BY <1>3 DEF Process
    <3>2. procs' = {f(q) : q \in procs}
      BY <2>2
    <3> HIDE DEF f
    <3> QED
      BY <3>1, <3>2
  <2> QED
    BY <2>1, <2>2 DEF Interrupt
<1> QED
  BY <1>1, <1>2, <1>4, LeaveStack

\* SIGTERM changes what a child does, not whose it is.
LEMMA TermStack ==
  ASSUME StackInv, Term
  PROVE  StackInv'
<1> DEFINE alive == Own(Head(queue))
           f(q) == [q EXCEPT !.st = "terminating"]
<1>1. /\ phase = "term" /\ queue # << >> /\ queue' = Tail(queue)
      /\ procs' = (procs \ alive) \union {f(q) : q \in alive}
      /\ UNCHANGED <<phase, rest, processes, run, data, foreign, abandoned>>
  BY DEF Term, observers
<1>2. procs \subseteq Process /\ alive \subseteq procs /\ Tail(queue) \in Seq(Programs)
  BY <1>1, TailSet DEF StackInv, StackTypes, Own
<1>3. \A q \in alive : f(q) \in Process /\ f(q).prog = q.prog /\ f(q).run = q.run
  BY <1>2 DEF Process
<1> HIDE DEF alive, f
<1>4. /\ procs' \subseteq Process
      /\ \A q \in procs' : \E o \in procs : q.prog = o.prog /\ q.run = o.run
  BY <1>1, <1>2, <1>3
<1>5. StackTypes'
  BY <1>1, <1>2, <1>4 DEF StackInv, StackTypes
<1>6. NothingLeft' /\ HealthIsOwn' /\ ListedNext(rest)'
  BY <1>1 DEF StackInv, NothingLeft, HealthIsOwn
<1>7. ChildrenKnown'
  BY <1>1, <1>4 DEF StackInv, ChildrenKnown
<1> QED
  BY <1>5, <1>6, <1>7 DEF StackInv

LEMMA TermEndsStack ==
  ASSUME StackInv, TermEnds
  PROVE  StackInv'
<1>1. /\ phase = "term" /\ phase' = "reap" /\ queue' = Reverse(processes)
      /\ UNCHANGED <<rest, processes, run, procs, data, foreign, abandoned>>
  BY DEF TermEnds, observers
<1>2. /\ Reverse(processes) \in Seq(Programs)
      /\ \A x \in ToSet(processes) : x \in ToSet(Reverse(processes))
  BY ReverseFacts DEF StackInv, StackTypes
<1>3. StackTypes'
  BY <1>1, <1>2 DEF StackInv, StackTypes
<1>4. NothingLeft' /\ HealthIsOwn' /\ ListedNext(rest)'
  BY <1>1 DEF StackInv, NothingLeft, HealthIsOwn
<1>5. ChildrenKnown'
  BY <1>1, <1>2 DEF StackInv, ChildrenKnown
<1> QED
  BY <1>3, <1>4, <1>5 DEF StackInv

\* A child that has been waited for is gone.
LEMMA ReapStack ==
  ASSUME StackInv, Reap
  PROVE  StackInv'
<1>1. /\ phase = "reap" /\ queue # << >> /\ queue' = Tail(queue)
      /\ procs' = procs \ Own(Head(queue))
      /\ UNCHANGED <<phase, rest, processes, run, data, foreign, abandoned>>
  BY DEF Reap, observers
<1>2. /\ Tail(queue) \in Seq(Programs)
      /\ \A x \in ToSet(queue) : x = Head(queue) \/ x \in ToSet(Tail(queue))
  BY <1>1, TailSet DEF StackInv, StackTypes
<1>3. ASSUME NEW q \in procs', ~abandoned
      PROVE  q.run = run /\ q.prog \in ToSet(Tail(queue))
  <2>1. q \in procs /\ q.run = run /\ q.prog \in ToSet(queue)
    BY <1>1, <1>3 DEF StackInv, ChildrenKnown
  <2>2. q.prog # Head(queue)
    BY <1>1, <2>1 DEF Own
  <2> QED
    BY <1>2, <2>1, <2>2
<1>4. StackTypes'
  BY <1>1, <1>2 DEF StackInv, StackTypes
<1>5. NothingLeft' /\ HealthIsOwn' /\ ListedNext(rest)'
  BY <1>1 DEF StackInv, NothingLeft, HealthIsOwn
<1>6. ChildrenKnown'
  BY <1>1, <1>3 DEF StackInv, ChildrenKnown
<1> QED
  BY <1>4, <1>5, <1>6 DEF StackInv

LEMMA ExitStack ==
  ASSUME StackInv, Exit
  PROVE  StackInv'
<1>1. /\ phase = "reap" /\ queue = << >> /\ phase' = "off"
      /\ UNCHANGED <<rest, processes, queue, run, procs, data, foreign, abandoned>>
  BY DEF Exit, observers
<1>2. ToSet(<< >>) = {}
  BY DEF ToSet
<1>3. ~abandoned => procs = {}
  BY <1>1, <1>2 DEF StackInv, ChildrenKnown
<1>4. StackTypes'
  BY <1>1 DEF StackInv, StackTypes
<1>5. NothingLeft' /\ HealthIsOwn' /\ ListedNext(rest)'
  BY <1>1, <1>3 DEF StackInv, NothingLeft, HealthIsOwn
<1>6. ChildrenKnown'
  BY <1>1, <1>3 DEF ChildrenKnown
<1> QED
  BY <1>4, <1>5, <1>6 DEF StackInv

LEMMA AbandonStack ==
  ASSUME StackInv, Abandon
  PROVE  StackInv'
<1>1. /\ phase' = "off" /\ rest' = << >> /\ queue' = << >> /\ abandoned' = TRUE
      /\ UNCHANGED <<processes, run, procs, data, foreign>>
  BY DEF Abandon
<1>2. << >> \in Seq(TryStep) /\ << >> \in Seq(Programs) /\ ListedNext(<< >>)
  BY DEF ListedNext
<1>3. StackTypes'
  BY <1>1, <1>2 DEF StackInv, StackTypes
<1>4. NothingLeft' /\ HealthIsOwn' /\ ListedNext(rest)' /\ ChildrenKnown'
  BY <1>1, <1>2 DEF NothingLeft, HealthIsOwn, ChildrenKnown
<1> QED
  BY <1>3, <1>4 DEF StackInv

\* What a process does by itself: it changes or is gone, and stays whose it was.
LEMMA ProcessStep ==
  ASSUME StackInv, procs' \subseteq Process,
         \A q \in procs' : \E o \in procs : q.prog = o.prog /\ q.run = o.run,
         data' \in [ToSet(Services) -> {"none", "new", "old"}],
         UNCHANGED <<phase, rest, processes, queue, run, foreign, abandoned>>
  PROVE  StackInv'
<1>1. StackTypes'
  BY DEF StackInv, StackTypes
<1>2. NothingLeft' /\ HealthIsOwn' /\ ListedNext(rest)'
  BY DEF StackInv, NothingLeft, HealthIsOwn
<1>3. ChildrenKnown'
  BY DEF StackInv, ChildrenKnown
<1> QED
  BY <1>1, <1>2, <1>3 DEF StackInv

LEMMA ListenStack ==
  ASSUME StackInv, NEW q \in procs, Listen(q)
  PROVE  StackInv'
<1> DEFINE r == [q EXCEPT !.st = "serving",
                          !.old = q.prog \in DOMAIN data /\ data[q.prog] = "old"]
<1>1. /\ procs' = (procs \ {q}) \union (IF PortTaken(q.prog) THEN {} ELSE {r})
      /\ UNCHANGED <<phase, rest, processes, queue, run, data, foreign, abandoned>>
  BY DEF Listen, launcher, observers
<1>2. procs \subseteq Process /\ data \in [ToSet(Services) -> {"none", "new", "old"}]
  BY DEF StackInv, StackTypes
<1>3. r \in Process /\ r.prog = q.prog /\ r.run = q.run
  BY <1>2 DEF Process
<1> HIDE DEF r
<1>4. /\ procs' \subseteq Process
      /\ \A o \in procs' : \E x \in procs : o.prog = x.prog /\ o.run = x.run
  BY <1>1, <1>2, <1>3
<1> QED
  BY <1>1, <1>2, <1>4, ProcessStep

LEMMA SaveStack ==
  ASSUME StackInv, NEW q \in procs, Save(q)
  PROVE  StackInv'
<1>1. /\ data' = [data EXCEPT ![q.prog] = IF q.old THEN "old" ELSE "new"]
      /\ UNCHANGED <<phase, rest, processes, queue, run, procs, foreign, abandoned>>
  BY DEF Save, launcher, observers
<1>2. procs \subseteq Process /\ data \in [ToSet(Services) -> {"none", "new", "old"}]
  BY DEF StackInv, StackTypes
<1>3. data' \in [ToSet(Services) -> {"none", "new", "old"}]
  BY <1>1, <1>2
<1> QED
  BY <1>1, <1>2, <1>3, ProcessStep

LEMMA GoneStack ==
  ASSUME StackInv, NEW q \in procs, Stop(q) \/ Die(q)
  PROVE  StackInv'
<1>1. /\ procs' = procs \ {q}
      /\ UNCHANGED <<phase, rest, processes, queue, run, data, foreign, abandoned>>
  BY DEF Stop, Die, launcher, observers
<1>2. procs \subseteq Process /\ data \in [ToSet(Services) -> {"none", "new", "old"}]
  BY DEF StackInv, StackTypes
<1> QED
  BY <1>1, <1>2, ProcessStep

\* Every step.
LEMMA StackStep ==
  ASSUME StackInv, [StackNext]_stackVars
  PROVE  StackInv'
<1>1. CASE Main
  BY <1>1, MainStack
<1>2. CASE LauncherStep
  BY <1>2, PopenStack, PopenFailsStack, AppendProcessStack, HealthOkStack, HealthFailsStack,
     SeedStack, TermStack, TermEndsStack, ReapStack, ExitStack DEF LauncherStep
<1>3. CASE Interrupt
  BY <1>3, InterruptStack
<1>4. CASE Abandon
  BY <1>4, AbandonStack
<1>5. CASE \E q \in procs : Listen(q) \/ Save(q) \/ Stop(q) \/ Die(q)
  BY <1>5, ListenStack, SaveStack, GoneStack
<1>6. CASE UNCHANGED stackVars
  <2>1. UNCHANGED <<phase, rest, processes, queue, run, procs, data, foreign, abandoned>>
    BY <1>6 DEF stackVars, launcher, observers
  <2> QED
    BY <2>1 DEF StackInv, StackTypes, NothingLeft, HealthIsOwn, ListedNext, ChildrenKnown
<1> QED
  BY <1>1, <1>2, <1>3, <1>4, <1>5, <1>6 DEF StackNext

\* A launcher that nothing cuts short leaves no process behind, and its health
\* checks are answered by its own children, in every run of the script.
THEOREM StackInvariant == StackSpec => []StackInv
<1>1. StackInit => StackInv
  BY InitStack
<1>2. StackInv /\ [StackNext]_stackVars => StackInv'
  BY StackStep
<1> QED
  BY <1>1, <1>2, PTL DEF StackSpec

-----------------------------------------------------------------------------
(* ResetIsClean: only a process that outlives its run brings old data back. *)

\* Every process that exists and every file is of after the last reset.
LEMMA CleanStep ==
  ASSUME StackInv, ResetIsClean, [StackNext]_stackVars
  PROVE  ResetIsClean'
<1> SUFFICES ASSUME ~abandoned'
             PROVE  /\ \A q \in procs' : ~q.old
                    /\ \A p \in DOMAIN data' : data'[p] # "old"
  BY DEF ResetIsClean
<1>1. procs \subseteq Process /\ data \in [ToSet(Services) -> {"none", "new", "old"}]
      /\ abandoned \in BOOLEAN
  BY DEF StackInv, StackTypes
<1>2. ASSUME ~abandoned
      PROVE  /\ \A q \in procs : ~q.old
             /\ \A p \in DOMAIN data : data[p] # "old"
  BY <1>2 DEF ResetIsClean
<1>3. CASE Main
  <2>1. abandoned' = abandoned /\ phase = "off"
    BY <1>3 DEF Main
  <2>2. procs = {}
    BY <2>1 DEF StackInv, NothingLeft
  <2>3. CASE ResetState
    <3>1. procs' = {} /\ data' = [p \in ToSet(Services) |-> "none"]
      BY <2>2, <2>3 DEF ResetState
    <3> QED
      BY <3>1
  <2>4. CASE UNCHANGED <<data, procs>>
    BY <1>2, <2>1, <2>4
  <2> QED
    BY <1>3, <2>3, <2>4 DEF Main
<1>4. CASE Popen
  <2>1. /\ procs' = procs \union {[prog |-> Head(rest).prog, run |-> run, old |-> FALSE,
                                   st |-> "starting"]}
        /\ data' = data /\ abandoned' = abandoned
    BY <1>4 DEF Popen, observers
  <2> QED
    BY <1>2, <2>1
<1>5. CASE AppendProcess \/ HealthOk \/ TermEnds \/ Exit \/ HealthFails \/ Seed \/ PopenFails
  <2>1. procs' = procs /\ data' = data /\ abandoned' = abandoned
    BY <1>5 DEF AppendProcess, HealthOk, TermEnds, Exit, HealthFails, Seed, PopenFails, observers
  <2> QED
    BY <1>2, <2>1
<1>6. CASE Term
  <2> DEFINE alive == Own(Head(queue))
             f(q) == [q EXCEPT !.st = "terminating"]
  <2>1. /\ procs' = (procs \ alive) \union {f(q) : q \in alive}
        /\ data' = data /\ abandoned' = abandoned
    BY <1>6 DEF Term, observers
  <2>2. alive \subseteq procs
    BY DEF Own
  <2>3. \A q \in alive : f(q).old = q.old
    BY <1>1, <2>2 DEF Process
  <2> HIDE DEF alive, f
  <2> QED
    BY <1>2, <2>1, <2>2, <2>3
<1>7. CASE Reap
  <2>1. procs' \subseteq procs /\ data' = data /\ abandoned' = abandoned
    BY <1>7 DEF Reap, observers
  <2> QED
    BY <1>2, <2>1
<1>8. CASE Interrupt
  <2> DEFINE f(q) == IF q.run = run THEN [q EXCEPT !.st = "terminating"] ELSE q
  <2>1. ~abandoned /\ data' = data
    BY <1>1, <1>8 DEF Interrupt
  <2>2. \A q \in procs : f(q).old = q.old
    BY <1>1 DEF Process
  <2>3. procs' = procs \/ procs' = {f(q) : q \in procs}
    BY <1>8 DEF Interrupt
  <2> HIDE DEF f
  <2> QED
    BY <1>2, <2>1, <2>2, <2>3
<1>9. CASE Abandon
  BY <1>9 DEF Abandon
<1>10. ASSUME NEW q \in procs, Listen(q)
       PROVE  /\ \A o \in procs' : ~o.old
              /\ \A p \in DOMAIN data' : data'[p] # "old"
  <2> DEFINE r == [q EXCEPT !.st = "serving",
                            !.old = q.prog \in DOMAIN data /\ data[q.prog] = "old"]
  <2>1. /\ procs' = (procs \ {q}) \union (IF PortTaken(q.prog) THEN {} ELSE {r})
        /\ data' = data /\ abandoned' = abandoned
    BY <1>10 DEF Listen, observers
  <2>2. r.old = (q.prog \in DOMAIN data /\ data[q.prog] = "old")
    BY <1>1 DEF Process
  <2>3. ~r.old
    BY <1>2, <2>1, <2>2
  <2> HIDE DEF r
  <2> QED
    BY <1>2, <2>1, <2>3
<1>11. ASSUME NEW q \in procs, Save(q)
       PROVE  /\ \A o \in procs' : ~o.old
              /\ \A p \in DOMAIN data' : data'[p] # "old"
  <2>1. /\ data' = [data EXCEPT ![q.prog] = IF q.old THEN "old" ELSE "new"]
        /\ procs' = procs /\ abandoned' = abandoned
    BY <1>11 DEF Save, observers
  <2>2. ~q.old /\ \A p \in DOMAIN data : data[p] # "old"
    BY <1>2, <2>1
  <2> QED
    BY <1>1, <1>2, <2>1, <2>2
<1>12. ASSUME NEW q \in procs, Stop(q) \/ Die(q)
       PROVE  /\ \A o \in procs' : ~o.old
              /\ \A p \in DOMAIN data' : data'[p] # "old"
  <2>1. procs' \subseteq procs /\ data' = data /\ abandoned' = abandoned
    BY <1>12 DEF Stop, Die, observers
  <2> QED
    BY <1>2, <2>1
<1>13. CASE UNCHANGED stackVars
  <2>1. UNCHANGED <<procs, data, abandoned>>
    BY <1>13 DEF stackVars, observers
  <2> QED
    BY <1>2, <2>1
<1> QED
  BY <1>3, <1>4, <1>5, <1>6, <1>7, <1>8, <1>9, <1>10, <1>11, <1>12, <1>13
     DEF StackNext, LauncherStep

\* After --reset-state no service works with data from before it, in memory or on
\* disk, unless a run was cut short and its services are still there.
THEOREM ResetStaysClean == StackSpec => []ResetIsClean
<1>1. StackInit => StackInv /\ ResetIsClean
  BY InitStack
<1>2. (StackInv /\ ResetIsClean) /\ [StackNext]_stackVars => (StackInv /\ ResetIsClean)'
  BY StackStep, CleanStep
<1> QED
  BY <1>1, <1>2, PTL DEF StackSpec
=============================================================================
