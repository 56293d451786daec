--------------------------- MODULE VmeDeployProofs ---------------------------
(***************************************************************************)
(* Proofs about VmeDeploy, for any number of deployments, of instances     *)
(* that were there before, and every kind of server.                       *)
(*                                                                         *)
(* None of the properties is inductive: what is on the server when a       *)
(* deployment ends depends on what each call may rely on from those before *)
(* it, over the deployments that broke off too.  Orderly and Progress say  *)
(* it, call by call.                                                       *)
(***************************************************************************)
EXTENDS VmeDeploy, FiniteSetTheorems, TLAPS

\* The calls between the deletion of the old instance and the creation of the new.
Between == {"listImages", "deleteImage", "sleepImage", "createImage", "upload",
            "pools", "group", "cloud", "networks", "createInstance"}

\* The calls after the upload of the image.
Uploaded == {"pools", "group", "cloud", "networks", "createInstance", "poll",
             "report", "done"}

AtMostOne(S) == \A x, y \in S : x = y

\* Two instances were there before: none is ever deleted.
Crowded ==
    /\ \E i, j \in instances : i.by < 0 /\ i.by # j.by
    /\ \A i \in instances : i.status # "removing"
    /\ pc # "deleteInstance"

\* Each deletion clears what the creation after it makes anew.
Tidy ==
    /\ AtMostOne(instances) /\ AtMostOne(images)
    /\ pc \in Between => instances = {}
    /\ pc = "createImage" => images = {}
    /\ \A i \in instances : i.status = "removing" <=> pc = "sleepInstance"
    /\ \A m \in images : m.removing <=> pc = "sleepImage"

Orderly == server \cap {"refuse", "slow"} = {} => Crowded \/ Tidy

\* What this deployment has made by now, and which failures it may have gone on from.
Progress ==
    /\ \A i \in instances : i.by <= run /\ (i.by >= 1 => i.image = i.by)
    /\ pc \notin Ends => failed \subseteq {"login", "upload", "pools"}
    /\ pc = "upload" => \E m \in images : m.by = run /\ ~m.removing
    /\ pc \in Uploaded /\ failed = {} =>
          \E m \in images : m.by = run /\ m.uploaded /\ ~m.removing
    /\ pc \in {"poll", "report", "done"} => \E i \in This : i.status # "removing"
    /\ pc \in {"report", "done"} => \E i \in This : Completed(i)

\* Only a broken server leaves an instance that failed.
Provisions == "broken" \in server \/ \A i \in instances : i.status # "failed"
-------------------------------------------------------------------------------
(* Type correctness *)

\* The first run starts in its types.
LEMMA InitTyped == Init => TypeOK
<1> SUFFICES ASSUME Init
             PROVE  TypeOK
  OBVIOUS
<1>1. MaxRuns \in Nat \ {0} /\ Leftovers \in Nat
  BY VmeDeployAssumption
<1>2. PICK n \in 0..Leftovers :
         instances = [by : (1 - n)..0, image : {0}, status : {"running"}]
  BY DEF Init
<1>3. (1 - n)..0 \subseteq Makers /\ 0 \in Makers /\ "running" \in Statuses
  BY <1>1 DEF Makers, Statuses
<1>4. instances \subseteq [by : Makers, image : Makers, status : Statuses]
  BY <1>2, <1>3
<1>5. images \subseteq [by : Makers, uploaded : BOOLEAN, removing : BOOLEAN]
  <2>1. TRUE \in BOOLEAN /\ FALSE \in BOOLEAN
    OBVIOUS
  <2>2. [by |-> 0, uploaded |-> TRUE, removing |-> FALSE]
           \in [by : Makers, uploaded : BOOLEAN, removing : BOOLEAN]
    BY <1>3, <2>1
  <2>3. images \in {{}, {[by |-> 0, uploaded |-> TRUE, removing |-> FALSE]}}
    BY DEF Init
  <2> QED
    BY <2>2, <2>3
<1>6. resourcePool \in BOOLEAN /\ network \in BOOLEAN
  BY Zenon DEF Init
<1>7. pc \in Calls /\ run \in 1..MaxRuns /\ failed = {} /\ server \subseteq ServerKinds
  BY <1>1 DEF Init, Calls
<1> QED
  BY <1>4, <1>5, <1>6, <1>7 DEF TypeOK

\* What the calls change of the server keeps its type.
LEMMA ServerTyped ==
    ASSUME TypeOK
    PROVE  /\ \A i \in instances, s \in Statuses :
                 [i EXCEPT !.status = s] \in [by : Makers, image : Makers, status : Statuses]
           /\ \A m \in images, b \in BOOLEAN :
                 /\ [m EXCEPT !.removing = b] \in [by : Makers, uploaded : BOOLEAN, removing : BOOLEAN]
                 /\ [m EXCEPT !.uploaded = b] \in [by : Makers, uploaded : BOOLEAN, removing : BOOLEAN]
           /\ [by |-> run, image |-> run, status |-> "provisioning"]
                 \in [by : Makers, image : Makers, status : Statuses]
           /\ [by |-> run, uploaded |-> FALSE, removing |-> FALSE]
                 \in [by : Makers, uploaded : BOOLEAN, removing : BOOLEAN]
<1>1. run \in Makers
  BY VmeDeployAssumption DEF TypeOK, Makers
<1> QED
  BY <1>1 DEF TypeOK, Statuses

\* The calls change pc, failures and what was found as the types ask.
LEMMA CallsTyped ==
    ASSUME TypeOK, Deploy
    PROVE  /\ pc' \in Calls \cup Sleeps \cup Ends
           /\ failed' \subseteq Calls
           /\ resourcePool' \in BOOLEAN /\ network' \in BOOLEAN
           /\ UNCHANGED <<run, server>>
<1> USE DEF Deploy, OnServer, Goes, Fails, Login, ListInstances, DeleteInstance,
            ListImages, DeleteImage, Sleep, CreateImage, Upload, FindPool, FindGroup,
            FindCloud, FindNetwork, CreateInstance, Poll, Report
<1>1. pc' \in Calls \cup Sleeps \cup Ends
  BY DEF TypeOK, Calls, Sleeps, Ends
<1>2. failed' \subseteq Calls
  BY DEF TypeOK, Calls
<1>3. UNCHANGED <<run, server>>
  OBVIOUS
<1>4. network' \in BOOLEAN
  BY Zenon DEF TypeOK
<1>5. resourcePool' \in BOOLEAN
  BY Zenon DEF TypeOK
<1> QED
  BY <1>1, <1>2, <1>3, <1>4, <1>5

\* Who touches what is on the server.
LEMMA ServerTouched ==
    ASSUME Deploy
    PROVE  /\ DeleteInstance \/ CreateInstance \/ UNCHANGED instances
           /\ DeleteImage \/ CreateImage \/ Upload \/ UNCHANGED images
BY DEF Deploy, OnServer, Login, ListInstances, DeleteInstance, ListImages, DeleteImage,
       Sleep, CreateImage, Upload, FindPool, FindGroup, FindCloud, FindNetwork,
       CreateInstance, Poll, Report

\* Every step keeps the types.
LEMMA NextTyped == TypeOK /\ [Next]_vars => TypeOK'
<1> SUFFICES ASSUME TypeOK, [Next]_vars
             PROVE  TypeOK'
  OBVIOUS
<1> DEFINE Instance == [by : Makers, image : Makers, status : Statuses]
           Image    == [by : Makers, uploaded : BOOLEAN, removing : BOOLEAN]
<1> HIDE DEF Instance, Image
<1>1. instances \subseteq Instance /\ images \subseteq Image
  BY DEF TypeOK, Instance, Image
<1>2. /\ \A i \in instances, s \in Statuses : [i EXCEPT !.status = s] \in Instance
      /\ \A m \in images, b \in BOOLEAN :
            [m EXCEPT !.removing = b] \in Image /\ [m EXCEPT !.uploaded = b] \in Image
      /\ [by |-> run, image |-> run, status |-> "provisioning"] \in Instance
      /\ [by |-> run, uploaded |-> FALSE, removing |-> FALSE] \in Image
  BY ServerTyped DEF Instance, Image
<1>3. ASSUME Deploy PROVE TypeOK'
  <2>1. instances' \subseteq Instance
    <3>1. CASE DeleteInstance
      <4>1. \/ instances' = {[i EXCEPT !.status = "removing"] : i \in instances}
            \/ instances' = instances
        BY <3>1 DEF DeleteInstance
      <4>2. \A i \in instances : [i EXCEPT !.status = "removing"] \in Instance
        BY <1>2 DEF Statuses
      <4> QED
        BY <1>1, <4>1, <4>2
    <3>2. CASE CreateInstance
      BY <1>1, <1>2, <3>2 DEF CreateInstance
    <3> QED
      BY <1>1, <1>3, <3>1, <3>2, ServerTouched
  <2>2. images' \subseteq Image
    <3>1. CASE DeleteImage
      <4>1. images' = {[m EXCEPT !.removing = TRUE] : m \in images} \/ images' = images
        BY <3>1 DEF DeleteImage
      <4>2. \A m \in images : [m EXCEPT !.removing = TRUE] \in Image
        BY <1>2
      <4> QED
        BY <1>1, <4>1, <4>2
    <3>2. CASE CreateImage
      BY <1>1, <1>2, <3>2 DEF CreateImage
    <3>3. CASE Upload
      <4>1. \/ images' = {[m EXCEPT !.uploaded = m.uploaded \/ m.by = run] : m \in images}
            \/ images' = images
        BY <3>3 DEF Upload
      <4>2. \A m \in images : [m EXCEPT !.uploaded = m.uploaded \/ m.by = run] \in Image
        <5>1. \A m \in images : (m.uploaded \/ m.by = run) \in BOOLEAN
          OBVIOUS
        <5> QED
          BY <1>2, <5>1
      <4> QED
        BY <1>1, <4>1, <4>2
    <3> QED
      BY <1>1, <1>3, <3>1, <3>2, <3>3, ServerTouched
  <2> QED
    BY <1>3, <2>1, <2>2, CallsTyped DEF TypeOK, Instance, Image
<1>4. CASE RunAgain
  <2>1. run' \in 1..MaxRuns /\ pc' \in Calls
    BY <1>4, VmeDeployAssumption DEF RunAgain, TypeOK, Calls
  <2>2. resourcePool' \in BOOLEAN /\ network' \in BOOLEAN
    BY <1>4, Zenon DEF RunAgain
  <2> QED
    BY <1>4, <2>1, <2>2 DEF RunAgain, TypeOK, OnServer
<1>5. CASE Removed
  BY <1>5 DEF Removed, TypeOK, deployVars
<1>6. CASE Provisioned
  <2>1. instances' \subseteq Instance
    BY <1>1, <1>2, <1>6 DEF Provisioned, Statuses
  <2> QED
    BY <1>6, <2>1 DEF Provisioned, TypeOK, deployVars, Instance
<1>7. CASE UNCHANGED vars
  BY <1>7 DEF TypeOK, vars, deployVars
<1> QED
  BY <1>3, <1>4, <1>5, <1>6, <1>7 DEF Next, Deploy

\* Every variable stays in its type (TypeOK), whatever the server does.
THEOREM TypeCorrect == Spec => []TypeOK
BY InitTyped, NextTyped, PTL DEF Spec
-------------------------------------------------------------------------------
(* What a deployment has made *)

\* Records of the server are changed in one field at a time.
LEMMA OneField ==
    ASSUME TypeOK
    PROVE  /\ \A i \in instances, s \in Statuses :
                 LET j == [i EXCEPT !.status = s]
                 IN  j.by = i.by /\ j.image = i.image /\ j.status = s
           /\ \A m \in images, b \in BOOLEAN :
                 LET n == [m EXCEPT !.removing = b]
                 IN  n.by = m.by /\ n.uploaded = m.uploaded /\ (n.removing <=> b)
           /\ \A m \in images, b \in BOOLEAN :
                 LET n == [m EXCEPT !.uploaded = b]
                 IN  n.by = m.by /\ (n.uploaded <=> b) /\ (n.removing <=> m.removing)
BY DEF TypeOK

\* Deleting leaves every instance what it was, but for its status.
LEMMA RemovedFrom ==
    ASSUME TypeOK,
           \/ instances' = {[i EXCEPT !.status = "removing"] : i \in instances}
           \/ instances' = instances
    PROVE  \A i \in instances' : \E j \in instances : i.by = j.by /\ i.image = j.image
<1> SUFFICES ASSUME NEW i \in instances',
                    instances' = {[j EXCEPT !.status = "removing"] : j \in instances}
             PROVE  \E j \in instances : i.by = j.by /\ i.image = j.image
  OBVIOUS
<1>1. PICK j \in instances : i = [j EXCEPT !.status = "removing"]
  OBVIOUS
<1>2. "removing" \in Statuses
  BY DEF Statuses
<1> QED
  BY <1>1, <1>2, OneField

\* The first run has made nothing.
LEMMA InitProgress == Init => Progress
<1> SUFFICES ASSUME Init
             PROVE  Progress
  OBVIOUS
<1>1. PICK n \in 0..Leftovers :
         instances = [by : (1 - n)..0, image : {0}, status : {"running"}]
  BY DEF Init
<1>2. \A i \in instances : i.by <= run /\ ~(i.by >= 1)
  BY <1>1, VmeDeployAssumption DEF Init
<1> QED
  BY <1>2 DEF Init, Progress, Uploaded, Ends

\* The calls that only ask.
LEMMA AskingProgress ==
    ASSUME TypeOK, Progress,
           \/ Login \/ ListInstances \/ ListImages \/ Sleep \/ FindPool \/ FindGroup
           \/ FindCloud \/ FindNetwork \/ Poll \/ Report
    PROVE  Progress'
<1> USE DEF OnServer, Goes, Fails, Login, ListInstances, ListImages, Sleep, FindPool,
            FindGroup, FindCloud, FindNetwork, Poll, Report
<1>1. UNCHANGED <<instances, images, run>>
  OBVIOUS
<1>2. pc' \notin Ends => failed' \subseteq {"login", "upload", "pools"}
  BY DEF Progress, Ends, Sleeps
<1>3. pc' # "upload"
  BY DEF Sleeps
<1>4. pc' \in Uploaded /\ failed' = {} => pc \in Uploaded /\ failed = {}
  BY DEF Uploaded, Sleeps
<1>5. pc' \in {"poll", "report", "done"} => pc \in {"poll", "report"}
  BY DEF Sleeps
<1>6. pc' \in {"report", "done"} => \E i \in This : Completed(i)
  BY DEF Sleeps, Progress
<1> QED
  BY <1>1, <1>2, <1>3, <1>4, <1>5, <1>6 DEF Progress, This, Completed

\* The calls that change the server.
LEMMA ActingProgress ==
    ASSUME TypeOK, Progress,
           DeleteInstance \/ DeleteImage \/ CreateImage \/ Upload \/ CreateInstance
    PROVE  Progress'
<1> USE DEF Goes, Fails
<1>1. run \in 1..MaxRuns /\ run \in Int
  BY VmeDeployAssumption DEF TypeOK
<1>2. CASE DeleteInstance
  <2>1. pc' = "sleepInstance" /\ pc = "deleteInstance" /\ UNCHANGED <<run, failed, images>>
    BY <1>2 DEF DeleteInstance
  <2>2. \/ instances' = {[i EXCEPT !.status = "removing"] : i \in instances}
        \/ instances' = instances
    BY <1>2 DEF DeleteInstance
  <2>3. \A i \in instances' : i.by <= run /\ (i.by >= 1 => i.image = i.by)
    <3>1. \A i \in instances' : \E j \in instances : i.by = j.by /\ i.image = j.image
      BY <2>2, RemovedFrom
    <3> QED
      BY <2>1, <3>1 DEF Progress
  <2> QED
    BY <2>1, <2>3 DEF Progress, Ends, Uploaded
<1>3. CASE DeleteImage
  BY <1>3 DEF DeleteImage, Progress, Ends, Uploaded
<1>4. CASE CreateImage
  <2>1. pc = "createImage" /\ UNCHANGED <<run, instances>>
    BY <1>4 DEF CreateImage
  <2>2. pc' \in {"upload", "noFile", "panic"}
    BY <1>4 DEF CreateImage
  <2>3. pc' = "upload" =>
           /\ UNCHANGED failed
           /\ [by |-> run, uploaded |-> FALSE, removing |-> FALSE] \in images'
    BY <1>4 DEF CreateImage
  <2>4. pc' = "upload" => \E m \in images' : m.by = run /\ ~m.removing
    BY <2>3
  <2> QED
    BY <2>1, <2>2, <2>3, <2>4 DEF Progress, Ends, Uploaded
<1>5. CASE Upload
  <2>1. pc = "upload" /\ UNCHANGED <<run, instances>> /\ pc' \in {"pools", "panic"}
    BY <1>5 DEF Upload
  <2>2. pc' = "pools" => failed' \subseteq {"login", "upload", "pools"}
    BY <1>5 DEF Upload, Progress, Ends
  <2>3. ASSUME pc' = "pools", failed' = {}
        PROVE  \E m \in images' : m.by = run /\ m.uploaded /\ ~m.removing
    <3>1. images' = {[m EXCEPT !.uploaded = m.uploaded \/ m.by = run] : m \in images}
      BY <1>5, <2>3 DEF Upload
    <3>2. PICK m \in images : m.by = run /\ ~m.removing
      BY <2>1 DEF Progress
    <3>3. (m.uploaded \/ m.by = run) \in BOOLEAN
      OBVIOUS
    <3>4. [m EXCEPT !.uploaded = m.uploaded \/ m.by = run] \in images'
      BY <3>1
    <3> QED
      BY <3>2, <3>3, <3>4, OneField
  <2> QED
    BY <2>1, <2>2, <2>3 DEF Progress, Ends, Uploaded
<1>6. CASE CreateInstance
  <2> DEFINE new == [by |-> run, image |-> run, status |-> "provisioning"]
  <2>1. pc = "createInstance" /\ UNCHANGED <<run, images>> /\ pc' \in {"poll", "panic"}
    BY <1>6 DEF CreateInstance
  <2>2. instances' = instances \/ instances' = instances \cup {new}
    BY <1>6 DEF CreateInstance
  <2>3. \A i \in instances' : i.by <= run /\ (i.by >= 1 => i.image = i.by)
    BY <1>1, <2>2 DEF Progress
  <2>4. pc' = "poll" => UNCHANGED failed /\ new \in instances'
    BY <1>6 DEF CreateInstance
  <2>5. pc' = "poll" => \E i \in This' : i.status # "removing"
    BY <2>1, <2>4 DEF This
  <2> QED
    BY <2>1, <2>3, <2>4, <2>5 DEF Progress, Ends, Uploaded
<1> QED
  BY <1>2, <1>3, <1>4, <1>5, <1>6

\* What the server does by itself takes nothing away that this deployment has made.
LEMMA ServerProgress ==
    ASSUME TypeOK, Progress, Removed \/ Provisioned
    PROVE  Progress'
<1>1. UNCHANGED <<pc, run, failed>>
  BY DEF Removed, Provisioned, deployVars
<1>2. CASE Removed
  <2>1. instances' \subseteq instances /\ images' \subseteq images
    BY <1>2 DEF Removed
  <2>2. \A i \in instances : i.status # "removing" => i \in instances'
    BY <1>2 DEF Removed
  <2>3. \A m \in images : ~m.removing => m \in images'
    BY <1>2 DEF Removed
  <2>4. \A i \in This : i.status # "removing" => i \in This'
    BY <1>1, <2>2 DEF This
  <2>5. \A i \in This : Completed(i) => i \in This' /\ i.status # "removing"
    BY <2>4 DEF Completed, completedStatuses
  <2> QED
    BY <1>1, <2>1, <2>3, <2>4, <2>5 DEF Progress, Completed
<1>3. CASE Provisioned
  <2>1. PICK j \in instances, s \in {"running", "failed"} :
           /\ j.status = "provisioning"
           /\ instances' = (instances \ {j}) \cup {[j EXCEPT !.status = s]}
           /\ UNCHANGED images
    BY <1>3 DEF Provisioned
  <2> DEFINE k == [j EXCEPT !.status = s]
  <2>2. k.by = j.by /\ k.image = j.image /\ k.status = s /\ s \in Statuses
    BY OneField DEF Statuses
  <2> HIDE DEF k
  <2>3. instances' = (instances \ {j}) \cup {k}
    BY <2>1 DEF k
  <2>4. \A i \in instances' : i.by <= run /\ (i.by >= 1 => i.image = i.by)
    BY <2>2, <2>3 DEF Progress
  <2>5. \A i \in This : i.status # "removing" => \E l \in This' : l.status # "removing"
    BY <1>1, <2>2, <2>3 DEF This
  <2>6. \A i \in This : Completed(i) => i \in This'
    BY <1>1, <2>1, <2>3 DEF This, Completed, completedStatuses
  <2> QED
    BY <1>1, <2>1, <2>4, <2>5, <2>6 DEF Progress, Completed
<1> QED
  BY <1>2, <1>3

\* Every step keeps what a run has made where its step says.
LEMMA NextProgress == TypeOK /\ Progress /\ [Next]_vars => Progress'
<1> SUFFICES ASSUME TypeOK, Progress, [Next]_vars
             PROVE  Progress'
  OBVIOUS
<1>1. CASE RunAgain
  <2>1. \A i \in instances : i.by \in Int /\ run \in Int
    BY VmeDeployAssumption DEF TypeOK, Makers
  <2>2. /\ pc' = "login" /\ run' = run + 1 /\ failed' = {}
        /\ UNCHANGED <<instances, images>>
    BY <1>1 DEF RunAgain, OnServer
  <2>3. \A i \in instances' : i.by <= run' /\ (i.by >= 1 => i.image = i.by)
    BY <2>1, <2>2 DEF Progress
  <2> QED
    BY <2>2, <2>3 DEF Progress, Uploaded, Ends
<1>2. CASE UNCHANGED vars
  BY <1>2 DEF vars, deployVars, Progress, This, Completed
<1> QED
  BY <1>1, <1>2, AskingProgress, ActingProgress, ServerProgress DEF Next

\* What a run has made is where its step says, always.
LEMMA ProgressInvariant == Spec => [](TypeOK /\ Progress)
BY InitTyped, NextTyped, InitProgress, NextProgress, PTL DEF Spec

\* What the server may do stays what it is.
LEMMA ServerStays == [Next]_vars => UNCHANGED server
<1>1. CASE \/ Login \/ ListInstances \/ DeleteInstance \/ ListImages \/ DeleteImage
           \/ Sleep \/ CreateImage \/ Upload
  BY <1>1 DEF Login, ListInstances, DeleteInstance, ListImages, DeleteImage, Sleep,
              CreateImage, Upload, OnServer
<1>2. CASE \/ FindPool \/ FindGroup \/ FindCloud \/ FindNetwork \/ CreateInstance
           \/ Poll \/ Report \/ RunAgain \/ Removed \/ Provisioned
  BY <1>2 DEF FindPool, FindGroup, FindCloud, FindNetwork, CreateInstance, Poll, Report,
              RunAgain, Removed, Provisioned, OnServer
<1>3. CASE UNCHANGED vars
  BY <1>3 DEF vars
<1> QED
  BY <1>1, <1>2, <1>3 DEF Next

\* An instance fails on a broken server alone.
LEMMA NextProvisions == TypeOK /\ Provisions /\ [Next]_vars => Provisions'
<1> SUFFICES ASSUME TypeOK, Provisions, [Next]_vars, "broken" \notin server
             PROVE  Provisions'
  BY ServerStays DEF Provisions
<1>0. \A i \in instances : i.status # "failed"
  BY DEF Provisions
<1>1. CASE Provisioned
  <2>1. PICK j \in instances :
           instances' = (instances \ {j}) \cup {[j EXCEPT !.status = "running"]}
    BY <1>1 DEF Provisioned
  <2>2. [j EXCEPT !.status = "running"].status = "running"
    BY OneField DEF Statuses
  <2> QED
    BY <1>0, <2>1, <2>2 DEF Provisions
<1>2. CASE DeleteInstance
  <2>1. "removing" \in Statuses
    BY DEF Statuses
  <2>2. \A i \in instances : [i EXCEPT !.status = "removing"].status = "removing"
    BY <2>1, OneField
  <2> QED
    BY <1>0, <1>2, <2>2 DEF DeleteInstance, Provisions
<1>3. CASE CreateInstance
  BY <1>0, <1>3 DEF CreateInstance, Provisions
<1>4. CASE \/ Login \/ ListInstances \/ ListImages \/ DeleteImage \/ Sleep \/ CreateImage
           \/ Upload \/ FindPool \/ FindGroup \/ FindCloud \/ FindNetwork \/ Poll \/ Report
           \/ RunAgain \/ Removed \/ UNCHANGED vars
  <2>1. instances' \subseteq instances
    BY <1>4
       DEF Login, ListInstances, ListImages, DeleteImage, Sleep, CreateImage, Upload,
           FindPool, FindGroup, FindCloud, FindNetwork, Poll, Report, RunAgain, Removed,
           OnServer, vars
  <2> QED
    BY <1>0, <2>1 DEF Provisions
<1> QED
  BY <1>1, <1>2, <1>3, <1>4 DEF Next

\* Unless the server may leave it without running, every instance comes up.
LEMMA ProvisionsInvariant == Spec => [](TypeOK /\ Provisions)
<1>1. Init => Provisions
  BY DEF Init, Provisions
<1> QED
  BY <1>1, InitTyped, NextTyped, NextProvisions, PTL DEF Spec

\* A deployment that ends without a failed call has an instance that boots the ISO of
\* this very deployment, whatever was on the server before; it is running unless the
\* server may fail to provision it (DoneMeansDeployed).
THEOREM DoneIsDeployed == Spec => []DoneMeansDeployed
<1>1. TypeOK /\ Progress /\ Provisions => DoneMeansDeployed
  <2> SUFFICES ASSUME TypeOK, Progress, Provisions, pc = "done", failed = {}
               PROVE  \E i \in This, m \in images :
                         /\ i.status = "running" \/ ("broken" \in server /\ Completed(i))
                         /\ m.by = i.image /\ m.by = run /\ m.uploaded /\ ~m.removing
    BY DEF DoneMeansDeployed
  <2>1. PICK i \in This : Completed(i)
    BY DEF Progress
  <2>2. PICK m \in images : m.by = run /\ m.uploaded /\ ~m.removing
    BY DEF Progress, Uploaded
  <2>3. i \in instances /\ i.by = run /\ run >= 1
    BY <2>1, VmeDeployAssumption DEF This, TypeOK
  <2>4. i.image = run
    BY <2>3 DEF Progress
  <2>5. i.status = "running" \/ "broken" \in server
    BY <2>1, <2>3 DEF Provisions, Completed, completedStatuses
  <2> QED
    BY <2>1, <2>2, <2>4, <2>5
<1> QED
  BY <1>1, ProgressInvariant, ProvisionsInvariant, PTL

\* No instance is created after a failed call, but for those that go on
\* (FailsBeforeItCreates).
THEOREM FailureCreatesNothing == Spec => FailsBeforeItCreates
<1>1. TypeOK /\ Progress /\ [Next]_vars
         => [This = {} /\ This' # {} => failed \subseteq {"login", "upload", "pools"}]_vars
  <2> SUFFICES ASSUME TypeOK, Progress, Next, This = {}, This' # {}
               PROVE  failed \subseteq {"login", "upload", "pools"}
    BY DEF vars
  <2>1. CASE CreateInstance
    BY <2>1 DEF CreateInstance, Progress, Ends, Goes, Fails
  <2>2. CASE RunAgain
    <3>1. \A i \in instances : i.by <= run /\ i.by \in Int /\ run \in Int
      BY VmeDeployAssumption DEF Progress, TypeOK, Makers
    <3> QED
      BY <2>2, <3>1 DEF RunAgain, OnServer, This
  <2>3. CASE DeleteInstance
    <3>1. UNCHANGED run
      BY <2>3 DEF DeleteInstance, Goes
    <3>2. \/ instances' = {[i EXCEPT !.status = "removing"] : i \in instances}
          \/ instances' = instances
      BY <2>3 DEF DeleteInstance
    <3> QED
      BY <3>1, <3>2, RemovedFrom DEF This
  <2>4. CASE Removed
    BY <2>4 DEF Removed, deployVars, This
  <2>5. CASE Provisioned
    <3>1. UNCHANGED run
      BY <2>5 DEF Provisioned, deployVars
    <3>2. PICK j \in instances, s \in {"running", "failed"} :
             instances' = (instances \ {j}) \cup {[j EXCEPT !.status = s]}
      BY <2>5 DEF Provisioned
    <3>3. [j EXCEPT !.status = s].by = j.by
      BY OneField DEF Statuses
    <3> QED
      BY <3>1, <3>2, <3>3 DEF This
  <2>6. CASE Deploy /\ ~CreateInstance /\ ~DeleteInstance
    BY <2>6, ServerTouched, CallsTyped DEF This
  <2> QED
    BY <2>1, <2>2, <2>3, <2>4, <2>5, <2>6 DEF Next, Deploy
<1> QED
  BY <1>1, ProgressInvariant, PTL DEF Spec, FailsBeforeItCreates
-------------------------------------------------------------------------------
(* What is on the server *)

\* At most one is none or one.
LEMMA AtMostOneCounted ==
    ASSUME NEW S, AtMostOne(S)
    PROVE  Cardinality(S) <= 1 /\ (S = {} \/ Cardinality(S) = 1)
<1>1. CASE S = {}
  BY <1>1, FS_EmptySet
<1>2. CASE S # {}
  <2>1. PICK x \in S : S = {x}
    BY <1>2 DEF AtMostOne
  <2>2. Cardinality({x}) = 1
    BY FS_Singleton
  <2> QED
    BY <2>1, <2>2
<1> QED
  BY <1>1, <1>2

\* What a function makes of a finite set is finite.
LEMMA ImageFinite ==
    ASSUME NEW S, IsFiniteSet(S), NEW T, NEW f \in [S -> T]
    PROVE  IsFiniteSet({f[x] : x \in S})
<1> DEFINE R == {f[x] : x \in S}
<1>1. f \in [S -> R]
  OBVIOUS
<1>2. f \in Surjection(S, R)
  BY <1>1 DEF Surjection
<1> QED
  BY <1>2, FS_Surjection

\* The server starts with finitely many instances.
LEMMA InitFinite == Init => IsFiniteSet(instances)
<1> SUFFICES ASSUME Init
             PROVE  IsFiniteSet(instances)
  OBVIOUS
<1>1. PICK n \in 0..Leftovers :
         instances = [by : (1 - n)..0, image : {0}, status : {"running"}]
  BY DEF Init
<1> DEFINE D == (1 - n)..0
           f == [b \in D |-> [by |-> b, image |-> 0, status |-> "running"]]
<1>2. IsFiniteSet(D)
  BY FS_Interval, VmeDeployAssumption
<1>3. /\ \A b \in D : f[b] \in instances
      /\ \A i \in instances : i.by \in D /\ i = [by |-> i.by, image |-> 0, status |-> "running"]
  BY <1>1
<1>4. \A i \in instances : i = f[i.by]
  BY <1>3
<1>5. f \in [D -> instances]
  BY <1>3
<1> HIDE DEF f, D
<1>6. instances = {f[b] : b \in D}
  BY <1>3, <1>4
<1>7. IsFiniteSet({f[b] : b \in D})
  BY <1>2, <1>5, ImageFinite
<1> QED
  BY <1>6, <1>7

\* Every step keeps them finitely many.
LEMMA NextFinite == TypeOK /\ IsFiniteSet(instances) /\ [Next]_vars => IsFiniteSet(instances')
<1> SUFFICES ASSUME TypeOK, IsFiniteSet(instances), [Next]_vars
             PROVE  IsFiniteSet(instances')
  OBVIOUS
<1>1. CASE DeleteInstance
  <2> DEFINE f == [i \in instances |-> [i EXCEPT !.status = "removing"]]
             T == {[i EXCEPT !.status = "removing"] : i \in instances}
  <2>1. instances' = T \/ instances' = instances
    BY <1>1 DEF DeleteInstance
  <2>2. f \in [instances -> T] /\ T = {f[i] : i \in instances}
    OBVIOUS
  <2> HIDE DEF f, T
  <2> QED
    BY <2>1, <2>2, ImageFinite
<1>2. CASE CreateInstance
  BY <1>2, FS_AddElement DEF CreateInstance
<1>3. CASE Removed
  <2>1. instances' \in SUBSET instances
    BY <1>3 DEF Removed
  <2> QED
    BY <2>1, FS_Subset
<1>4. CASE Provisioned
  <2>1. PICK i \in instances, s \in {"running", "failed"} :
           instances' = (instances \ {i}) \cup {[i EXCEPT !.status = s]}
    BY <1>4 DEF Provisioned
  <2>2. IsFiniteSet(instances \ {i})
    BY FS_RemoveElement
  <2> QED
    BY <2>1, <2>2, FS_AddElement
<1>5. CASE RunAgain \/ UNCHANGED vars
  BY <1>5 DEF RunAgain, OnServer, vars
<1>6. CASE Deploy /\ ~DeleteInstance /\ ~CreateInstance
  BY <1>6, ServerTouched
<1> QED
  BY <1>1, <1>2, <1>3, <1>4, <1>5, <1>6 DEF Next, Deploy

\* What the first run finds, it has to clear away.
LEMMA InitOrderly == Init => Orderly
<1> SUFFICES ASSUME Init
             PROVE  Crowded \/ Tidy
  BY DEF Orderly
<1>1. PICK n \in 0..Leftovers :
         instances = [by : (1 - n)..0, image : {0}, status : {"running"}]
  BY DEF Init
<1>2. \A i \in instances : i.status = "running"
  BY <1>1
<1>3. pc = "login"
  BY DEF Init
<1>4. CASE n >= 2
  <2> DEFINE rec(b) == [by |-> b, image |-> 0, status |-> "running"]
  <2>1. rec(-1) \in instances /\ rec(0) \in instances
    BY <1>1, <1>4, VmeDeployAssumption
  <2>2. rec(-1).by = -1 /\ rec(0).by = 0
    OBVIOUS
  <2> HIDE DEF rec
  <2> QED
    BY <1>2, <1>3, <2>1, <2>2 DEF Crowded
<1>5. CASE n <= 1
  <2>1. \A i, j \in instances : i = j
    <3>1. \A b \in (1 - n)..0 : b = 0
      BY <1>5, VmeDeployAssumption
    <3> QED
      BY <1>1, <3>1
  <2>2. images \in {{}, {[by |-> 0, uploaded |-> TRUE, removing |-> FALSE]}}
    BY DEF Init
  <2> DEFINE image == [by |-> 0, uploaded |-> TRUE, removing |-> FALSE]
  <2>3. ~image.removing
    OBVIOUS
  <2> HIDE DEF image
  <2>4. images = {} \/ images = {image}
    BY <2>2 DEF image
  <2>5. \A m, l \in images : m = l /\ ~m.removing
    BY <2>3, <2>4
  <2> QED
    BY <1>2, <1>3, <2>1, <2>5 DEF Tidy, AtMostOne, Between
<1> QED
  BY <1>4, <1>5, VmeDeployAssumption

\* Among several instances, none is deleted.
LEMMA CrowdedStays ==
    ASSUME TypeOK, IsFiniteSet(instances), Crowded, [Next]_vars
    PROVE  Crowded'
<1>1. PICK i \in instances, j \in instances : i.by < 0 /\ i.by # j.by
  BY DEF Crowded
<1>2. \A l \in instances : l.status # "removing"
  BY DEF Crowded
<1>3. Cardinality(instances) # 1
  BY <1>1, FS_Singleton
<1>4. ASSUME instances \subseteq instances', pc' # "deleteInstance",
             \A l \in instances' : l.status # "removing"
      PROVE  Crowded'
  BY <1>1, <1>4 DEF Crowded
<1>5. CASE DeleteInstance
  BY <1>5 DEF DeleteInstance, Crowded
<1>6. CASE CreateInstance
  BY <1>2, <1>4, <1>6 DEF CreateInstance, Goes, Fails
<1>7. CASE Removed
  BY <1>2, <1>4, <1>7 DEF Removed, deployVars, Crowded
<1>8. CASE Provisioned
  <2>1. PICK k \in instances, s \in {"running", "failed"} :
           instances' = (instances \ {k}) \cup {[k EXCEPT !.status = s]}
    BY <1>8 DEF Provisioned
  <2> DEFINE l == [k EXCEPT !.status = s]
  <2>2. l.by = k.by /\ l.status = s
    BY OneField DEF Statuses
  <2> HIDE DEF l
  <2>3. instances' = (instances \ {k}) \cup {l}
    BY <2>1 DEF l
  <2>4. /\ \A x \in instances : \E y \in instances' : y.by = x.by
        /\ \A y \in instances' : y.status # "removing"
    BY <1>2, <2>2, <2>3
  <2>5. UNCHANGED pc
    BY <1>8 DEF Provisioned, deployVars
  <2> QED
    BY <1>1, <2>4, <2>5 DEF Crowded
<1>9. CASE RunAgain \/ UNCHANGED vars
  BY <1>2, <1>4, <1>9 DEF RunAgain, OnServer, vars, deployVars, Crowded
<1>10. CASE Deploy /\ ~DeleteInstance /\ ~CreateInstance
  <2>1. UNCHANGED instances
    BY <1>10, ServerTouched
  <2>2. pc' # "deleteInstance"
    BY <1>3, <1>10
       DEF Deploy, Goes, Fails, Login, ListInstances, ListImages, DeleteImage, Sleep,
           CreateImage, Upload, FindPool, FindGroup, FindCloud, FindNetwork, Poll, Report
  <2> QED
    BY <1>2, <1>4, <2>1, <2>2
<1> QED
  BY <1>5, <1>6, <1>7, <1>8, <1>9, <1>10 DEF Next, Deploy

\* What the deletions clear is cleared when the sleep ends, and made anew once.
LEMMA TidyStays ==
    ASSUME TypeOK, server \cap {"refuse", "slow"} = {}, Tidy, [Next]_vars
    PROVE  Tidy'
<1>1. "refuse" \notin server /\ "slow" \notin server
  OBVIOUS
<1>2. ASSUME UNCHANGED <<instances, images>>,
             pc \notin Sleeps, pc' \notin Sleeps, pc' # "createImage",
             pc' \in Between => pc \in Between
      PROVE  Tidy'
  BY <1>2 DEF Tidy, Sleeps
<1>3. CASE Login \/ Poll \/ Report \/ FindPool \/ FindGroup \/ FindCloud \/ FindNetwork
           \/ RunAgain
  BY <1>2, <1>3 DEF OnServer, Goes, Fails, Login, Poll, Report, FindPool, FindGroup,
                    FindCloud, FindNetwork, RunAgain, Sleeps, Between, Ends
<1>4. CASE ListInstances
  <2>1. pc = "listInstances" /\ UNCHANGED <<instances, images>>
    BY <1>4 DEF ListInstances, OnServer
  <2>2. \/ pc' = "listImages" /\ Cardinality(instances) # 1
        \/ pc' \in {"deleteInstance", "panic"}
    BY <1>4 DEF ListInstances, Goes, Fails
  <2>3. Cardinality(instances) # 1 => instances = {}
    BY AtMostOneCounted DEF Tidy
  <2> QED
    BY <2>1, <2>2, <2>3 DEF Tidy, Between
<1>5. CASE ListImages
  <2>1. pc = "listImages" /\ UNCHANGED <<instances, images>>
    BY <1>5 DEF ListImages, OnServer
  <2>2. \/ pc' = "createImage" /\ Cardinality(images) # 1
        \/ pc' \in {"deleteImage", "panic"}
    BY <1>5 DEF ListImages, Goes, Fails
  <2>3. Cardinality(images) # 1 => images = {}
    BY AtMostOneCounted DEF Tidy
  <2> QED
    BY <2>1, <2>2, <2>3 DEF Tidy, Between
<1>6. CASE DeleteInstance
  <2>1. pc = "deleteInstance" /\ pc' = "sleepInstance" /\ UNCHANGED images
    BY <1>6 DEF DeleteInstance, Goes
  <2>2. instances' = {[i EXCEPT !.status = "removing"] : i \in instances}
    BY <1>1, <1>6 DEF DeleteInstance
  <2>3. \A i \in instances' : i.status = "removing"
    <3>1. \A i \in instances : [i EXCEPT !.status = "removing"].status = "removing"
      BY OneField DEF Statuses
    <3> QED
      BY <2>2, <3>1
  <2>4. AtMostOne(instances')
    BY <2>2 DEF Tidy, AtMostOne
  <2> QED
    BY <2>1, <2>3, <2>4 DEF Tidy, Between
<1>7. CASE DeleteImage
  <2>1. pc = "deleteImage" /\ pc' = "sleepImage" /\ UNCHANGED instances
    BY <1>7 DEF DeleteImage, Goes
  <2>2. images' = {[m EXCEPT !.removing = TRUE] : m \in images}
    BY <1>1, <1>7 DEF DeleteImage
  <2>3. \A m \in images' : m.removing
    <3>1. \A m \in images : [m EXCEPT !.removing = TRUE].removing
      BY OneField
    <3> QED
      BY <2>2, <3>1
  <2>4. AtMostOne(images')
    BY <2>2 DEF Tidy, AtMostOne
  <2> QED
    BY <2>1, <2>3, <2>4 DEF Tidy, Between
<1>8. CASE Sleep
  <2>1. /\ \A i \in instances : i.status # "removing"
        /\ \A m \in images : ~m.removing
        /\ UNCHANGED <<instances, images>>
    BY <1>1, <1>8 DEF Sleep, Removing, OnServer
  <2>2. CASE pc = "sleepInstance"
    BY <1>8, <2>1, <2>2 DEF Sleep, Goes, Tidy
  <2>3. CASE pc = "sleepImage"
    BY <1>8, <2>1, <2>3 DEF Sleep, Goes, Tidy, Between
  <2> QED
    BY <1>8, <2>2, <2>3 DEF Sleep, Sleeps
<1>9. CASE CreateImage
  <2> DEFINE new == [by |-> run, uploaded |-> FALSE, removing |-> FALSE]
  <2>1. ~new.removing
    OBVIOUS
  <2>2. pc = "createImage" /\ images = {} /\ instances = {} /\ UNCHANGED instances
    BY <1>9 DEF CreateImage, Tidy, Between
  <2>3. /\ pc' \in {"upload", "noFile", "panic"}
        /\ images' \in {images, images \cup {new}}
    BY <1>9 DEF CreateImage, Goes, Fails
  <2> HIDE DEF new
  <2> QED
    BY <2>1, <2>2, <2>3 DEF Tidy, AtMostOne
<1>10. CASE Upload
  <2>1. pc = "upload" /\ pc' \in {"pools", "panic"} /\ UNCHANGED instances
    BY <1>10 DEF Upload, Goes, Fails
  <2>2. \/ images' = {[m EXCEPT !.uploaded = m.uploaded \/ m.by = run] : m \in images}
        \/ images' = images
    BY <1>10 DEF Upload
  <2>3. \A m \in images' : ~m.removing
    <3>1. \A m \in images : ~[m EXCEPT !.uploaded = m.uploaded \/ m.by = run].removing
      <4>1. \A m \in images : (m.uploaded \/ m.by = run) \in BOOLEAN /\ ~m.removing
        BY <2>1 DEF Tidy
      <4> QED
        BY <4>1, OneField
    <3>2. CASE images' = images
      BY <2>1, <3>2 DEF Tidy
    <3>3. ASSUME images' = {[m EXCEPT !.uploaded = m.uploaded \/ m.by = run] : m \in images},
                 NEW n \in images'
          PROVE  ~n.removing
      <4>1. PICK m \in images : n = [m EXCEPT !.uploaded = m.uploaded \/ m.by = run]
        BY <3>3
      <4> QED
        BY <3>1, <4>1
    <3> QED
      BY <2>2, <3>2, <3>3
  <2>4. AtMostOne(images')
    BY <2>2 DEF Tidy, AtMostOne
  <2> QED
    BY <2>1, <2>3, <2>4 DEF Tidy, Between
<1>11. CASE CreateInstance
  <2> DEFINE new == [by |-> run, image |-> run, status |-> "provisioning"]
  <2>1. new.status # "removing"
    OBVIOUS
  <2>2. pc = "createInstance" /\ instances = {} /\ UNCHANGED images
    BY <1>11 DEF CreateInstance, Tidy, Between
  <2>3. /\ pc' \in {"poll", "panic"}
        /\ instances' \in {instances, instances \cup {new}}
    BY <1>11 DEF CreateInstance, Goes, Fails
  <2> HIDE DEF new
  <2> QED
    BY <2>1, <2>2, <2>3 DEF Tidy, AtMostOne, Between
<1>12. CASE Removed
  <2>1. instances' \subseteq instances /\ images' \subseteq images /\ UNCHANGED pc
    BY <1>12 DEF Removed, deployVars
  <2> QED
    BY <2>1 DEF Tidy, AtMostOne
<1>13. CASE Provisioned
  <2>1. PICK i \in instances, s \in {"running", "failed"} :
           /\ i.status = "provisioning"
           /\ instances' = (instances \ {i}) \cup {[i EXCEPT !.status = s]}
    BY <1>13 DEF Provisioned
  <2> DEFINE j == [i EXCEPT !.status = s]
  <2>2. j.status = s
    BY OneField DEF Statuses
  <2> HIDE DEF j
  <2>3. instances' = {j}
    BY <2>1 DEF j, Tidy, AtMostOne
  <2>4. UNCHANGED <<pc, images>>
    BY <1>13 DEF Provisioned, deployVars
  <2> QED
    BY <2>1, <2>2, <2>3, <2>4 DEF Tidy, AtMostOne
<1>14. CASE UNCHANGED vars
  BY <1>14 DEF vars, deployVars, Tidy
<1> QED
  BY <1>3, <1>4, <1>5, <1>6, <1>7, <1>8, <1>9, <1>10, <1>11, <1>12, <1>13, <1>14 DEF Next

\* Every step keeps the server orderly.
LEMMA NextOrderly ==
    TypeOK /\ IsFiniteSet(instances) /\ Orderly /\ [Next]_vars => Orderly'
<1> SUFFICES ASSUME TypeOK, IsFiniteSet(instances), Orderly, [Next]_vars,
                    server' \cap {"refuse", "slow"} = {}
             PROVE  Crowded' \/ Tidy'
  BY DEF Orderly
<1>1. UNCHANGED server
  BY CallsTyped DEF Next, Deploy, RunAgain, OnServer, Removed, Provisioned, vars
<1>2. Crowded \/ Tidy
  BY <1>1 DEF Orderly
<1> QED
  BY <1>1, <1>2, CrowdedStays, TidyStays

\* Where deletions work in time, one instance and one image of the name at most are on
\* the server (ReplacesWhatItFinds), however often the test is run and wherever its
\* earlier runs broke off.
THEOREM ReplacesItsLeftovers == Spec => []ReplacesWhatItFinds
<1>1. TypeOK /\ Orderly => ReplacesWhatItFinds
  <2> SUFFICES ASSUME TypeOK, Orderly, server \cap {"refuse", "slow"} = {},
                      \A i \in instances : i.by >= 0
               PROVE  Cardinality(instances) <= 1 /\ Cardinality(images) <= 1
    BY DEF ReplacesWhatItFinds
  <2>1. ~Crowded
    <3>1. \A i \in instances : i.by \in Int
      BY VmeDeployAssumption DEF TypeOK, Makers
    <3> QED
      BY <3>1 DEF Crowded
  <2> QED
    BY <2>1, AtMostOneCounted DEF Orderly, Tidy
<1>2. TypeOK /\ IsFiniteSet(instances) /\ Orderly /\ [Next]_vars
         => (TypeOK /\ IsFiniteSet(instances) /\ Orderly)'
  BY NextTyped, NextFinite, NextOrderly
<1> QED
  BY <1>1, <1>2, InitTyped, InitFinite, InitOrderly, PTL DEF Spec
===============================================================================
