------------------------------ MODULE VmeDeploy ------------------------------
(***************************************************************************)
(* The deployment test (citesting/vme/main.go): VMEDeploy replaces the     *)
(* appliance on a VM Essentials server by one that boots the ISO just      *)
(* built.  It deletes the instance and the image of the appliance's name,  *)
(* uploads the image, creates the instance and waits for it to come up.    *)
(*                                                                         *)
(* Whoever runs the test runs it again after it ended, however it ended:   *)
(* what one deployment leaves on the server is what the next one finds.    *)
(* Instances and images are known by the deployment that made them.        *)
(***************************************************************************)
EXTENDS Integers, FiniteSets

CONSTANTS
    MaxRuns,      \* bound: deployments one after the other
    Leftovers     \* bound: instances of the name before the first of them

\* What the server may do.  "refuse": a deletion has no effect.  "slow": a deletion
\* outlasts the sleep that follows it.  "fault": any other call fails.  "noPool",
\* "noNetwork": the cluster, the network is not among those it lists.  "stuck": an
\* instance never leaves "provisioning".  "broken": it may leave it without running.
ServerKinds == {"refuse", "slow", "fault", "noPool", "noNetwork", "stuck", "broken"}

ASSUME VmeDeployAssumption == MaxRuns \in Nat \ {0} /\ Leftovers \in Nat

VARIABLES
    pc,           \* the call of VMEDeploy that comes next, or how it ended
    run,          \* the deployment under way or ended last
    failed,       \* calls of this deployment that failed
    resourcePool, \* resourcePoolId # 0
    network,      \* networkId # 0
    instances,    \* the server: instances of the appliance's name
    images,       \* the server: virtual images of the name of the ISO
    server        \* what the server may do (ServerKinds)

deployVars == <<pc, run, failed, resourcePool, network>>
vars == <<deployVars, instances, images, server>>

Calls == {"login", "listInstances", "deleteInstance", "listImages", "deleteImage",
          "createImage", "upload", "pools", "group", "cloud", "networks",
          "createInstance", "poll", "report"}
Sleeps == {"sleepInstance", "sleepImage"}
Ends == {"done", "panic", "noFile"}

Statuses == {"provisioning", "running", "failed", "removing"}

\* Mutated form: the list knows of success alone.
RunningOnly == {"running"}

\* "failed" stands for warning, denied, cancelled and suspended too.
completedStatuses == {"running", "failed"}

Makers == (-Leftovers)..MaxRuns

TypeOK ==
    /\ pc \in Calls \cup Sleeps \cup Ends
    /\ run \in 1..MaxRuns
    /\ failed \subseteq Calls
    /\ resourcePool \in BOOLEAN /\ network \in BOOLEAN
    /\ instances \subseteq [by : Makers, image : Makers, status : Statuses]
    /\ images \subseteq [by : Makers, uploaded : BOOLEAN, removing : BOOLEAN]
    /\ server \subseteq ServerKinds

\* A server with some instances of the name, and the image of the last of them.
Init ==
    /\ pc = "login" /\ run = 1 /\ failed = {}
    /\ resourcePool = FALSE /\ network = FALSE
    /\ \E n \in 0..Leftovers :
          /\ instances = [by : (1 - n)..0, image : {0}, status : {"running"}]
          /\ images \in {{}, {[by |-> 0, uploaded |-> TRUE, removing |-> FALSE]}}
    /\ server \in SUBSET ServerKinds

This == {i \in instances : i.by = run}
-------------------------------------------------------------------------------
(* VMEDeploy *)

Goes(next) == pc' = next /\ UNCHANGED <<run, failed, resourcePool, network>>
OnServer == <<instances, images, server>>

\* The call fails.  Its error is logged, but its Result, or what it points to, is
\* not there, and the next use of it panics.
Fails(call) ==
    /\ pc = call /\ "fault" \in server
    /\ failed' = failed \cup {call}
    /\ pc' = "panic"
    /\ UNCHANGED <<run, resourcePool, network>>

\* The error of a login is printed, and the next call goes out without a session.
Login ==
    /\ pc = "login" /\ pc' = "listInstances"
    /\ \/ UNCHANGED failed
       \/ "fault" \in server /\ failed' = {"login"}
    /\ UNCHANGED <<run, resourcePool, network, OnServer>>

\* Only a single instance of the name is deleted.
ListInstances ==
    /\ pc = "listInstances"
    /\ \/ Goes(IF Cardinality(instances) = 1 THEN "deleteInstance" ELSE "listImages")
       \/ Fails("listInstances")
    /\ UNCHANGED OnServer

\* Whether the server agreed is not looked at.
DeleteInstance ==
    /\ pc = "deleteInstance" /\ Goes("sleepInstance")
    /\ \/ instances' = {[i EXCEPT !.status = "removing"] : i \in instances}
       \/ "refuse" \in server /\ UNCHANGED instances
    /\ UNCHANGED <<images, server>>

Removing == \/ \E i \in instances : i.status = "removing"
            \/ \E m \in images : m.removing

\* Mutated form: no sleep.
NoSleep ==
    /\ pc \in Sleeps
    /\ Goes(IF pc = "sleepInstance" THEN "listImages" ELSE "createImage")
    /\ UNCHANGED OnServer

\* time.Sleep: 30 seconds after the instance, 15 after the image.
Sleep ==
    /\ pc \in Sleeps
    /\ "slow" \in server \/ ~Removing
    /\ Goes(IF pc = "sleepInstance" THEN "listImages" ELSE "createImage")
    /\ UNCHANGED OnServer

ListImages ==
    /\ pc = "listImages"
    /\ \/ Goes(IF Cardinality(images) = 1 THEN "deleteImage" ELSE "createImage")
       \/ Fails("listImages")
    /\ UNCHANGED OnServer

DeleteImage ==
    /\ pc = "deleteImage" /\ Goes("sleepImage")
    /\ \/ images' = {[m EXCEPT !.removing = TRUE] : m \in images}
       \/ "refuse" \in server /\ UNCHANGED images
    /\ UNCHANGED <<instances, server>>

\* The record of the image, then the ISO from the working directory: without the
\* file log.Fatalf ends the test.  A call whose answer is lost may have had its effect.
CreateImage ==
    /\ pc = "createImage"
    /\ LET made == images \cup {[by |-> run, uploaded |-> FALSE, removing |-> FALSE]}
       IN  \/ (Goes("upload") \/ Goes("noFile")) /\ images' = made
           \/ Fails("createImage") /\ images' \in {images, made}
    /\ UNCHANGED <<instances, server>>

\* Nothing of the answer is used: a failure may go on without the content.
Upload ==
    /\ pc = "upload"
    /\ \/ /\ Goes("pools")
          /\ images' = {[m EXCEPT !.uploaded = @ \/ m.by = run] : m \in images}
       \/ Fails("upload") /\ UNCHANGED images
       \/ /\ "fault" \in server
          /\ pc' = "pools" /\ failed' = failed \cup {"upload"}
          /\ UNCHANGED <<run, resourcePool, network, images>>
    /\ UNCHANGED <<instances, server>>

\* A list without the cluster leaves the pool at 0; so may a failure.
FindPool ==
    /\ pc = "pools"
    /\ \/ /\ pc' = "group" /\ resourcePool' = ("noPool" \notin server)
          /\ UNCHANGED <<run, failed, network>>
       \/ Fails("pools")
       \/ /\ "fault" \in server
          /\ pc' = "group" /\ failed' = failed \cup {"pools"} /\ resourcePool' = FALSE
          /\ UNCHANGED <<run, network>>
    /\ UNCHANGED OnServer

\* FindGroupByName and FindCloudByName: one that is not found is a failure.
FindGroup == pc = "group" /\ (Goes("cloud") \/ Fails("group")) /\ UNCHANGED OnServer
FindCloud == pc = "cloud" /\ (Goes("networks") \/ Fails("cloud")) /\ UNCHANGED OnServer

\* Mutated form: the list of a call that failed is taken for an empty one.
FindNetworkLenient ==
    /\ pc = "networks"
    /\ pc' = "createInstance"
    /\ \/ network' = ("noNetwork" \notin server) /\ UNCHANGED failed
       \/ "fault" \in server /\ network' = FALSE /\ failed' = failed \cup {"networks"}
    /\ UNCHANGED <<run, resourcePool, OnServer>>

\* A list without the network leaves its id at 0, which is logged.
FindNetwork ==
    /\ pc = "networks"
    /\ \/ /\ pc' = "createInstance" /\ network' = ("noNetwork" \notin server)
          /\ UNCHANGED <<run, failed, resourcePool>>
       \/ Fails("networks")
    /\ UNCHANGED OnServer

\* imageId, and the rest of the payload; whether the server accepts a pool or a
\* network 0 is up to it.
CreateInstance ==
    /\ pc = "createInstance"
    /\ LET made == instances
                      \cup {[by |-> run, image |-> run, status |-> "provisioning"]}
       IN  \/ Goes("poll") /\ instances' = made
           \/ Fails("createInstance") /\ instances' \in {instances, made}
           \/ ~(resourcePool /\ network) /\ Goes("panic") /\ UNCHANGED instances
    /\ UNCHANGED <<images, server>>

\* stringInSlice(completedStatuses, currentStatus)
Completed(i) == i.status \in completedStatuses

\* Mutated form: the loop ends after its first round.
PollOnce == pc = "poll" /\ (Goes("report") \/ Fails("poll")) /\ UNCHANGED OnServer

\* The round of the polling loop that ends it.  Every other round sleeps for five
\* seconds and changes nothing.
Poll ==
    /\ pc = "poll"
    /\ \/ (\E i \in This : Completed(i)) /\ Goes("report")
       \/ Fails("poll")
    /\ UNCHANGED OnServer

\* "has become ready", also of an instance that failed, was denied or cancelled.
Report == pc = "report" /\ (Goes("done") \/ Fails("report")) /\ UNCHANGED OnServer

Deploy ==
    \/ Login \/ ListInstances \/ DeleteInstance \/ ListImages \/ DeleteImage \/ Sleep
    \/ CreateImage \/ Upload \/ FindPool \/ FindGroup \/ FindCloud \/ FindNetwork
    \/ CreateInstance \/ Poll \/ Report

\* main() again.
RunAgain ==
    /\ pc \in Ends /\ run < MaxRuns
    /\ pc' = "login" /\ run' = run + 1 /\ failed' = {}
    /\ resourcePool' = FALSE /\ network' = FALSE
    /\ UNCHANGED OnServer
-------------------------------------------------------------------------------
(* The server *)

Removed ==
    /\ \/ /\ instances' = {i \in instances : i.status # "removing"} /\ UNCHANGED images
       \/ /\ images' = {m \in images : ~m.removing} /\ UNCHANGED instances
    /\ UNCHANGED <<deployVars, server>>

\* Mutated form: a status of which the test has not heard.
ProvisionedUnknown ==
    /\ "stuck" \notin server
    /\ \E i \in instances, s \in {"running", "failed", "resizing"} :
          /\ i.status = "provisioning" /\ (s # "running" => "broken" \in server)
          /\ instances' = (instances \ {i}) \cup {[i EXCEPT !.status = s]}
    /\ UNCHANGED <<deployVars, images, server>>

Provisioned ==
    /\ "stuck" \notin server
    /\ \E i \in instances, s \in {"running", "failed"} :
          /\ i.status = "provisioning" /\ (s # "running" => "broken" \in server)
          /\ instances' = (instances \ {i}) \cup {[i EXCEPT !.status = s]}
    /\ UNCHANGED <<deployVars, images, server>>

Next ==
    \/ Login \/ ListInstances \/ DeleteInstance \/ ListImages \/ DeleteImage \/ Sleep
    \/ CreateImage \/ Upload \/ FindPool \/ FindGroup \/ FindCloud \/ FindNetwork
    \/ CreateInstance \/ Poll \/ Report
    \/ RunAgain \/ Removed \/ Provisioned

Spec == Init /\ [][Next]_vars

\* The test runs, and the server does what it accepted.
FairSpec ==
    Spec /\ WF_vars(Deploy) /\ WF_vars(Provisioned)
         /\ WF_vars(Removed /\ instances' # instances)
         /\ WF_vars(Removed /\ images' # images)
-------------------------------------------------------------------------------
(* Properties *)

\* As long as deletions work and are done when the sleep ends, there is one instance
\* and one image of the name at most, however often the test is run and wherever
\* its earlier runs broke off: what they left is found and replaced
\* (vme/main.go:69-81, :99-107).
ReplacesWhatItFinds ==
    server \cap {"refuse", "slow"} = {} /\ (\A i \in instances : i.by >= 0)
        => Cardinality(instances) <= 1 /\ Cardinality(images) <= 1

\* A deployment that ends without a failed call has an instance that is running, and
\* that boots the ISO of this very deployment, the old image still there or not
\* (vme/main.go:144-201, :316-332).  On a server that may fail to provision it the
\* test ends, and says "ready", of an instance in any status of the list.
DoneMeansDeployed ==
    pc = "done" /\ failed = {} =>
        \E i \in This, m \in images :
            /\ i.status = "running" \/ ("broken" \in server /\ Completed(i))
            /\ m.by = i.image /\ m.by = run /\ m.uploaded /\ ~m.removing

\* The error of a call is only logged, yet no instance is created after one: the next
\* use of the missing answer ends the test.  The exceptions are the login, the upload
\* and the list of clusters, which may go on, and the deletions, whose outcome is not
\* looked at (vme/main.go:67, :97, :144, :219, :247, :265).  Of the calls that do not
\* fail it says nothing: a network that is not on the list is logged as an error too,
\* and the instance is created all the same (:273-276).
FailsBeforeItCreates ==
    [][This = {} /\ This' # {} => failed \subseteq {"login", "upload", "pools"}]_vars

\* A deployment ends, whatever fails and however slow the server is, unless an
\* instance stays in a status that is not on the list (vme/main.go:320-330).
DeploymentEnds == pc = "login" ~> pc \in Ends \/ "stuck" \in server
==============================================================================
