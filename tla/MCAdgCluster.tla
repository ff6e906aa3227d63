---------------------------- MODULE MCAdgCluster ----------------------------
\* The steps of cluster_config/steps.yaml.tpl, for TLC.
EXTENDS AdgCluster

\* Names update_dynamo.sh derives from the step files.
MCStepName ==
  <<"courtesy-flush", "equalities-managed", "spark-submit",
    "send_notification", "flush-pushgateway">>

\* Names the steps compare step_to_start_from.txt to.
MCResumeName == [MCStepName EXCEPT ![4] = "submit-job"]

MCShellSteps == {1, 2, 5}

\* Smaller instances: without the step after the final one, and also without
\* one of the two shell steps at the start.
FourStepName   == [p \in 1 .. 4 |-> MCStepName[p]]
FourResumeName == [p \in 1 .. 4 |-> MCResumeName[p]]
FourShellSteps == {1, 2}

ThreeStepName   == <<"courtesy-flush", "spark-submit", "send_notification">>
ThreeResumeName == [ThreeStepName EXCEPT ![3] = "submit-job"]
ThreeShellSteps == {1}
=============================================================================
