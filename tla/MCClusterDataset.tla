-------------------------- MODULE MCClusterDataset --------------------------
\* Two shell steps around spark-submit and send_notification.
EXTENDS MCAdgCluster, ClusterDataset

DeliveryStepName   == <<MCStepName[1], MCStepName[3], MCStepName[4], MCStepName[5]>>
DeliveryResumeName == [DeliveryStepName EXCEPT ![3] = "submit-job"]
DeliveryShellSteps == {1, 4}
=============================================================================
