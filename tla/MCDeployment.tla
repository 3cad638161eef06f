---------------------------- MODULE MCDeployment ----------------------------
(* An instance of Deployment for TLC: the scripts of the repository. *)
EXTENDS Deployment, DeploymentPlan

MediaBuckets == {"primary/s3", "dr/s3"}
ImageRegions == {"primary", "dr"}

\* The hypotheses of the theorems about the scripts, for these scripts.
ASSUME ScriptsOrdered == PlanOrdered
ASSUME ScriptsComplete == DeployComplete
=============================================================================
