---------------------------- MODULE ClientConfig ----------------------------
(***************************************************************************)
(* How the backup client, the sidecar and the API server come by a         *)
(* clientset (pkg/generated/cbt/clientset/versioned): from the in-cluster  *)
(* configuration, which is read once, when the process starts.  Only       *)
(* whether they get one is of interest here.                               *)
(***************************************************************************)
EXTENDS Integers

\* Whether the transport of config can be made (its CA file may be missing or
\* unreadable), whether it has a rate limiter, and the numbers to make one of.
Config(transport, limiter, qps, burst) ==
  [transport |-> transport, limiter |-> limiter, qps |-> qps, burst |-> burst]

\* rest.InClusterConfig sets no rate limiter, nor its numbers.
InClusterConfigs == {Config(transport, FALSE, 0, 0) : transport \in BOOLEAN}

\* The client of the group cbt.storage.k8s.io/v1alpha1: its defaults cannot
\* be wrong.
GroupClient(c) == IF c.transport THEN "client" ELSE "error"

\* A limiter is made of QPS and Burst if there is none.
NewForConfigAndClient(c) ==
  IF ~c.limiter /\ c.qps > 0 /\ c.burst <= 0 THEN "error" ELSE GroupClient(c)

NewForConfig(c) == IF c.transport THEN NewForConfigAndClient(c) ELSE "error"

\* What a process that starts can be left with.
Clientsets == {NewForConfig(c) : c \in InClusterConfigs}
=============================================================================
