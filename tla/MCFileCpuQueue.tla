---------------------------- MODULE MCFileCpuQueue ----------------------------
(***************************************************************************)
(* Instances of FileCpuQueue for TLC: three clients, a pool of three       *)
(* slots, requests of one and two slots, two leases at a time.             *)
(***************************************************************************)
EXTENDS FileCpuQueue

CONSTANTS c1, c2, c3, j1, j2, j3

OwnJobs   == [c \in Client |-> CASE c = c1 -> j1 [] c = c2 -> j2 [] c = c3 -> j3]
SharedJob == [c \in Client |-> IF c = c3 THEN j2 ELSE j1]

Asked     == [c \in Client |-> IF c = c2 THEN 1 ELSE 2]
OnePolicy == [c \in Client |-> CliConfig(3, 2, Asked[c])]
Admin     == FromValues(3, 2, 1, 1, None)

(* Processes started with different options on one state directory.        *)
MixedPolicies ==
  [c \in Client |-> CASE c = c1 -> CliConfig(3, 1, 2)
                     [] c = c2 -> CliConfig(2, 2, 1)
                     [] c = c3 -> CliConfig(3, 3, 2)]
Workers   == [c \in Client |-> CASE c = c1 -> 3 [] c = c2 -> None [] c = c3 -> 1]
AsLeased  == [c \in Client |-> None]
===============================================================================
