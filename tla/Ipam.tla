-------------------------------- MODULE Ipam --------------------------------
(***************************************************************************)
(* IP address management of a work node (runtime/ipam.rs).                 *)
(*                                                                         *)
(* The runtime keeps no table of its own.  The record of which address is  *)
(* taken lives in two places outside the process: the data directory of    *)
(* the host-local CNI plugin (reached by running the plugin with ADD and   *)
(* DEL) and the network interface of the node (reached over netlink).      *)
(* Both outlive a restart of the runtime.  This module has the two stores  *)
(* and the four operations on them; WorkRuntime calls them, step by step,  *)
(* from the handlers that allocate and free the addresses of pods.         *)
(***************************************************************************)
EXTENDS Naturals

CONSTANTS
    Component,   \* component names
    MaxPods,     \* bound: pod identifiers a runtime process hands out
    Address,     \* addresses in the range configured for the plugin
    None         \* stands for an absent value

ASSUME MaxPodsAssumption == MaxPods \in Nat \ {0}
ASSUME NoneIsNotAnAddress == None \notin Address

VARIABLES
    allocated,   \* plugin data directory: the pod name an address is taken for
    active       \* addresses configured on the network interface

ipamVars == <<allocated, active>>

PodId == 0 .. (MaxPods - 1)

(* A pod is named by its component and by a number of the process. *)
PodName == [component : Component, pod : PodId]

(* Pod names are records, so the absent owner of an address is one too. *)
NoName == [component |-> None, pod |-> 0]

ASSUME NoneIsNotAComponent == None \notin Component

IpamTypeOK ==
    /\ allocated \in [Address -> PodName \cup {NoName}]
    /\ active \subseteq Address

IpamInit ==
    /\ allocated = [a \in Address |-> NoName]
    /\ active = {}

(***************************************************************************)
(* The plugin's ADD takes one free address for a container identifier (a   *)
(* hash of the pod name) that has none, and fails if there is no free      *)
(* address or if the identifier already holds one.                         *)
(***************************************************************************)
CanAdd(name, a) ==
    /\ allocated[a] = NoName
    /\ \A b \in Address : allocated[b] # name

PluginADD(name, a) ==
    /\ CanAdd(name, a)
    /\ allocated' = [allocated EXCEPT ![a] = name]

(* The plugin's DEL frees what the container identifier holds. *)
PluginDEL(name) ==
    allocated' = [a \in Address |->
                    IF allocated[a] = name THEN NoName ELSE allocated[a]]

(* Configure an address on the interface; the kernel refuses a second time. *)
ip_addr_add(a) ==
    /\ a \notin active
    /\ active' = active \cup {a}

(* Remove an address from the interface; it has to be found there first. *)
ip_addr_del(a) ==
    /\ a \in active
    /\ active' = active \ {a}

=============================================================================
