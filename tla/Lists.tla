------------------------------- MODULE Lists -------------------------------
(***************************************************************************)
(* The fourteen lists of netrisstorage.  Each has a file of its own with   *)
(* its mutex, its look-ups and its download, written out fourteen times;   *)
(* these are all decisions in which the files differ:                      *)
(*                                                                         *)
(*   looks    the look-ups that answer from the copy, whatever it holds    *)
(*   reloads  the look-ups that download the list when they miss, and look *)
(*            once more                                                    *)
(***************************************************************************)
EXTENDS Sequences

ListOf(looks, reloads) == [looks |-> looks, reloads |-> reloads]

PortsStorage   == ListOf({"FindByName", "FindByID"}, {})
SitesStorage   == ListOf({"FindByName"}, {"FindByID"})
TenantsStorage == ListOf({"FindByName"}, {"FindByID"})
VNetStorage    == ListOf({"FindByName", "FindByGateway"}, {"FindByID"})
VPCStorage     == ListOf({}, {"FindByName", "FindByID"})
BGPStorage     == ListOf({"FindByName"}, {"FindByID"})
L4LBStorage    == ListOf({"FindByName"}, {"FindByID"})
SubnetsStorage == ListOf({"FindByName"}, {"FindByID"})

\* The hardware is one list of four types, each with look-ups of its own.
HWsByName == {"FindByName", "FindSoftgateByName", "FindSwitchByName", "FindControllerByName"}
HWsByID   == {"FindByID", "FindSoftgateByID", "FindControllerByID", "FindSwitchByID"}
HWsBySite == {"FindHWsBySite", "FindSpineBySite"}
ServersByName == {"FindServerByName"}
ServersByID   == {"FindServerByID"}
HWsStorage == ListOf(HWsByName \union HWsBySite \union ServersByName,
                     HWsByID \union ServersByID)

LinksStorage            == ListOf({}, {"Find"})
NATStorage              == ListOf({"FindByName"}, {"FindByID"})
InventoryProfileStorage == ListOf({"FindByName"}, {"FindByID"})

ServerClusterTemplateStorage == ListOf({}, {"FindByName", "FindByID"})
ServerClusterStorage         == ListOf({}, {"FindByName", "FindByID"})

\* The lists of Storage, by name
TheLists ==
    [Ports |-> PortsStorage, Sites |-> SitesStorage, Tenants |-> TenantsStorage,
     VNet |-> VNetStorage, VPC |-> VPCStorage, BGP |-> BGPStorage, L4LB |-> L4LBStorage,
     Subnets |-> SubnetsStorage, HWs |-> HWsStorage, Links |-> LinksStorage,
     NAT |-> NATStorage, InventoryProfile |-> InventoryProfileStorage,
     ServerClusterTemplate |-> ServerClusterTemplateStorage,
     ServerCluster |-> ServerClusterStorage]

\* The order of Download
DownloadOrder ==
    <<"Ports", "Sites", "Tenants", "VNet", "VPC", "BGP", "L4LB", "Subnets", "HWs", "Links",
      "NAT", "InventoryProfile", "ServerClusterTemplate", "ServerCluster">>

=============================================================================
