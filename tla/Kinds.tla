------------------------------- MODULE Kinds -------------------------------
(***************************************************************************)
(* The resource kinds that share the direct protocol of module Resource.   *)
(* Their reconcilers have one control flow, written out once per kind in   *)
(* controllers/; these decisions are all in which the copies differ:       *)
(*                                                                         *)
(*   refuses   the CR reconciler refuses some specs before it touches the  *)
(*             meta (duplicate gateways)                                   *)
(*   absentOK  a delete of an object that Netris does not have counts as a *)
(*             success                                                     *)
(*   lookup    where the meta reconciler looks a recorded id up: "api" is  *)
(*             the Netris controller, "storage" netrisstorage's copy       *)
(*   refresh   a name that netrisstorage does not find makes it download   *)
(*             the list again                                              *)
(*   fill      an address that the user leaves open is chosen by Netris,   *)
(*             and written back into the resource; the meta takes it from  *)
(*             the object before the two are compared, or after            *)
(*   nilGuard  the default annotations go into a map that is made if the   *)
(*             resource has none; without it the assignment panics         *)
(***************************************************************************)

KindType == [refuses : BOOLEAN, absentOK : BOOLEAN,
             lookup : {"api", "storage"}, refresh : BOOLEAN,
             fill : {"no", "before", "after"}, nilGuard : BOOLEAN]

\* A kind is its CR reconciler, its meta reconciler and its translations.
KindOf(controller, metaController, translations) ==
    [refuses  |-> controller.refuses,    absentOK |-> controller.absentOK,
     lookup   |-> metaController.lookup, refresh  |-> metaController.refresh,
     fill     |-> metaController.fill,   nilGuard |-> translations.nilGuard]

VNetController      == [refuses |-> TRUE, absentOK |-> TRUE]
VNetMetaController  == [lookup |-> "api", refresh |-> FALSE, fill |-> "no"]
VNetTranslations    == [nilGuard |-> FALSE]

SubnetController     == [refuses |-> FALSE, absentOK |-> TRUE]
SubnetMetaController == [lookup |-> "storage", refresh |-> FALSE, fill |-> "no"]
SubnetTranslations   == [nilGuard |-> FALSE]

AllocationController     == [refuses |-> FALSE, absentOK |-> TRUE]
AllocationMetaController == [lookup |-> "storage", refresh |-> FALSE, fill |-> "no"]
AllocationTranslations   == [nilGuard |-> FALSE]

BGPController     == [refuses |-> FALSE, absentOK |-> TRUE]
BGPMetaController == [lookup |-> "storage", refresh |-> FALSE, fill |-> "no"]
BGPTranslations   == [nilGuard |-> FALSE]

NatController     == [refuses |-> FALSE, absentOK |-> FALSE]
NatMetaController == [lookup |-> "storage", refresh |-> FALSE, fill |-> "no"]
NatTranslations   == [nilGuard |-> FALSE]

InventoryProfileController     == [refuses |-> FALSE, absentOK |-> FALSE]
InventoryProfileMetaController == [lookup |-> "storage", refresh |-> FALSE, fill |-> "no"]
InventoryProfileTranslations   == [nilGuard |-> FALSE]

ServerClusterController     == [refuses |-> FALSE, absentOK |-> TRUE]
ServerClusterMetaController == [lookup |-> "storage", refresh |-> TRUE, fill |-> "no"]
ServerClusterTranslations   == [nilGuard |-> TRUE]

ServerClusterTemplateController     == [refuses |-> FALSE, absentOK |-> TRUE]
ServerClusterTemplateMetaController == [lookup |-> "storage", refresh |-> TRUE, fill |-> "no"]
ServerClusterTemplateTranslations   == [nilGuard |-> TRUE]

VPCController     == [refuses |-> FALSE, absentOK |-> TRUE]
VPCMetaController == [lookup |-> "storage", refresh |-> TRUE, fill |-> "no"]
VPCTranslations   == [nilGuard |-> TRUE]

SoftgateController     == [refuses |-> FALSE, absentOK |-> TRUE]
SoftgateMetaController == [lookup |-> "storage", refresh |-> FALSE, fill |-> "before"]
SoftgateTranslations   == [nilGuard |-> FALSE]

SwitchController     == [refuses |-> FALSE, absentOK |-> TRUE]
SwitchMetaController == [lookup |-> "storage", refresh |-> FALSE, fill |-> "before"]
SwitchTranslations   == [nilGuard |-> FALSE]

ControllerController     == [refuses |-> FALSE, absentOK |-> TRUE]
ControllerMetaController == [lookup |-> "storage", refresh |-> FALSE, fill |-> "after"]
ControllerTranslations   == [nilGuard |-> FALSE]

InventoryServerController     == [refuses |-> FALSE, absentOK |-> TRUE]
InventoryServerMetaController == [lookup |-> "storage", refresh |-> FALSE, fill |-> "before"]
InventoryServerTranslations   == [nilGuard |-> TRUE]

VNetKind   == KindOf(VNetController, VNetMetaController, VNetTranslations)
SubnetKind == KindOf(SubnetController, SubnetMetaController, SubnetTranslations)
AllocationKind ==
    KindOf(AllocationController, AllocationMetaController, AllocationTranslations)
BGPKind    == KindOf(BGPController, BGPMetaController, BGPTranslations)
NatKind    == KindOf(NatController, NatMetaController, NatTranslations)
InventoryProfileKind ==
    KindOf(InventoryProfileController, InventoryProfileMetaController,
           InventoryProfileTranslations)
ServerClusterKind ==
    KindOf(ServerClusterController, ServerClusterMetaController, ServerClusterTranslations)
ServerClusterTemplateKind ==
    KindOf(ServerClusterTemplateController, ServerClusterTemplateMetaController,
           ServerClusterTemplateTranslations)
VPCKind    == KindOf(VPCController, VPCMetaController, VPCTranslations)
SoftgateKind   == KindOf(SoftgateController, SoftgateMetaController, SoftgateTranslations)
SwitchKind     == KindOf(SwitchController, SwitchMetaController, SwitchTranslations)
ControllerKind ==
    KindOf(ControllerController, ControllerMetaController, ControllerTranslations)
InventoryServerKind ==
    KindOf(InventoryServerController, InventoryServerMetaController,
           InventoryServerTranslations)

=============================================================================
