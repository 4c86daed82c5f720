-------------------------------- MODULE Overlays --------------------------------
(***************************************************************************)
(* Overlay files (src/overlay): a vendor pack and a tenant overlay remap   *)
(* names and add detectors on top of a capability; the run's own base url  *)
(* wins.  A capability is bound to them each time it is replayed.          *)
(***************************************************************************)
EXTENDS Subsequence

CONSTANT NoFile     \* there is no such file

Has(file) == file # NoFile

\* FORBIDDEN_OVERLAY_KEYS and the strict schema: any other key is refused.
Keys == {"copy", "exceptionalStates", "antiCheckpoints", "entryCheckpoint", "baseUrl", "appliesTo"}
ParseOverlay(file) == file.sets \subseteq Keys

\* The tenant's file is read after the vendor's, and must be for the same vendor.
LoadOverlayStack(vendorId, vendor, tenant) ==
    /\ Has(vendor) => ParseOverlay(vendor)
    /\ Has(tenant) => ParseOverlay(tenant) /\ tenant.vendorId = vendorId

Fits(file, kind, base) == Has(file) => file.vendorId = base.vendorId /\ file.kind = kind

\* A tenant's file may name the capabilities it is for.
Applying(tenant, base) ==
    IF Has(tenant) /\ (tenant.appliesTo = NoFile \/ base.id \in tenant.appliesTo) THEN tenant ELSE NoFile

CopyOf(file) == IF Has(file) THEN file.copy ELSE <<>>

Over(f, g) == [x \in DOMAIN f \union DOMAIN g |-> IF x \in DOMAIN f THEN f[x] ELSE g[x]]

\* A slip: the vendor's copy is laid over the tenant's.
CopyVendorWins(vendor, tenant) == Over(CopyOf(vendor), CopyOf(tenant))

Copy(vendor, tenant) == Over(CopyOf(tenant), CopyOf(vendor))

RemapPhrase(name, copy) == IF name \in DOMAIN copy THEN copy[name] ELSE name
ApplyCopy(base, copy) ==
    [base EXCEPT !.steps = [i \in DOMAIN base.steps |->
        [base.steps[i] EXCEPT !.control = RemapPhrase(@, copy)]]]

\* Detectors are appended; an entry checkpoint is replaced.
MergeDetectors(capability, file) ==
    IF ~Has(file) THEN capability
    ELSE [capability EXCEPT !.detectors = @ \o file.detectors,
                            !.entry = IF file.entry = NoFile THEN @ ELSE file.entry]

Resolved(base, vendor, tenant) ==
    MergeDetectors(MergeDetectors(ApplyCopy(base, Copy(vendor, tenant)), vendor), tenant)

AssertUnchangedSafety(base, resolved) ==
    /\ resolved.id = base.id /\ resolved.vendorId = base.vendorId
    /\ resolved.sideEffects = base.sideEffects
    /\ Len(resolved.steps) = Len(base.steps)
    /\ \A i \in DOMAIN base.steps :
         <<resolved.steps[i].action, resolved.steps[i].risk>> = <<base.steps[i].action, base.steps[i].risk>>

\* Which layer the base url of the run comes from.
BaseUrlFrom(runBaseUrl, vendor, tenant) ==
    CASE runBaseUrl # NoFile -> <<"run", runBaseUrl>>
      [] runBaseUrl = NoFile /\ Has(tenant) /\ tenant.baseUrl # NoFile -> <<"tenant", tenant.baseUrl>>
      [] OTHER -> <<"vendor", IF Has(vendor) THEN vendor.baseUrl ELSE NoFile>>

\* The layers that remap a name, the one that was applied last first.
Remapping(name, vendor, tenant) ==
    LET layers == <<[layer |-> "tenant", file |-> tenant], [layer |-> "vendor", file |-> vendor]>>
    IN Picked(layers, {i \in DOMAIN layers : name \in DOMAIN CopyOf(layers[i].file)})

\* Which file to edit when a button has a new name, and what that file says now.
DescribeConfirmFix(name, vendor, tenant) ==
    LET layers == Remapping(name, vendor, tenant) IN
    IF layers = <<>> THEN [layer |-> NoFile, change |-> NoFile]
    ELSE [layer |-> Head(layers).layer, change |-> Head(layers).file.copy[name]]

\* resolveCapability refuses files of another vendor or kind; NoFile is no capability.
BindTenant(base, vendor, tenant) ==
    LET applies == Applying(tenant, base)
        resolved == Resolved(base, vendor, applies)
    IN IF /\ LoadOverlayStack(base.vendorId, vendor, tenant)
          /\ Fits(vendor, "vendor", base) /\ Fits(tenant, "tenant", base)
          /\ AssertUnchangedSafety(base, resolved)
       THEN resolved ELSE NoFile
================================================================================
