------------------------------ MODULE MCAuthoring ------------------------------
(* Authoring for TLC: "confirm" is a risky name of the policy, "confirm now" is not but the *)
(* review finds it; files of both versions, approved or not; overlays of both kinds, some of *)
(* another vendor, with a forbidden key, or for another capability.                          *)
EXTENDS Authoring, TLC

CONSTANTS ann, bob

Url(scheme, host, path) == [scheme |-> scheme, host |-> host, path |-> path]
Page(method, host, path) == [method |-> method, url |-> Url("http:", host, path)]
Rule(method, path) == [method |-> method, path |-> path]

MCAllowed == {Rule("GET", <<>>), Rule("GET", <<"member", "*">>),
              Rule("POST", <<"member", "*", "confirm">>), Rule("GET", <<"*">>)}
MCDenied == {Rule("*", <<"admin", "**">>)}
Home == Page("GET", "localhost", <<>>)
Admin == Page("GET", "localhost", <<"admin">>)
MCErrorPage == [method |-> "GET", url |-> Url("chrome-error:", "chromewebdata", <<>>)]
MCPages == {Home, Page("POST", "localhost", <<"member", "7", "confirm">>), Admin,
            [method |-> "GET", url |-> Url("about:", "", <<"blank">>)], MCErrorPage}
MCRedirects == {<<Home, Admin>>, <<Admin, Home>>}

Confirm(risk) == Step("click", "confirm", None, risk, None)
Search == Step("type", "search", None, "safe", None)
Capability(schema, steps, kind, approval) ==
    [schema |-> schema, id |-> "capability", vendorId |-> "relay-core", steps |-> <<Entry>> \o steps,
     sideEffects |-> kind, approval |-> approval, assistedBy |-> None,
     detectors |-> <<"vendor">>, entry |-> "landing", seen |-> {}, late |-> {}]
Approved(a, b, steps) == [requestedBy |-> a, approvedBy |-> b, of |-> Risks(<<Entry>> \o steps)]
Sale == <<Search, Confirm("risky")>>
MCFiles == UNION {
    {Capability("1.1", Sale, "irreversible", Approved(a, b, Sale)),
     Capability("1.1", <<Search, Confirm("safe")>>, "irreversible", Approved(Blank, b, Sale)),
     Capability("1.0", Sale, None, Approved(a, a, Sale)),
     Capability("2.0", <<Search>>, "none", NoFile)} : <<a, b>> \in {<<ann, bob>>, <<bob, ann>>}}
Symmetry == Permutations({ann, bob})

File(kind, vendorId, copy, sets) ==
    [kind |-> kind, id |-> kind, vendorId |-> vendorId, copy |-> copy, sets |-> sets,
     detectors |-> <<kind>>, entry |-> NoFile, baseUrl |-> NoFile, appliesTo |-> NoFile]
Says(to) == "confirm" :> to
Pack == [File("vendor", "relay-core", Says("finish"), {"copy", "baseUrl"}) EXCEPT !.baseUrl = "vendor url"]
Tenant(copy) == File("tenant", "relay-core", copy, {"copy", "baseUrl", "appliesTo", "entryCheckpoint"})
Binding(vendor, tenant, baseUrl) == [vendor |-> vendor, tenant |-> tenant, baseUrl |-> baseUrl]
MCBindings ==
    {Binding(NoFile, NoFile, "run url"),
     Binding(Pack, [Tenant(Says("submit")) EXCEPT !.entry = "home", !.baseUrl = "tenant url"], "run url"),
     Binding(Pack, [Tenant(Says("submit")) EXCEPT !.appliesTo = {"other"}], NoFile),
     Binding(NoFile, [Tenant("search" :> "confirm") EXCEPT !.baseUrl = "tenant url"], NoFile),
     Binding(File("vendor", "relay-core", <<>>, {"copy", "risk"}), NoFile, NoFile),
     Binding(Pack, Pack, NoFile),
     Binding(Pack, File("tenant", "elsewhere", Says("submit"), {"copy"}), NoFile)}
================================================================================
