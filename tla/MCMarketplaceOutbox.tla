------------------------ MODULE MCMarketplaceOutbox ------------------------
(* Instances of MarketplaceOutbox for TLC. *)
EXTENDS MarketplaceOutbox

CONSTANT s1

NoneRefused == {}
OneRefused == {<<s1, "approved">>}

=============================================================================
