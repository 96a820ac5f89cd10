------------------------------- MODULE MCNfv -------------------------------
(* The resources of a small spp_nfv: records cannot be written in a cfg.    *)
EXTENDS Nfv

U(t, n) == [type |-> t, no |-> n]
MCResource == {U("phy", 0), U("ring", 0), U("vhost", 0), U("nullpmd", 0)}
=============================================================================
