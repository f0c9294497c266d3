------------------------------- MODULE MCFetch -------------------------------
(* Fetch for TLC: two fetches, one validation slot, two public authorities and a *)
(* local forwarder, a TTL on each side of the caps.                              *)
EXTENDS Fetch, TLC

CONSTANTS f1, f2, quad9, cloudflare, gateway

MCFetches == {f1, f2}
MCAuthorities == {quad9, cloudflare, gateway}
MCIndependent == {quad9, cloudflare}
MCRawTtls == {4, 60}
\* `validate` never accepts trust_upstream_ad: no file can set the trust_ad it asks for.
MCConfigs == {c \in DnssecSettings : ~c.trust_upstream_ad}

FetchSymmetry == Permutations(MCFetches) \union Permutations(MCIndependent)
=============================================================================
