--------------------------- MODULE MCBillingSession ---------------------------
(* Small instances of BillingSession for TLC.                              *)
EXTENDS BillingSession, TLC

Plain == [image |-> FALSE, playground |-> FALSE, force |-> FALSE,
          unlimited |-> FALSE, pref |-> "wallet_only"]

MCSubTotal == [s \in Subs |-> IF s = 1 THEN 2 ELSE 3]

(* Wallet-funded requests: text, playground and image requests, which may  *)
(* take the trust bypass, and text requests that may not or need no token; *)
(* and requests that insist on a subscription.                             *)
WalletProfiles == {Plain, [Plain EXCEPT !.playground = TRUE], [Plain EXCEPT !.image = TRUE],
                   [Plain EXCEPT !.force = TRUE], [Plain EXCEPT !.unlimited = TRUE],
                   [Plain EXCEPT !.pref = "subscription_only"]}

(* Both orders of the two sources, subscriptions and wallet competing      *)
PrefProfiles == {[Plain EXCEPT !.pref = p] : p \in {"wallet_first", "subscription_first"}}

ImageProfiles == {[Plain EXCEPT !.image = TRUE]}

SubProfiles == {[Plain EXCEPT !.pref = "subscription_only"]}

Perms == Permutations(Requests)
===============================================================================
