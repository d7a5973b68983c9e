---------------------------- MODULE MCProviderSales ----------------------------
(* Small instances of ProviderSales for TLC. *)
EXTENDS ProviderSales, TLC

CONSTANTS saleA, saleB, saleC, sessX, sessY, th1, th2

(* saleA is sold outside at Hotmart, saleB and saleC at checkout. *)
Providers3 == (saleA :> "hotmart") @@ (saleB :> "mercadopago") @@ (saleC :> "payu")
Checkouts3 == (saleA :> NoSession) @@ (saleB :> sessX) @@ (saleC :> sessY)
Ranks3     == (saleA :> 1) @@ (saleB :> 2) @@ (saleC :> 1)
Notes3     == {<<saleA, "approved">>, <<saleA, "refund">>, <<saleB, "approved">>,
               <<saleB, "refund">>, <<saleC, "declined">>, <<saleC, "approved">>}
Forged3    == {<<saleB, "approved">>}
Disputed3  == {<<saleA, "refund">>}
Claimers   == Permutations({th1, th2})
================================================================================
