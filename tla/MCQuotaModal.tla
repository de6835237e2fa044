------------------------------ MODULE MCQuotaModal ------------------------------
(* A secret that is kept when its template is left and that no save compares,
   and one that is cleared and compared, with two loads of the snapshots, a
   save, and two more saves, queries or imports. *)
EXTENDS QuotaModal

CONSTANTS script_api_key_2, access_token

MCSecrets == {script_api_key_2, access_token}
MCPurposes == {"script", "newapi"}
MCPurpose == [s \in MCSecrets |-> IF s = script_api_key_2 THEN "script" ELSE "newapi"]
MCExclusive == {access_token}
MCUncompared == {script_api_key_2}
=================================================================================
