---------------------------- MODULE PogReceipts ----------------------------
(***************************************************************************)
(* Receipts of rxm-pog-v2 declarations: toReceipt (src/v2/receipt.ts) of a *)
(* row of AnchorV2, and what verifyReceipt of the library                  *)
(* (packages/pog/src: receipt.ts, verify.ts, bindings/erc8263.ts,          *)
(* identity.ts, eip712.ts) makes of one, from the chain alone.             *)
(*                                                                         *)
(* Hashes and signatures are the terms they are made from. A declaration   *)
(* has an agent and content of its own, and NoDecl stands for any other    *)
(* agent, content or the zero hash. The relayer makes single anchors only. *)
(***************************************************************************)
EXTENDS AnchorV2

\* A declaration and the domain it is signed for.
Domain == [chainId |-> "chain", contract |-> "RxMAnchor"]
declaration(d) == [agent |-> d, content |-> d]

declarationDigest(domain, dec) == <<"digest", domain, dec>>
signDeclaration(key, domain, dec) == <<"signed", key, declarationDigest(domain, dec)>>
agentIdForKey(chainId, agent) == <<"caip10", chainId, agent>>
Zero == <<"zero">>
encodeSingleAux(signature) == <<"single", signature>>

SignatureOf(d) == signDeclaration(d, Domain, declaration(d))
-----------------------------------------------------------------------------
\* RxMAnchor.anchorWithAux: the log it emits; _check reverts a zero hash, a
\* reserved scheme, and an agent where there should be none, or none.
anchorWithAux(contract, scheme, agentId, proofHash, aux) ==
  IF /\ proofHash # Zero /\ scheme \in {"anonymous", "registry", "uriHash"}
     /\ scheme = "anonymous" <=> agentId = Zero
    THEN {[contract |-> contract, scheme |-> scheme, agentId |-> agentId,
           proofHash |-> proofHash, aux |-> aux]}
    ELSE {}

\* The logs of a mined transaction, by what anchorDeclaration sent.
Logs(t) ==
  LET d == chain[t].decl IN
    IF chain[t].status = "logged"
      THEN anchorWithAux(Domain.contract, "uriHash",
             agentIdForKey(Domain.chainId, d),
             declarationDigest(Domain, declaration(d)),
             encodeSingleAux(SignatureOf(d)))
      ELSE {}

\* The anchor of a receipt, whose statement and state nobody need trust.
BadToReceipt(d) ==
  [declaration |-> declaration(d), signature |-> SignatureOf(d),
   domain |-> Domain, locator |-> row[d].tx]
toReceipt(d) ==
  [declaration |-> declaration(d), signature |-> SignatureOf(d),
   domain |-> Domain,
   locator |-> IF row[d].state = "anchored" THEN row[d].tx ELSE NoTx]

validateDeclaration(dec) == dec.content # NoDecl /\ dec.agent # NoDecl

\* A log that is an rxm-pog-v2 anchor of the declaration, signed by its agent.
verifyDeclaration(log, dec, signature, domain, content) ==
  /\ log.contract = domain.contract
  /\ log.aux[1] = "single"
  /\ validateDeclaration(dec)
  /\ declarationDigest(domain, dec) = log.proofHash
  /\ log.aux = encodeSingleAux(signature)
  /\ signature = signDeclaration(dec.agent, domain, dec)
  /\ \/ /\ log.scheme = "uriHash"
        /\ log.agentId = agentIdForKey(domain.chainId, dec.agent)
     \/ log.scheme = "registry"
  /\ content = dec.content

\* The RPC is of the domain's chain and has the transaction, mined and not
\* reverted; the log index is of its one AnchorProof log.
verifyFromChain(r, content) ==
  /\ r.domain.chainId = Domain.chainId
  /\ \E log \in Logs(r.locator) :
       verifyDeclaration(log, r.declaration, r.signature, r.domain, content)

verifyReceipt(r, content) == r.locator # NoTx /\ verifyFromChain(r, content)

\* The client's wait ends with the receipt once the state says anchored; it
\* throws on failed, and at its deadline.
waitForAnchor(d) == IF row[d].state = "anchored" THEN {toReceipt(d)} ELSE {}

\* Receipts that differ from r in one thing.
Altered(r) ==
  {[r EXCEPT !.declaration.content = NoDecl], [r EXCEPT !.declaration.agent = NoDecl],
   [r EXCEPT !.signature = signDeclaration(NoDecl, Domain, r.declaration)],
   [r EXCEPT !.domain.chainId = "other"], [r EXCEPT !.domain.contract = "other"]}
-----------------------------------------------------------------------------
\* "The holder can verify without this service" (receipt.ts:6): whatever became
\* of its workers, the receipt of a row verifies against the chain as soon as,
\* and only when, the row is anchored; not with other content, nor with any
\* part of it altered; and a locator of another transaction serves only if
\* that one holds the proof of the same declaration.
ReceiptsVerify ==
  \A d \in Decl : LET r == toReceipt(d) IN
    /\ row[d].state = "anchored" <=> verifyReceipt(r, d)
    /\ \A x \in waitForAnchor(d) : verifyReceipt(x, d)
    /\ ~verifyReceipt(r, NoDecl)
    /\ \A x \in Altered(r) : ~verifyReceipt(x, d)
    /\ \A t \in Tx : verifyReceipt([r EXCEPT !.locator = t], d)
                       <=> chain[t] = [decl |-> d, status |-> "logged"]
=============================================================================
