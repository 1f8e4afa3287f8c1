------------------------------ MODULE FrostSign ------------------------------
EXTENDS Contributions

(***************************************************************************)
(* FROST signing (crate frost-secp256k1).  Each call of round1::commit     *)
(* draws fresh nonces, a generation of the signer, and their commitments   *)
(* go by the same name.  A signing package is everybody's commitments, a   *)
(* signature share is named by the package it was computed on, and so is   *)
(* the signature aggregated from such shares.  All signers hold shares of  *)
(* the session's group key.                                                *)
(***************************************************************************)
NoPackage == NoPackages
SigningPackage == Packages \ {NoPackage}

\* round2::sign refuses a package without the commitment to the given nonces.
SignAccepts(p, nonces, pkg) == pkg[p] = nonces

\* Mutant of AggregateAccepts: the signature is not verified.
AggregateUnverified(pkg, shares) == {p \in Participants : shares[p] # NoPackage} = Present(pkg)

\* frost::aggregate wants a share from every signer of the package, and the
\* signature verifies only if each was computed on this package.
AggregateAccepts(pkg, shares) == \A p \in Present(pkg) : shares[p] = pkg
==============================================================================
