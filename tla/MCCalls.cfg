SPECIFICATION Spec
CONSTANTS
  MaxGp <- MCMax
  MaxFp <- MCMax
  Signatures <- MCSignatures
INVARIANTS
  PlacesApart
  ParamsAgree
  VarargsAgree
