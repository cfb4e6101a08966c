------------------------------- MODULE Shipment -----------------------------
(***************************************************************************)
(* The transitions of a shipment (internal/shipping/domain/shipment.go).   *)
(* A row is what the tables shipment and shipment_package keep; the        *)
(* packages of a shipment never change, their status does.  A command x    *)
(* carries the version the device saw and, for a package, the barcode      *)
(* ("" if there is none), for a confirmation the packages the device       *)
(* verified and whether carrier and tracking number are good ones.         *)
(***************************************************************************)
EXTENDS Naturals

PackageStatuses == {"PENDING", "VERIFIED", "COMPLETED"}

Row(packages) == [status : {"PENDING", "SHIPPED"}, pickingComplete : BOOLEAN, version : Nat \ {0},
                  packages : [packages -> PackageStatuses]]

PackagesComplete(row) ==
    \A p \in DOMAIN row.packages : row.packages[p] \in {"COMPLETED", "VERIFIED"}
Readiness(row) == row.pickingComplete /\ PackagesComplete(row) /\ DOMAIN row.packages # {}

CanVerify(row, x) == /\ row.version = x.base
                     /\ x.package \in DOMAIN row.packages
                     /\ x.barcode \in {"", x.package}
Verified(row, x) ==
    IF row.packages[x.package] \in {"COMPLETED", "VERIFIED"}
    THEN row
    ELSE [row EXCEPT !.packages[x.package] = "VERIFIED", !.version = @ + 1]

CanConfirm(row, x) ==
    /\ row.version = x.base
    /\ row.status # "SHIPPED"
    /\ Readiness(row)
    /\ x.verified # {} => DOMAIN row.packages \subseteq x.verified
    /\ x.carrierValid
Confirmed(row) == [row EXCEPT !.status = "SHIPPED", !.version = @ + 1]
=============================================================================
