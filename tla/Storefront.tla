----------------------------- MODULE Storefront ------------------------------
(***************************************************************************)
(* The Semantic Catalog (C2), read from a file once, and its readers: the  *)
(* policy, through get_item, and Agents, by HTTP or the MCP tool.  An      *)
(* entry is whole, lacks a key (KeyError) or holds a value the model       *)
(* refuses (ValidationError).                                              *)
(***************************************************************************)
EXTENDS Integers, SequencesExt

CONSTANT CatalogFile  \* CatalogFile[merchant]: its sequence of entries

(* A whole entry has passed the bounds of CatalogItem and DiscountBounds.  *)
IsEntry(entry) ==
  /\ entry.state \in {"whole", "KeyError", "ValidationError"}
  /\ entry.state = "whole" => entry.unit \in Nat /\ entry.maxPercent \in 0..100

ASSUME CatalogFileConstants ==
  \A m \in DOMAIN CatalogFile :
    /\ CatalogFile[m] \in Seq({CatalogFile[m][i] : i \in DOMAIN CatalogFile[m]})
    /\ \A i \in DOMAIN CatalogFile[m] : IsEntry(CatalogFile[m][i])

Answer(items) == [error |-> "none", items |-> items]
Error(error) == [error |-> error]

(* Every entry of the merchant is built; the first that fails ends it. *)
GetCatalog(merchant) ==
  IF merchant \notin DOMAIN CatalogFile THEN Error("KeyError")
  ELSE LET entries == CatalogFile[merchant]
           bad == SelectInSeq(entries, LAMBDA i : i.state # "whole")
       IN IF bad # 0 THEN Error(entries[bad].state) ELSE Answer(entries)

(* Mutant: the last of the entries of one SKU *)
GetItemLast(merchant, sku) ==
  LET cat == GetCatalog(merchant) IN
  IF cat.error # "none" THEN cat
  ELSE LET at == SelectLastInSeq(cat.items, LAMBDA i : i.sku = sku)
       IN IF at = 0 THEN Error("KeyError") ELSE Answer(<<cat.items[at]>>)
(* The first entry of the SKU *)
GetItem(merchant, sku) ==
  LET cat == GetCatalog(merchant) IN
  IF cat.error # "none" THEN cat
  ELSE LET at == SelectInSeq(cat.items, LAMBDA i : i.sku = sku)
       IN IF at = 0 THEN Error("KeyError") ELSE Answer(<<cat.items[at]>>)

(* GET /v1/catalog and /v1/catalog/{sku} *)
ReadCatalog(merchant) ==
  IF GetCatalog(merchant).error = "KeyError" THEN Error("404") ELSE GetCatalog(merchant)
ReadCatalogItem(merchant, sku) ==
  IF GetItem(merchant, sku).error = "KeyError" THEN Error("404") ELSE GetItem(merchant, sku)

(* tools/call of the MCP endpoint; a ValidationError of the Catalog is     *)
(* caught by nobody.                                                       *)
McpToolsCall(tool, merchant) ==
  IF tool # "list_catalog_items" THEN Error("-32601")
  ELSE IF merchant = "" THEN Error("-32602")
  ELSE IF GetCatalog(merchant).error = "KeyError" THEN Error("-32602")
  ELSE GetCatalog(merchant)
=============================================================================
