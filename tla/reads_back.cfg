SPECIFICATION Spec
CONSTANTS
  Ids <- EdgeIds
  Bitsets <- EdgeBitsets
  Texts <- ShortTexts
  MaxUnread = 2
INVARIANTS WireTypeOK ReadsBack BytesMatch HeaderAsAsked
