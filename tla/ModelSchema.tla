----------------------------- MODULE ModelSchema -----------------------------
(***************************************************************************)
(* The model registry of crates/core/src/validation.rs: which families of  *)
(* objects a profile may name, the properties and the links each family    *)
(* publishes, and, kept apart from it in the code, the names each model    *)
(* object can really answer.                                               *)
(*                                                                         *)
(* A profile rule is accepted at import when the registry knows its object *)
(* type, its links and its last property.  At validation the same rule is  *)
(* evaluated by the property functions of the objects, which are a second  *)
(* hand-written list of the same names.  Nothing in the code makes the two *)
(* lists agree, and no unit test compares them: ModelGraph states how far  *)
(* they do.  Property names stay strings because the question is about     *)
(* names; what a property computes is not modelled here.                   *)
(***************************************************************************)
EXTENDS Sequences, FiniteSets

-----------------------------------------------------------------------------
(* The published property tables. *)

CATALOG_DIRECT_PROPERTIES ==
  {"Type", "Metadata", "Pages", "OutputIntents", "AcroForm", "StructTreeRoot", "OCProperties",
   "Lang", "Perms", "Outlines", "Names", "Dests"}
METADATA_DIRECT_PROPERTIES == {"Type", "Subtype", "Filter", "Length"}
PAGE_INHERITED_PROPERTIES ==
  {"Resources", "MediaBox", "CropBox", "BleedBox", "TrimBox", "ArtBox", "Rotate"}
PAGE_DIRECT_PROPERTIES ==
  {"Type", "Parent", "Contents", "Resources", "Annots", "MediaBox", "CropBox", "BleedBox",
   "TrimBox", "ArtBox", "Rotate", "UserUnit", "Tabs", "StructParents", "AA"}
FONT_DIRECT_PROPERTIES ==
  {"Type", "Subtype", "BaseFont", "FontDescriptor", "FirstChar", "LastChar", "Widths",
   "Encoding", "ToUnicode", "CIDToGIDMap", "DescendantFonts", "CharProcs", "Resources",
   "FontMatrix", "FontBBox", "DW", "W", "CIDSystemInfo"}
ANNOTATION_DIRECT_PROPERTIES ==
  {"Type", "Subtype", "F", "C", "IC", "AP", "FT", "CA", "A", "AA", "FS"}
OUTPUT_INTENT_DIRECT_PROPERTIES ==
  {"Type", "S", "DestOutputProfile", "OutputConditionIdentifier", "Info"}
STREAM_DIRECT_PROPERTIES ==
  {"Type", "Subtype", "Filter", "DecodeParms", "F", "FFilter", "FDecodeParms"}
RESOURCE_DIRECT_PROPERTIES ==
  {"Font", "XObject", "ColorSpace", "ExtGState", "Pattern", "Shading", "Properties", "ProcSet"}
ACRO_FORM_DIRECT_PROPERTIES == {"Fields", "NeedAppearances", "SigFlags", "DR", "DA", "Q", "XFA"}
STRUCTURE_DIRECT_PROPERTIES ==
  {"Type", "K", "ParentTree", "ParentTreeNextKey", "RoleMap", "ClassMap", "IDTree"}
OPTIONAL_CONTENT_DIRECT_PROPERTIES == {"OCGs", "D", "Configs"}
NAMES_DIRECT_PROPERTIES ==
  {"Dests", "AP", "JavaScript", "Pages", "Templates", "IDS", "URLS", "EmbeddedFiles",
   "AlternatePresentations", "Renditions"}
OUTLINES_DIRECT_PROPERTIES ==
  {"Type", "First", "Last", "Next", "Prev", "Parent", "Count", "Dest", "A"}
DESTINATION_DIRECT_PROPERTIES == {"D", "Dest", "A"}
ACTION_DIRECT_PROPERTIES ==
  {"Type", "S", "D", "URI", "Next", "NewWindow", "F", "FS", "Win", "Unix", "Mac"}
FORM_FIELD_DIRECT_PROPERTIES ==
  {"FT", "T", "TU", "TM", "Ff", "V", "DV", "Kids", "Parent", "AA", "A", "AP", "F"}
FILE_SPEC_DIRECT_PROPERTIES ==
  {"Type", "FS", "F", "UF", "DOS", "Mac", "Unix", "EF", "Desc", "CI", "AFRelationship"}
IMAGE_DIRECT_PROPERTIES ==
  {"Type", "Subtype", "Width", "Height", "ColorSpace", "BitsPerComponent", "ImageMask",
   "Filter", "DecodeParms", "SMask", "Mask", "Intent", "Interpolate", "Alternates", "OPI"}
XOBJECT_DIRECT_PROPERTIES ==
  {"Type", "Subtype", "Subtype2", "BBox", "Matrix", "Resources", "Group", "Filter",
   "DecodeParms", "SMask", "OPI", "PS", "Ref", "CT", "Alt"}
PATTERN_DIRECT_PROPERTIES ==
  {"Type", "PatternType", "PaintType", "TilingType", "BBox", "XStep", "YStep", "Resources",
   "Matrix", "Shading"}
SHADING_DIRECT_PROPERTIES ==
  {"ShadingType", "ColorSpace", "Background", "BBox", "Function", "AntiAlias"}
FUNCTION_DIRECT_PROPERTIES ==
  {"FunctionType", "Domain", "Range", "Size", "BitsPerSample", "Order", "Encode", "Decode"}
CMAP_DIRECT_PROPERTIES == {"Type", "Subtype", "CMapName", "CIDSystemInfo", "WMode", "UseCMap"}
COLOR_SPACE_DIRECT_PROPERTIES ==
  {"Type", "N", "Alternate", "Range", "Metadata", "Filter", "Family", "Base", "HiVal",
   "Lookup", "TintTransform", "Colorants", "Process", "Components"}
EXT_GSTATE_DIRECT_PROPERTIES ==
  {"Type", "BM", "CA", "ca", "SMask", "AIS", "OP", "op", "OPM", "TR", "TR2", "HTP", "HTO"}
SIGNATURE_DIRECT_PROPERTIES ==
  {"Type", "Filter", "SubFilter", "ByteRange", "Contents", "Reference", "M"}
SECURITY_DIRECT_PROPERTIES == {"Filter", "SubFilter", "V", "R", "Length", "P"}
DIRECT_PROPERTY_NAMES ==
  {"A", "AA", "AIS", "AP", "AFRelationship", "Alternate", "AlternatePresentations", "Annot",
   "Annots", "BBox", "BM", "BaseFont", "BitsPerComponent", "ByteRange", "C", "CA",
   "CIDSystemInfo", "CIDToGIDMap", "ClassMap", "ColorSpace", "Configs", "Contents", "Count",
   "D", "DA", "DR", "DV", "DecodeParms", "Dest", "DestOutputProfile", "Dests", "EmbeddedFiles",
   "Encoding", "F", "FDecodeParms", "FFilter", "FS", "FT", "Ff", "Fields", "Filter", "First",
   "FirstChar", "Font", "FontDescriptor", "FontFile", "FontFile2", "FontFile3", "Group",
   "Height", "IC", "Length1", "Length2", "Length3", "IDS", "IDTree", "Info", "Intent",
   "JavaScript", "K", "Kids", "Last", "LastChar", "Length", "M", "Mask", "Matrix", "Metadata",
   "N", "NeedAppearances", "Next", "OCGs", "OP", "OPM", "OutputConditionIdentifier", "P",
   "Pages", "Parent", "ParentTree", "ParentTreeNextKey", "Prev", "Pattern", "PatternType",
   "ProcSet", "Process", "Properties", "Q", "Range", "Reference", "Renditions", "Resources",
   "RoleMap", "S", "SMask", "Shading", "ShadingType", "SigFlags", "SubFilter", "Subtype", "T",
   "TM", "TU", "Templates", "ToUnicode", "Type", "URI", "UF", "URLS", "V", "Width", "Widths",
   "XFA", "XObject", "ca", "op"}
OBJECT_PROPERTIES ==
  {"Type", "Subtype", "internalRepresentation", "unicodeValue", "containsPUA", "containsDesc",
   "containsEF", "isHex", "isValidUtf8", "realValue", "intValue", "value", "size", "top",
   "bottom", "hexCount", "containsOnlyHex", "decodeParms", "F", "UF", "left", "right",
   "isAssociatedFile", "AFRelationship", "presentInEmbeddedFiles"}
DOCUMENT_PROPERTIES ==
  {"headerOffset", "postEOFDataSize", "header", "headerByte1", "headerByte2", "headerByte3",
   "headerByte4", "encrypted", "isEncrypted", "hasCatalog", "hasMetadata",
   "containsXRefStream", "containsStructTreeRoot", "containsLang", "containsAA",
   "containsPieceInfo", "containsEmbeddedFiles", "containsAlternatePresentations",
   "isOptionalContentPresent", "isLinearized", "nrIndirects", "size", "Version", "Title",
   "Author", "Creator", "Producer", "Keywords", "Subject", "NeedsRendering", "Requirements",
   "Marked", "DisplayDocTitle", "Suspects", "lastID", "firstPageID", "containsInfo", "ModDate",
   "CreationDate", "XMPTitle", "XMPCreator", "XMPCreatorSize", "XMPDescription", "XMPKeywords",
   "XMPCreatorTool", "XMPProducer", "XMPCreateDate", "XMPModifyDate", "doCreationDatesMatch",
   "doModDatesMatch", "spacingCompliesPDFA", "subsectionHeaderSpaceSeparated",
   "xrefEOLMarkersComplyPDFA", "containsPDFUAIdentification", "containsPDFAIdentification"}
CATALOG_PROPERTIES == CATALOG_DIRECT_PROPERTIES \cup
  {"hasMetadata", "hasAcroForm", "hasStructTreeRoot", "hasOCProperties", "hasLang",
   "hasOutlines", "hasNames", "hasDests", "language", "permissions", "containsStructTreeRoot",
   "containsOCProperties", "containsAcroForm", "Marked"}
METADATA_PROPERTIES == METADATA_DIRECT_PROPERTIES \cup
  {"present", "catalogMetadata", "containsPDFAIdentification", "containsPDFUAIdentification",
   "part", "partPrefix", "conformance", "conformancePrefix", "rev", "revPrefix", "amdPrefix",
   "corrPrefix", "declarations", "actualEncoding", "bytes", "encoding", "isSerializationValid",
   "isPredefinedInXMP2004", "isPredefinedInXMP2005", "isDefinedInMainPackage",
   "isDefinedInCurrentPackage", "isValueTypeCorrect", "containsUndefinedFields",
   "undefinedFields", "isValidBag", "prefix", "isSchemaValidText", "schemaPrefix",
   "isNamespaceURIValidURI", "namespaceURIPrefix", "isPrefixValidText", "prefixPrefix",
   "isPropertyValidSeq", "propertyPrefix", "isValueTypeValidSeq", "valueTypePrefix",
   "isDescriptionValidText", "descriptionPrefix", "isFieldValidSeq", "fieldPrefix",
   "isTypeValidText", "typePrefix", "isCategoryValidText", "category", "categoryPrefix",
   "isNameValidText", "namePrefix", "isValueTypeValidText", "isValueTypeDefined", "dc_title",
   "xDefault", "gContainsCatalogLang"}
PAGE_PROPERTIES == PAGE_DIRECT_PROPERTIES \cup
  {"hasContents", "hasResources", "containsAnnotations", "containsAA", "containsPresSteps",
   "gOutputCS", "gDocumentOutputCS", "containsGroupCS", "containsTransparency",
   "outputColorSpace", "annotationCount"}
PAGE_TREE_PROPERTIES == {"Type", "Kids", "Count", "Parent", "Resources"}
RESOURCE_PROPERTIES == RESOURCE_DIRECT_PROPERTIES
NAMES_PROPERTIES == NAMES_DIRECT_PROPERTIES
OUTLINE_PROPERTIES ==
  {"Type", "First", "Last", "Next", "Prev", "Parent", "Count", "Dest", "A",
   "gContainsCatalogLang"}
DESTINATION_PROPERTIES == {"D", "Dest", "A", "isStructDestination"}
ACRO_FORM_PROPERTIES == ACRO_FORM_DIRECT_PROPERTIES \cup
  {"containsXFA", "dynamicRender"}
OPTIONAL_CONTENT_PROPERTIES ==
  {"OCGs", "D", "Configs", "AS", "Name", "hasDuplicateName", "OCGsNotContainedInOrder",
   "gContainsConfigs"}
PERMISSIONS_PROPERTIES == {"DocMDP", "UR", "UR3", "entries"}
FONT_PROPERTIES == FONT_DIRECT_PROPERTIES \cup
  {"embedded", "embeddedProgramBytes", "embeddedProgramCapped", "containsFontFile",
   "fontFileSubtype", "fontName", "name", "isStandard", "isSymbolic", "renderingMode",
   "cmapName", "toUnicode", "containsDifferences", "differencesAreUnicodeCompliant",
   "CIDFontRegistry", "CIDFontOrdering", "CIDFontSupplement", "CMapRegistry", "CMapOrdering",
   "CMapSupplement", "cmap10Present", "cmap30Present", "cmap31Present", "nrCmaps",
   "unicodePUA", "actualTextPresent", "altPresent", "isRealContent", "widthFromFontProgram",
   "widthFromDictionary", "Widths_size", "containsCIDSet", "cidSetListsAllGlyphs", "CharSet",
   "charSetListsAllGlyphs", "isGlyphPresent", "hasSubtype", "fontFamily", "hasFontDescriptor",
   "hasToUnicode", "hasEncoding", "hasWidths", "hasCIDSystemInfo", "hasCharProcs",
   "hasResources"}
FONT_DESCRIPTOR_PROPERTIES ==
  {"Type", "FontName", "Flags", "FontBBox", "ItalicAngle", "Ascent", "Descent", "CapHeight",
   "StemV", "FontFile", "FontFile2", "FontFile3", "hasFontFile", "fontProgramBytes",
   "fontProgramCapped"}
FONT_PROGRAM_PROPERTIES ==
  {"Type", "Subtype", "Filter", "Length", "Length1", "Length2", "Length3", "declaredLength",
   "discoveredLength", "capped"}
CMAP_PROPERTIES == CMAP_DIRECT_PROPERTIES \cup
  {"hasCIDSystemInfo", "hasUseCMap", "embedded", "containsEmbeddedFile", "dictWMode",
   "maximalCID", "CMapRegistry", "CMapOrdering", "CMapSupplement"}
IMAGE_PROPERTIES == IMAGE_DIRECT_PROPERTIES \cup
  {"width", "height", "hasColorSpace", "isMask", "containsAlternates", "containsOPI",
   "nrColorSpaceSpecs", "nrColorSpacesWithApproxField", "nrColorChannels", "colrMethod",
   "colrEnumCS", "bpccBoxPresent", "bitDepth"}
XOBJECT_PROPERTIES == XOBJECT_DIRECT_PROPERTIES \cup
  {"containsOPI", "containsSMask", "containsPS", "containsRef", "hasCorrectAlt"}
FORM_XOBJECT_PROPERTIES ==
  {"Type", "Subtype", "Subtype2", "BBox", "Matrix", "Resources", "Group", "Filter",
   "DecodeParms", "SMask", "OPI", "PS", "Ref", "CT", "Alt", "containsOPI", "containsSMask",
   "containsPS", "containsRef", "isUniqueSemanticParent"}
POSTSCRIPT_XOBJECT_PROPERTIES == XOBJECT_PROPERTIES
PATTERN_PROPERTIES == PATTERN_DIRECT_PROPERTIES
SHADING_PROPERTIES == SHADING_DIRECT_PROPERTIES
FUNCTION_PROPERTIES == FUNCTION_DIRECT_PROPERTIES
CONTENT_STREAM_PROPERTIES ==
  {"nrOperators", "hasText", "hasMarkedContent", "hasInlineImage", "hasUnknownOperators",
   "truncated", "lengthMatches", "declaredLength", "discoveredLength", "operatorCount",
   "markedContentCount", "nestingLevel", "inheritedResourceNames", "undefinedResourceNames",
   "Type", "Subtype", "Filter", "DecodeParms", "F", "FFilter", "FDecodeParms"}
OPERATOR_PROPERTIES == {"op", "family", "operandCount", "location", "isUnknown", "textBytes"}
MARKED_CONTENT_PROPERTIES == {"tag", "hasProperties", "nestingDepth", "location"}
INLINE_IMAGE_PROPERTIES ==
  {"width", "height", "filters", "colorSpace", "bitsPerComponent", "location"}
RESOURCE_USE_PROPERTIES ==
  {"family", "name", "operator", "location", "status", "resolvedFamily", "resolvedObject"}
UNDEFINED_OPERATOR_PROPERTIES == {"name", "op", "operandCount", "location"}
ANNOTATION_PROPERTIES == ANNOTATION_DIRECT_PROPERTIES \cup
  {"hasSubtype", "N_type", "containsAppearances", "containsA", "containsAA", "containsC",
   "containsIC", "containsFS", "containsRC", "containsLbl", "differentTargetAnnotObjectKey",
   "width", "height", "isArtifact", "isFieldWidget", "structParentType",
   "structParentStandardType", "isOutsideCropBox", "Name", "Contents", "Alt", "AFRelationship",
   "RC", "containsLang", "gContainsCatalogLang", "gOutputCS", "TU"}
ACTION_PROPERTIES == ACTION_DIRECT_PROPERTIES \cup
  {"N", "parentType", "containsStructDestination", "entries"}
FORM_FIELD_PROPERTIES == FORM_FIELD_DIRECT_PROPERTIES \cup
  {"Lang", "RV", "containsAA", "containsLang", "containsRV", "gContainsCatalogLang"}
FILE_SPEC_PROPERTIES == FILE_SPEC_DIRECT_PROPERTIES
COLOR_SPACE_PROPERTIES == COLOR_SPACE_DIRECT_PROPERTIES \cup
  {"family", "componentCount", "hasAlternate", "hasTintTransform", "hasICCProfile",
   "nrComponents", "gOutputCS", "gDocumentOutputCS", "gPageOutputCS", "gTransparencyCS",
   "gOutputProfileIndirect", "currentTransparencyProfileIndirect", "ICCProfileIndirect",
   "ICCProfileMD5", "gOutputICCProfileMD5", "currentTransparencyICCProfileMD5", "S",
   "HalftoneName", "HalftoneType", "overprintFlag", "OPM", "colorantName", "TransferFunction",
   "areColorantsPresent", "areTintAndAlternateConsistent"}
ICC_PROFILE_PROPERTIES ==
  {"profileSize", "version", "deviceClass", "colorSpace", "pcs", "renderingIntent", "tagCount",
   "capped", "N", "Alternate", "Range", "Metadata", "Filter"}
EXT_GSTATE_PROPERTIES == EXT_GSTATE_DIRECT_PROPERTIES \cup
  {"hasSoftMask", "hasBlendMode", "alphaSource", "containsBM", "BMNameValue", "containsSMask",
   "SMaskNameValue", "containsTR", "containsTR2", "TR2NameValue", "containsHTP", "containsHTO"}
ACCESSIBILITY_DOCUMENT_PROPERTIES ==
  {"isTagged", "language", "hasStructTreeRoot", "roleMapPresent", "classMapPresent",
   "classMapEntries", "idTreeEntries", "parentTreeEntries", "parentTreeNextKey",
   "structureElementCount", "kidsStandardTypes", "hasContentItems",
   "firstChildStandardTypeNamespaceURL", "markedContentAssociationCount", "artifactCount",
   "warningCount", "truncated"}
STRUCTURE_PROPERTIES == STRUCTURE_DIRECT_PROPERTIES \cup
  {"kidsStandardTypes", "hasContentItems", "firstChildStandardTypeNamespaceURL", "isTagged",
   "roleMapPresent", "classMapPresent", "classMapEntries", "parentTreeEntries",
   "idTreeEntries", "truncated"}
STRUCTURE_ELEMENT_PROPERTIES ==
  {"role", "normalizedRole", "page", "pageIndex", "childCount", "contentItemCount",
   "associatedMarkedContentCount", "associatedAnnotationCount", "tag", "containsLang",
   "parentLang", "inheritedLang", "gContainsCatalogLang", "E", "roleAttribute",
   "hasOneInteractiveChild", "usesH", "usesHn", "hasCorrectNestingLevel", "noteID",
   "hasDuplicateNoteID", "hasConnectedHeader", "unknownHeaders", "isGrouping",
   "widgetAnnotsCount", "isSignature", "hasParentFormulaOrMathML",
   "numberOfColumnWithWrongRowSpan", "numberOfRowWithWrongColumnSpan", "wrongColumnSpan",
   "hasIntersection", "ListNumbering", "NoteType", "orphanRefs", "ghostRefs", "hasAltText",
   "altTextBytes", "hasActualText", "actualTextBytes", "hasLanguage", "hasAttributes",
   "hasClass", "hasId", "idTreeResolved", "classMapResolved", "Type", "S", "P", "K", "Pg",
   "Alt", "ActualText", "Lang", "A", "C", "ID", "containsParent", "containsRef",
   "parentStandardType", "parentStandardTypeNamespaceURL", "parentType", "parentNamespaceURL",
   "structParentStandardType", "structParentType", "firstChildStandardTypeNamespaceURL",
   "kidsStandardTypes", "hasContentItems", "containsLabels", "isArtifact", "isTaggedContent",
   "parentsTags", "isNotMappedToStandardType", "circularMappingExist",
   "roleMapToSameNamespaceTag", "remappedStandardType"}
TEXT_CHUNK_PROPERTIES ==
  {"tag", "mcid", "pageIndex", "structureRole", "normalizedRole", "textBytes", "rawText",
   "isArtifact"}
IMAGE_CHUNK_PROPERTIES ==
  {"tag", "mcid", "pageIndex", "structureRole", "normalizedRole", "hasAltText", "altTextBytes",
   "hasActualText", "actualTextBytes", "isArtifact"}
ACCESSIBILITY_ANNOTATION_PROPERTIES ==
  {"pageIndex", "structureRole", "normalizedRole", "isLink", "object"}
ARTIFACT_PROPERTIES == {"tag", "pageIndex", "structureRole"}
TABLE_PROPERTIES == {"role", "normalizedRole", "pageIndex", "childCount", "hasAttributes"}
LIST_PROPERTIES == {"role", "normalizedRole", "pageIndex", "childCount", "containsLabels"}
HEADING_PROPERTIES == {"role", "normalizedRole", "pageIndex", "level"}
LINK_PROPERTIES == {"role", "normalizedRole", "pageIndex", "associatedAnnotationCount"}
SIGNATURE_PROPERTIES == SIGNATURE_DIRECT_PROPERTIES \cup
  {"signingCertificatePresent", "permsContainDocMDP", "doesByteRangeCoverEntireDocument",
   "SignerInfoCount", "entries"}
SECURITY_PROPERTIES == SECURITY_DIRECT_PROPERTIES
OUTPUT_INTENT_PROPERTIES == OUTPUT_INTENT_DIRECT_PROPERTIES \cup
  {"hasDestOutputProfile", "containsDestOutputProfileRef", "sameOutputProfileIndirect",
   "destOutputProfileIndirect", "ICCProfileMD5", "iccProfileSize", "iccVersion",
   "iccDeviceClass", "iccColorSpace", "iccPcs", "iccRenderingIntent", "iccTagCount",
   "iccCapped"}
STREAM_PROPERTIES == STREAM_DIRECT_PROPERTIES \cup
  {"lengthMatches", "declaredLength", "discoveredLength", "streamKeywordCRLFCompliant",
   "endstreamKeywordEOLCompliant", "isValidPDFA12", "isValidPDFA124"}

PropertiesOf ==
  [document |-> DOCUMENT_PROPERTIES, catalog |-> CATALOG_PROPERTIES,
   metadata |-> METADATA_PROPERTIES, page |-> PAGE_PROPERTIES, pageTree |-> PAGE_TREE_PROPERTIES,
   resource |-> RESOURCE_PROPERTIES, names |-> NAMES_PROPERTIES, outline |-> OUTLINE_PROPERTIES,
   destination |-> DESTINATION_PROPERTIES, acroForm |-> ACRO_FORM_PROPERTIES,
   optionalContentProperties |-> OPTIONAL_CONTENT_PROPERTIES,
   permissions |-> PERMISSIONS_PROPERTIES, font |-> FONT_PROPERTIES,
   fontDescriptor |-> FONT_DESCRIPTOR_PROPERTIES, fontProgram |-> FONT_PROGRAM_PROPERTIES,
   cMap |-> CMAP_PROPERTIES, embeddedFontFile |-> STREAM_PROPERTIES, image |-> IMAGE_PROPERTIES,
   xObject |-> XOBJECT_PROPERTIES, formXObject |-> FORM_XOBJECT_PROPERTIES,
   postScriptXObject |-> POSTSCRIPT_XOBJECT_PROPERTIES,
   contentStream |-> CONTENT_STREAM_PROPERTIES, operator |-> OPERATOR_PROPERTIES,
   markedContent |-> MARKED_CONTENT_PROPERTIES, inlineImage |-> INLINE_IMAGE_PROPERTIES,
   resourceUse |-> RESOURCE_USE_PROPERTIES, undefinedOperator |-> UNDEFINED_OPERATOR_PROPERTIES,
   annotation |-> ANNOTATION_PROPERTIES, action |-> ACTION_PROPERTIES,
   formField |-> FORM_FIELD_PROPERTIES, fileSpec |-> FILE_SPEC_PROPERTIES,
   colorSpace |-> COLOR_SPACE_PROPERTIES, iccProfile |-> ICC_PROFILE_PROPERTIES,
   extGState |-> EXT_GSTATE_PROPERTIES, pattern |-> PATTERN_PROPERTIES,
   shading |-> SHADING_PROPERTIES, function |-> FUNCTION_PROPERTIES,
   accessibilityDocument |-> ACCESSIBILITY_DOCUMENT_PROPERTIES,
   structureTreeRoot |-> STRUCTURE_PROPERTIES, structureElement |-> STRUCTURE_ELEMENT_PROPERTIES,
   textChunk |-> TEXT_CHUNK_PROPERTIES, imageChunk |-> IMAGE_CHUNK_PROPERTIES,
   accessibilityAnnotation |-> ACCESSIBILITY_ANNOTATION_PROPERTIES,
   artifact |-> ARTIFACT_PROPERTIES, table |-> TABLE_PROPERTIES, list |-> LIST_PROPERTIES,
   heading |-> HEADING_PROPERTIES, link |-> LINK_PROPERTIES, signature |-> SIGNATURE_PROPERTIES,
   security |-> SECURITY_PROPERTIES, outputIntent |-> OUTPUT_INTENT_PROPERTIES,
   stream |-> STREAM_PROPERTIES, object |-> OBJECT_PROPERTIES]

-----------------------------------------------------------------------------
(* The registry. *)

Families == DOMAIN PropertiesOf

DOCUMENT_LINKS ==
  [catalog |-> "catalog", streams |-> "stream", accessibility |-> "accessibilityDocument",
   security |-> "security", signatures |-> "signature"]

CATALOG_LINKS ==
  [metadata |-> "metadata", pages |-> "page", outputIntents |-> "outputIntent",
   acroForm |-> "acroForm", structureTreeRoot |-> "structureTreeRoot",
   optionalContentProperties |-> "optionalContentProperties", names |-> "names",
   outlines |-> "outline", destinations |-> "destination", permissions |-> "permissions"]

PAGE_LINKS ==
  [resources |-> "resource", fonts |-> "font", annotations |-> "annotation",
   contentStreams |-> "contentStream", additionalActions |-> "action"]

CONTENT_STREAM_LINKS ==
  [operators |-> "operator", markedContent |-> "markedContent",
   inlineImages |-> "inlineImage", usedResources |-> "resourceUse"]

OPERATOR_LINKS == [resource |-> "resourceUse", markedContentProperties |-> "object"]

ANNOTATION_LINKS ==
  [action |-> "action", additionalActions |-> "action", fileSpec |-> "fileSpec",
   formField |-> "formField"]

ACTION_LINKS == [next |-> "action", fileSpec |-> "fileSpec", destination |-> "destination"]

FORM_FIELD_LINKS ==
  [kids |-> "formField", parent |-> "formField", action |-> "action",
   additionalActions |-> "action", fileSpec |-> "fileSpec"]

OUTLINE_LINKS ==
  [first |-> "outline", last |-> "outline", next |-> "outline", previous |-> "outline",
   action |-> "action", destination |-> "destination"]

ACCESSIBILITY_DOCUMENT_LINKS ==
  [structureElements |-> "structureElement", textChunks |-> "textChunk",
   imageChunks |-> "imageChunk", annotations |-> "accessibilityAnnotation",
   artifacts |-> "artifact", tables |-> "table", lists |-> "list", headings |-> "heading",
   links |-> "link"]

STRUCTURE_ELEMENT_LINKS ==
  [children |-> "structureElement", textChunks |-> "textChunk",
   imageChunks |-> "imageChunk", annotations |-> "accessibilityAnnotation"]

EMPTY_LINK_NAMES == [l \in {} |-> "object"]

\* The links of the families that objects of GenericModel are built with.
family_links(f) ==
  CASE f = "page"       -> PAGE_LINKS
    [] f = "annotation" -> ANNOTATION_LINKS
    [] f = "action"     -> ACTION_LINKS
    [] f = "formField"  -> FORM_FIELD_LINKS
    [] f = "acroForm"   -> [fields |-> "formField"]
    [] f = "outline"    -> OUTLINE_LINKS
    [] f = "names"      -> [destinations |-> "destination", files |-> "fileSpec"]
    [] f = "destination" -> [action |-> "action"]
    [] f \in {"xObject", "formXObject"} -> [contentStreams |-> "contentStream"]
    [] OTHER -> EMPTY_LINK_NAMES

\* The links the registry publishes for a family.
LinksOf(f) ==
  CASE f = "document"      -> DOCUMENT_LINKS
    [] f = "catalog"       -> CATALOG_LINKS
    [] f = "contentStream" -> CONTENT_STREAM_LINKS
    [] f = "operator"      -> OPERATOR_LINKS
    [] f \in {"accessibilityDocument", "structureTreeRoot"} -> ACCESSIBILITY_DOCUMENT_LINKS
    [] f = "structureElement" -> STRUCTURE_ELEMENT_LINKS
    [] OTHER -> family_links(f)

Unknown == "unknown"

link_target(f, link) ==
  IF f \in Families /\ link \in DOMAIN LinksOf(f) THEN LinksOf(f)[link] ELSE Unknown

has_family_property(f, property) == f \in Families /\ property \in PropertiesOf[f]

-----------------------------------------------------------------------------
(* What each property function has an arm for. *)

root_property ==
  {"headerOffset", "postEOFDataSize", "header", "encrypted", "isEncrypted", "hasCatalog",
   "containsXRefStream", "isLinearized", "nrIndirects", "size", "lastID", "firstPageID",
   "containsInfo", "spacingCompliesPDFA", "subsectionHeaderSpaceSeparated",
   "xrefEOLMarkersComplyPDFA", "headerByte1", "headerByte2", "headerByte3", "headerByte4"}

catalog_property ==
  {"hasMetadata", "containsStructTreeRoot", "containsLang", "containsAA", "containsPieceInfo",
   "containsEmbeddedFiles", "containsAlternatePresentations", "isOptionalContentPresent",
   "Version", "NeedsRendering", "Requirements", "Marked", "DisplayDocTitle", "Suspects"}

metadata_property ==
  {"containsPDFUAIdentification", "containsPDFAIdentification", "XMPTitle", "XMPCreator",
   "XMPCreatorSize", "XMPDescription", "XMPKeywords", "XMPCreatorTool", "XMPProducer",
   "XMPCreateDate", "XMPModifyDate", "doCreationDatesMatch", "doModDatesMatch"}

info_property ==
  {"Title", "Author", "Creator", "Producer", "Keywords", "Subject", "ModDate", "CreationDate"}

CatalogComputed ==
  {"hasMetadata", "hasAcroForm", "containsAcroForm", "hasStructTreeRoot",
   "containsStructTreeRoot", "hasOCProperties", "containsOCProperties", "hasLang",
   "hasOutlines", "hasNames", "hasDests", "language", "permissions", "Marked"}

xmp_packet_property ==
  {"actualEncoding", "bytes", "encoding", "isSerializationValid", "isPredefinedInXMP2004",
   "isPredefinedInXMP2005", "isValueTypeCorrect", "containsUndefinedFields", "undefinedFields"}

xmp_extension_prefix_property ==
  {"isDefinedInMainPackage", "isDefinedInCurrentPackage", "isValidBag", "prefix",
   "schemaPrefix", "namespaceURIPrefix", "prefixPrefix", "propertyPrefix", "valueTypePrefix",
   "fieldPrefix", "typePrefix", "categoryPrefix", "descriptionPrefix", "namePrefix"}

xmp_extension_value_property ==
  {"isSchemaValidText", "isNamespaceURIValidURI", "isPrefixValidText", "isPropertyValidSeq",
   "isValueTypeValidSeq", "isFieldValidSeq", "isTypeValidText", "isCategoryValidText",
   "category", "isDescriptionValidText", "isNameValidText", "isValueTypeValidText",
   "isValueTypeDefined"}

xmp_document_metadata_property == {"dc_title", "xDefault", "gContainsCatalogLang"}

MetadataComputed ==
  {"present", "catalogMetadata", "containsPDFAIdentification", "containsPDFUAIdentification",
   "part", "partPrefix", "conformance", "conformancePrefix", "revPrefix", "amdPrefix",
   "corrPrefix", "rev", "declarations"}

PageComputed ==
  {"hasContents", "hasResources", "containsAnnotations", "containsAA", "containsPresSteps",
   "containsGroupCS", "containsTransparency", "gOutputCS", "gDocumentOutputCS",
   "outputColorSpace", "annotationCount"}

font_decision_property ==
  {"embedded", "containsFontFile", "embeddedProgramBytes", "embeddedProgramCapped",
   "fontFileSubtype", "fontName", "name", "isStandard", "isSymbolic", "renderingMode",
   "cmapName", "toUnicode", "containsDifferences", "differencesAreUnicodeCompliant",
   "cmap10Present", "cmap30Present", "cmap31Present", "nrCmaps", "unicodePUA",
   "actualTextPresent", "altPresent", "isRealContent"}

font_cid_decision_property ==
  {"CIDFontRegistry", "CIDFontOrdering", "CIDFontSupplement", "CMapRegistry", "CMapOrdering",
   "CMapSupplement"}

font_glyph_decision_property ==
  {"widthFromFontProgram", "widthFromDictionary", "Widths_size", "containsCIDSet",
   "cidSetListsAllGlyphs", "CharSet", "charSetListsAllGlyphs", "isGlyphPresent"}

FontComputed ==
  {"hasSubtype", "fontFamily", "hasFontDescriptor", "hasToUnicode", "hasEncoding", "hasWidths",
   "hasCIDSystemInfo", "hasCharProcs", "hasResources"}

AnnotationComputed ==
  {"hasSubtype", "containsAppearances", "containsA", "containsAA", "containsC", "containsIC",
   "containsFS", "containsRC", "containsLbl", "Name", "Contents", "Alt", "AFRelationship",
   "RC", "TU", "containsLang", "gContainsCatalogLang", "differentTargetAnnotObjectKey",
   "gOutputCS", "structParentType", "structParentStandardType", "N_type", "width", "height",
   "isArtifact", "isOutsideCropBox", "isFieldWidget"}

OutputIntentComputed ==
  {"hasDestOutputProfile", "containsDestOutputProfileRef", "sameOutputProfileIndirect",
   "destOutputProfileIndirect", "ICCProfileMD5", "iccProfileSize", "iccVersion",
   "iccDeviceClass", "iccColorSpace", "iccPcs", "iccRenderingIntent", "iccTagCount",
   "iccCapped"}

ContentStreamComputed ==
  {"nrOperators", "operatorCount", "markedContentCount", "nestingLevel",
   "inheritedResourceNames", "undefinedResourceNames", "hasText", "hasMarkedContent",
   "hasInlineImage", "hasUnknownOperators", "truncated", "lengthMatches", "declaredLength",
   "discoveredLength"}

OperatorComputed ==
  {"op", "name", "family", "operandCount", "location", "isUnknown", "textBytes"}

MarkedContentComputed == {"tag", "hasProperties", "nestingDepth", "location"}

InlineImageComputed ==
  {"width", "height", "filters", "colorSpace", "bitsPerComponent", "location"}

ResourceUseComputed ==
  {"family", "name", "operator", "location", "status", "resolvedFamily", "resolvedObject"}

accessibility_document_property ==
  {"isTagged", "language", "hasStructTreeRoot", "roleMapPresent", "RoleMap", "classMapPresent",
   "ClassMap", "classMapEntries", "idTreeEntries", "IDTree", "parentTreeEntries", "ParentTree",
   "parentTreeNextKey", "ParentTreeNextKey", "structureElementCount", "K", "kidsStandardTypes",
   "firstChildStandardTypeNamespaceURL", "hasContentItems", "markedContentAssociationCount",
   "artifactCount", "warningCount", "truncated", "Type"}

structure_element_property ==
  {"role", "S", "parentType", "structParentType", "tag", "normalizedRole",
   "parentStandardType", "structParentStandardType", "page", "Pg", "pageIndex", "childCount",
   "contentItemCount", "K", "associatedMarkedContentCount", "associatedAnnotationCount",
   "hasAltText", "altTextBytes", "hasActualText", "actualTextBytes", "hasLanguage",
   "containsLang", "hasAttributes", "hasClass", "hasId", "idTreeResolved", "classMapResolved",
   "Alt", "ActualText", "Lang", "A", "C", "ID", "P", "containsParent", "containsRef",
   "hasContentItems", "isTaggedContent", "containsLabels", "isArtifact", "parentsTags",
   "isNotMappedToStandardType", "circularMappingExist", "roleMapToSameNamespaceTag",
   "remappedStandardType", "Type"}

structure_element_relationship_property ==
  {"parentStandardTypeNamespaceURL", "parentNamespaceURL",
   "firstChildStandardTypeNamespaceURL", "numberOfColumnWithWrongRowSpan",
   "numberOfRowWithWrongColumnSpan", "wrongColumnSpan", "orphanRefs", "ghostRefs",
   "kidsStandardTypes"}

structure_element_pdfua_property ==
  {"E", "expansionTextBytes", "parentLang", "inheritedLang", "gContainsCatalogLang",
   "roleAttribute", "ListNumbering", "NoteType", "noteID", "hasOneInteractiveChild", "usesH",
   "usesHn", "hasCorrectNestingLevel", "hasDuplicateNoteID", "hasConnectedHeader",
   "unknownHeaders", "isGrouping", "widgetAnnotsCount", "isSignature",
   "hasParentFormulaOrMathML", "hasIntersection"}

text_chunk_property ==
  {"tag", "mcid", "pageIndex", "structureRole", "normalizedRole", "textBytes", "rawText",
   "isArtifact"}

image_chunk_property ==
  {"tag", "mcid", "pageIndex", "structureRole", "normalizedRole", "hasAltText", "altTextBytes",
   "hasActualText", "actualTextBytes", "isArtifact"}

annotation_property == {"pageIndex", "structureRole", "normalizedRole", "isLink", "object"}

artifact_property == {"tag", "pageIndex", "structureRole"}

table_property == {"role", "normalizedRole", "pageIndex", "childCount", "hasAttributes"}

list_property == {"role", "normalizedRole", "pageIndex", "childCount", "containsLabels"}

heading_property == {"role", "normalizedRole", "pageIndex", "level"}

link_property == {"role", "normalizedRole", "pageIndex", "associatedAnnotationCount"}

StreamComputed ==
  {"lengthMatches", "declaredLength", "discoveredLength", "streamKeywordCRLFCompliant",
   "endstreamKeywordEOLCompliant", "F", "FFilter", "FDecodeParms"}

object_property_from_cos ==
  {"Type", "Subtype", "decodeParms", "F", "UF", "AFRelationship", "internalRepresentation",
   "unicodeValue", "containsPUA", "containsDesc", "containsEF", "isHex", "containsOnlyHex",
   "isValidUtf8", "realValue", "intValue", "value", "size", "top", "bottom", "left", "right",
   "hexCount", "isAssociatedFile", "presentInEmbeddedFiles"}


\* The computed names of a generic object, by its family.

acro_action_destination_property(f) ==
  CASE f = "acroForm" ->
         {"containsXFA", "dynamicRender"}
    [] f = "action" ->
         {"N", "parentType", "containsStructDestination", "entries"}
    [] f = "destination" ->
         {"D", "Dest", "isStructDestination"}
    [] OTHER -> {}

form_optional_permission_property(f) ==
  CASE f = "formField" ->
         {"containsAA", "containsLang", "containsRV", "gContainsCatalogLang"}
    [] f = "outline" ->
         {"gContainsCatalogLang"}
    [] f = "optionalContentProperties" ->
         {"AS", "Name", "gContainsConfigs", "hasDuplicateName", "OCGsNotContainedInOrder"}
    [] f = "permissions" ->
         {"entries"}
    [] OTHER -> {}

signature_property(f) ==
  CASE f = "signature" ->
         {"signingCertificatePresent", "permsContainDocMDP", "doesByteRangeCoverEntireDocument",
          "SignerInfoCount", "entries"}
    [] OTHER -> {}

image_summary_property(f) ==
  CASE f = "image" ->
         {"width", "height", "hasColorSpace", "isMask", "containsAlternates", "containsOPI",
          "Interpolate", "nrColorSpaceSpecs", "nrColorSpacesWithApproxField", "nrColorChannels",
          "colrMethod", "colrEnumCS", "bpccBoxPresent", "bitDepth"}
    [] OTHER -> {}

color_space_summary_property(f) ==
  CASE f = "colorSpace" ->
         {"family", "componentCount", "nrComponents", "hasAlternate", "hasTintTransform",
          "hasICCProfile", "gOutputCS", "gDocumentOutputCS", "gPageOutputCS", "gTransparencyCS",
          "currentTransparencyProfileIndirect", "gOutputProfileIndirect", "ICCProfileIndirect",
          "ICCProfileMD5", "gOutputICCProfileMD5", "currentTransparencyICCProfileMD5", "S",
          "HalftoneName", "HalftoneType", "overprintFlag", "OPM", "colorantName",
          "TransferFunction", "areColorantsPresent", "areTintAndAlternateConsistent"}
    [] OTHER -> {}

ext_gstate_summary_property(f) ==
  CASE f = "extGState" ->
         {"hasSoftMask", "hasBlendMode", "containsBM", "BMNameValue", "containsSMask",
          "SMaskNameValue", "containsTR", "containsTR2", "TR2NameValue", "containsHTP",
          "containsHTO", "alphaSource"}
    [] OTHER -> {}

xobject_summary_property(f) ==
  (IF f \in {"xObject", "formXObject", "postScriptXObject"}
   THEN {"containsOPI", "containsSMask", "containsPS", "containsRef"} ELSE {})
    \cup (IF f = "formXObject" THEN {"isUniqueSemanticParent"} ELSE {})
    \cup (IF f = "xObject" THEN {"hasCorrectAlt"} ELSE {})

cmap_font_stream_summary_property(f) ==
  CASE f = "cMap" ->
         {"hasCIDSystemInfo", "hasUseCMap", "embedded", "containsEmbeddedFile", "CMapRegistry",
          "CMapOrdering", "CMapSupplement"}
    [] OTHER -> {}

resource_summary_property(f) ==
  image_summary_property(f) \cup color_space_summary_property(f)
    \cup ext_gstate_summary_property(f) \cup xobject_summary_property(f)
    \cup cmap_font_stream_summary_property(f)

GenericComputed(f) ==
  acro_action_destination_property(f) \cup form_optional_permission_property(f)
    \cup signature_property(f) \cup resource_summary_property(f)

\* The names a generic object of the family refuses although a table lists them.
Refused(f) ==
  CASE f = "cMap" -> {"dictWMode", "maximalCID"}
    [] f = "embeddedFontFile" -> {"isValidPDFA12", "isValidPDFA124"}
    [] OTHER -> {}

\* The names an object refuses when its data would take a computation the code
\* does not have: differences, a font program, a CIDSet or a CharSet of a font, an
\* ICC profile to digest, a profile that cannot be read, a JPX image
\* (validation.rs:7861, 7954, 7988-8013, 8103-8113, 8157, 8477, 8520).
RefusedOfSome(f) ==
  CASE f = "font" -> {"differencesAreUnicodeCompliant", "widthFromFontProgram",
                      "cidSetListsAllGlyphs", "charSetListsAllGlyphs"}
    [] f = "outputIntent" -> {"ICCProfileMD5", "sameOutputProfileIndirect"}
    [] f = "colorSpace" -> {"ICCProfileMD5", "gOutputICCProfileMD5",
                            "currentTransparencyICCProfileMD5"}
    [] f = "image" -> {"nrColorSpaceSpecs", "nrColorSpacesWithApproxField", "nrColorChannels",
                       "colrMethod", "colrEnumCS", "bpccBoxPresent"}
    [] OTHER -> {}

-----------------------------------------------------------------------------
(* The dictionary names a family reads straight from its object, as the    *)
(* generic objects do it (family_direct_properties) and as the registry    *)
(* declares it (direct_properties_for_family): two more tables that are    *)
(* kept apart.                                                             *)

\* Mutant of family_direct_properties: the published table in place of the keys.
family_direct_propertiesMutant(f) ==
  IF f \in Families THEN PropertiesOf[f] ELSE DIRECT_PROPERTY_NAMES

family_direct_properties(f) ==
  CASE f = "resource"    -> RESOURCE_DIRECT_PROPERTIES
    [] f = "names"       -> NAMES_DIRECT_PROPERTIES
    [] f = "outline"     -> OUTLINES_DIRECT_PROPERTIES
    [] f = "destination" -> DESTINATION_DIRECT_PROPERTIES
    [] f = "acroForm"    -> ACRO_FORM_DIRECT_PROPERTIES
    [] f = "optionalContentProperties" -> OPTIONAL_CONTENT_DIRECT_PROPERTIES
    [] f = "permissions" -> PERMISSIONS_PROPERTIES
    [] f = "cMap"        -> CMAP_DIRECT_PROPERTIES
    [] f = "image"       -> IMAGE_DIRECT_PROPERTIES
    [] f \in {"xObject", "formXObject", "postScriptXObject"} -> XOBJECT_DIRECT_PROPERTIES
    [] f = "pattern"     -> PATTERN_DIRECT_PROPERTIES
    [] f = "shading"     -> SHADING_DIRECT_PROPERTIES
    [] f = "function"    -> FUNCTION_DIRECT_PROPERTIES
    [] f = "action"      -> ACTION_DIRECT_PROPERTIES
    [] f = "formField"   -> FORM_FIELD_DIRECT_PROPERTIES
    [] f = "fileSpec"    -> FILE_SPEC_DIRECT_PROPERTIES
    [] f = "colorSpace"  -> COLOR_SPACE_DIRECT_PROPERTIES
    [] f = "extGState"   -> EXT_GSTATE_DIRECT_PROPERTIES
    [] f = "structureTreeRoot" -> STRUCTURE_DIRECT_PROPERTIES
    [] f = "signature"   -> SIGNATURE_DIRECT_PROPERTIES
    [] f = "security"    -> SECURITY_DIRECT_PROPERTIES
    [] f \in {"fontDescriptor", "fontProgram", "iccProfile", "structureElement", "pageTree"}
         -> PropertiesOf[f]
    [] OTHER -> DIRECT_PROPERTY_NAMES

direct_properties_for_family(f) ==
  CASE f = "catalog"      -> CATALOG_DIRECT_PROPERTIES
    [] f = "metadata"     -> METADATA_DIRECT_PROPERTIES
    [] f = "page"         -> PAGE_DIRECT_PROPERTIES
    [] f = "font"         -> FONT_DIRECT_PROPERTIES
    [] f = "annotation"   -> ANNOTATION_DIRECT_PROPERTIES
    [] f = "outputIntent" -> OUTPUT_INTENT_DIRECT_PROPERTIES
    [] f \in {"contentStream", "stream"} -> STREAM_DIRECT_PROPERTIES
    [] f = "permissions"  -> {"DocMDP", "UR", "UR3"}
    [] f \in {"pageTree", "fontDescriptor", "fontProgram"} -> PropertiesOf[f]
    [] f = "resource"     -> RESOURCE_DIRECT_PROPERTIES
    [] f = "names"        -> NAMES_DIRECT_PROPERTIES
    [] f = "outline"      -> OUTLINES_DIRECT_PROPERTIES
    [] f = "destination"  -> DESTINATION_DIRECT_PROPERTIES
    [] f = "acroForm"     -> ACRO_FORM_DIRECT_PROPERTIES
    [] f = "optionalContentProperties" -> OPTIONAL_CONTENT_DIRECT_PROPERTIES
    [] f = "cMap"         -> CMAP_DIRECT_PROPERTIES
    [] f = "image"        -> IMAGE_DIRECT_PROPERTIES
    [] f \in {"xObject", "formXObject", "postScriptXObject"} -> XOBJECT_DIRECT_PROPERTIES
    [] f = "action"       -> ACTION_DIRECT_PROPERTIES
    [] f = "formField"    -> FORM_FIELD_DIRECT_PROPERTIES
    [] f = "fileSpec"     -> FILE_SPEC_DIRECT_PROPERTIES
    [] f \in {"colorSpace", "iccProfile"} -> COLOR_SPACE_DIRECT_PROPERTIES
    [] f = "extGState"    -> EXT_GSTATE_DIRECT_PROPERTIES
    [] f = "pattern"      -> PATTERN_DIRECT_PROPERTIES
    [] f = "shading"      -> SHADING_DIRECT_PROPERTIES
    [] f = "function"     -> FUNCTION_DIRECT_PROPERTIES
    [] f = "structureTreeRoot" -> STRUCTURE_DIRECT_PROPERTIES
    [] f = "signature"    -> SIGNATURE_DIRECT_PROPERTIES
    [] f = "security"     -> SECURITY_DIRECT_PROPERTIES
    [] OTHER -> {}

=============================================================================
