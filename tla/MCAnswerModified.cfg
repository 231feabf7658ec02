SPECIFICATION Spec
INVARIANTS ModifiedIsDecided
CONSTANTS
  Root <- MCRoot
  Index <- MCIndex
  Host <- MCHost
  Connection <- MCConnection
  IfModifiedSince <- MCIfModifiedSince
  ContentLength <- MCContentLength
  KeepAlive <- MCKeepAlive
  MimeTypes <- MCMimeTypes
  PlainText = "plain"
  BYTE = 16
  Requests <- MCDatedRequests
  Disks <- MCDisks
  Replies <- MCReplies
  Beyond <- MCBeyond
  SndBuf = 7
  Segment = 3
  HeadLen = 2
  ErrorLen = 2
  ScriptFilename <- MCScriptFilename
  RequestMethod <- MCRequestMethod
  QueryString <- MCQueryString
  MaxRequests = 1
  MaxChanges = 1
  NULL = NULL
CHECK_DEADLOCK FALSE
