SPECIFICATION Spec
INVARIANTS TypeOK RightAnswer NoHoles Whole PhpAsked
PROPERTIES Answered
CONSTANTS
  Root <- MCRoot
  Index <- MCIndex
  Host <- MCHost
  Connection <- MCConnection
  IfModifiedSince <- MCIfModifiedSince
  ContentLength <- MCContentLength
  KeepAlive <- MCKeepAlive
  MimeTypes <- MCMimeTypes
  PlainText = "plain"
  BYTE = 16
  Requests <- MCRequests
  Disks <- MCDisks
  Replies <- MCReplies
  Beyond <- MCBeyond
  SndBuf = 7
  Segment = 3
  HeadLen = 2
  ErrorLen = 2
  ScriptFilename <- MCScriptFilename
  RequestMethod <- MCRequestMethod
  QueryString <- MCQueryString
  MaxRequests = 2
  MaxChanges = 1
  NULL = NULL
CHECK_DEADLOCK FALSE
